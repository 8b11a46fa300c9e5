----------------------------- MODULE Pold_proofs -----------------------------
(* For any agents, applications, calls, policies, server answers, and any    *)
(* outcome of the reads of freed memory: the types, the single owner of each *)
(* call's data, and the agreement of the two tables of the registry. Then    *)
(* what orderly clients can rely on, up to the refinement.                   *)
EXTENDS PoldProperties, PolicyFiles_proofs, SequenceTheorems, TLAPS

IInv == TypeOK /\ OneOwner /\ IndexExact

-----------------------------------------------------------------------------
(* Facts about the registry. *)

(* The ids of a watched app.                                                 *)
LEMMA IdsOfRecord ==
  ASSUME TypeOK, NEW k \in Key
  PROVE  Ids(k) \subseteq PolicyId
<1>1. CASE app_id_to_app[k] = NULL
  BY <1>1 DEF Ids
<1>2. CASE app_id_to_app[k] # NULL
  <2>1. app_id_to_app[k].policy_ids \in Seq(PolicyId)
    BY <1>2 DEF TypeOK, AppRecord
  <2> QED BY <2>1 DEF Ids
<1> QED BY <1>1, <1>2

(* Dropping any set of apps from both tables keeps them in agreement.        *)
LEMMA StopWatching ==
  ASSUME TypeOK, IndexExact, NEW K, stop_watching(K)
  PROVE  /\ app_id_to_app' \in [Key -> AppRecord \cup {NULL}]
         /\ id_to_apps' \in [PolicyId -> SUBSET Key]
         /\ IndexExact'
<1>1. app_id_to_app' \in [Key -> AppRecord \cup {NULL}]
  BY DEF stop_watching, TypeOK
<1>2. id_to_apps' \in [PolicyId -> SUBSET Key]
  BY DEF stop_watching, TypeOK
<1>3. IndexExact'
  <2> SUFFICES ASSUME NEW id \in PolicyId, NEW k \in Key
               PROVE  k \in id_to_apps'[id] <=> id \in Ids(k)'
    BY DEF IndexExact
  <2>1. k \in id_to_apps[id] <=> id \in Ids(k)
    BY DEF IndexExact
  <2>2. k \in id_to_apps'[id] <=> k \in id_to_apps[id] /\ ~(k \in K /\ id \in Ids(k))
    BY DEF stop_watching
  <2>3. Ids(k)' = IF k \in K THEN {} ELSE Ids(k)
    BY DEF stop_watching, Ids
  <2> QED BY <2>1, <2>2, <2>3
<1> QED BY <1>1, <1>2, <1>3

(* An update changes no app's ids.                                           *)
LEMMA ApplyUpdate ==
  ASSUME TypeOK, IndexExact, NEW outcome, outcome.table \in Table,
         apply_update(outcome)
  PROVE  /\ id_to_policy' \in Table
         /\ app_id_to_app' \in [Key -> AppRecord \cup {NULL}]
         /\ told' \in [Key -> Json \cup {NULL, Untold}]
         /\ UNCHANGED <<id_to_apps, stale, reused, default_policy>>
         /\ IndexExact'
         /\ \A k \in Key : Ids(k)' = Ids(k) /\ (app_id_to_app'[k] = NULL <=> app_id_to_app[k] = NULL)
         /\ \A k \in Key : told'[k] # told[k] => k \in Watched
<1> DEFINE doc(k) == Active(k, outcome.table, default_policy.json)
           sends == IF outcome.error THEN {{}} ELSE update_agent_policies(outcome.table)
<1>1. PICK S \in sends :
        /\ app_id_to_app' = [k \in Key |->
             IF k \in S THEN [app_id_to_app[k] EXCEPT !.agent_policy_json = doc(k)]
                        ELSE app_id_to_app[k]]
        /\ told' = [k \in Key |-> IF k \in S THEN doc(k) ELSE told[k]]
  BY DEF apply_update
<1>2. S \subseteq Watched
  BY DEF update_agent_policies, mark_update_apps
<1>3. \A k \in Watched : app_id_to_app[k] \in AppRecord /\ doc(k) \in Json \cup {NULL}
  <2> SUFFICES ASSUME NEW k \in Watched
               PROVE  app_id_to_app[k] \in AppRecord /\ doc(k) \in Json \cup {NULL}
    OBVIOUS
  <2>1. app_id_to_app[k] \in AppRecord
    BY DEF Watched, TypeOK
  <2>2. app_id_to_app[k].policy_ids \in Seq(PolicyId)
    BY <2>1 DEF AppRecord
  <2>3. default_policy.json \in Json \cup {NULL}
    BY DEF TypeOK
  <2> QED BY <2>1, <2>2, <2>3, ActiveType DEF Active
<1> HIDE DEF doc
<1>4. \A k \in S :
        /\ app_id_to_app'[k] = [app_id_to_app[k] EXCEPT !.agent_policy_json = doc(k)]
        /\ app_id_to_app'[k] \in AppRecord
        /\ app_id_to_app'[k].policy_ids = app_id_to_app[k].policy_ids
  BY <1>1, <1>2, <1>3 DEF AppRecord, Watched
<1>5. \A k \in Key \ S : app_id_to_app'[k] = app_id_to_app[k]
  BY <1>1
<1>6. app_id_to_app' \in [Key -> AppRecord \cup {NULL}]
  BY <1>1, <1>4, <1>5 DEF TypeOK
<1>7. told' \in [Key -> Json \cup {NULL, Untold}]
  BY <1>1, <1>2, <1>3 DEF TypeOK
<1>8. id_to_policy' \in Table /\ UNCHANGED <<id_to_apps, stale, reused, default_policy>>
  BY DEF apply_update
<1>9. \A k \in S : app_id_to_app[k] # NULL /\ app_id_to_app'[k] # NULL
  BY <1>2, <1>4, RecordsAssumption DEF Watched
<1>10. ASSUME NEW k \in Key PROVE Ids(k)' = Ids(k)
  <2>1. CASE k \in S
    <3>1. /\ app_id_to_app[k] # NULL /\ app_id_to_app'[k] # NULL
          /\ app_id_to_app'[k].policy_ids = app_id_to_app[k].policy_ids
      BY <1>4, <1>9, <2>1
    <3> QED BY <3>1, Zenon DEF Ids
  <2>2. CASE k \notin S
    BY <1>5, <2>2 DEF Ids
  <2> QED BY <2>1, <2>2
<1>11. IndexExact'
  BY <1>8, <1>10 DEF IndexExact
<1>12. \A k \in Key : app_id_to_app'[k] = NULL <=> app_id_to_app[k] = NULL
  BY <1>5, <1>9
<1>13. \A k \in Key : told'[k] # told[k] => k \in Watched
  BY <1>1, <1>2
<1> QED BY <1>6, <1>7, <1>8, <1>10, <1>11, <1>12, <1>13
-----------------------------------------------------------------------------
(* Facts about the inbox. *)

(* A new message for a call that no other message carries, with the call in  *)
(* the stage that fits, and no other waiting call touched.                   *)
LEMMA SendKeeps ==
  ASSUME TypeOK, OneOwner, NEW m \in Message, Send(m),
         \A i \in DOMAIN inbox : CarriesCall(inbox[i]) =>
            request'[inbox[i].request] = request[inbox[i].request],
         CarriesCall(m) =>
            /\ request'[m.request] # NULL
            /\ request'[m.request].stage = WaitingAs(m.type)
            /\ \A i \in DOMAIN inbox : CarriesCall(inbox[i])
                                         => inbox[i].request # m.request
  PROVE  inbox' \in Seq(Message) /\ OneOwner'
<1>1. inbox \in Seq(Message) /\ inbox' = Append(inbox, m)
  BY DEF TypeOK, Send
<1>2. /\ inbox' \in Seq(Message)
      /\ DOMAIN inbox' = DOMAIN inbox \cup {Len(inbox) + 1}
      /\ \A i \in DOMAIN inbox : inbox'[i] = inbox[i]
      /\ inbox'[Len(inbox) + 1] = m
  BY <1>1
<1>3. \A i \in DOMAIN inbox' : CarriesCall(inbox'[i]) =>
        /\ request'[inbox'[i].request] # NULL
        /\ request'[inbox'[i].request].stage = WaitingAs(inbox'[i].type)
  BY <1>2 DEF OneOwner
<1>4. \A i, j \in DOMAIN inbox' :
        CarriesCall(inbox'[i]) /\ CarriesCall(inbox'[j])
          /\ inbox'[i].request = inbox'[j].request => i = j
  BY <1>2 DEF OneOwner
<1> QED BY <1>2, <1>3, <1>4 DEF OneOwner, CarriesCall, WaitingAs

(* Taking the oldest message, with every call that still waits untouched.    *)
LEMMA ReceiveKeeps ==
  ASSUME TypeOK, OneOwner, inbox # <<>>, inbox' = Tail(inbox),
         \A i \in DOMAIN inbox : i # 1 /\ CarriesCall(inbox[i]) =>
            request'[inbox[i].request] = request[inbox[i].request]
  PROVE  inbox' \in Seq(Message) /\ OneOwner'
<1>1. inbox \in Seq(Message) /\ Len(inbox) \in Nat \ {0}
  BY DEF TypeOK
<1>2. /\ inbox' \in Seq(Message)
      /\ \A i \in DOMAIN inbox' : /\ i + 1 \in DOMAIN inbox
                                   /\ i \in Nat /\ i + 1 # 1
                                   /\ inbox'[i] = inbox[i + 1]
  BY <1>1
<1>3. \A i \in DOMAIN inbox' : CarriesCall(inbox'[i]) =>
        /\ request'[inbox'[i].request] # NULL
        /\ request'[inbox'[i].request].stage = WaitingAs(inbox'[i].type)
  BY <1>2 DEF OneOwner
<1>4. \A i, j \in DOMAIN inbox' :
        CarriesCall(inbox'[i]) /\ CarriesCall(inbox'[j])
          /\ inbox'[i].request = inbox'[j].request => i = j
  <2> SUFFICES ASSUME NEW i \in DOMAIN inbox', NEW j \in DOMAIN inbox',
                      CarriesCall(inbox'[i]), CarriesCall(inbox'[j]),
                      inbox'[i].request = inbox'[j].request
               PROVE  i = j
    OBVIOUS
  <2>1. i + 1 = j + 1
    BY <1>2 DEF OneOwner
  <2> QED BY <1>2, <2>1
<1> QED BY <1>2, <1>3, <1>4 DEF OneOwner, CarriesCall, WaitingAs

(* The message that is dispatched, and what the invariant says of it.        *)
LEMMA HeadFacts ==
  ASSUME TypeOK, OneOwner, inbox # <<>>
  PROVE  /\ 1 \in DOMAIN inbox
         /\ Head(inbox) = inbox[1]
         /\ Head(inbox) \in Message
         /\ CarriesCall(Head(inbox)) =>
              /\ Head(inbox).request \in Request
              /\ request[Head(inbox).request] \in ConfigData
              /\ \A i \in DOMAIN inbox : i # 1 /\ CarriesCall(inbox[i])
                    => inbox[i].request # Head(inbox).request
<1>1. inbox \in Seq(Message) /\ Len(inbox) \in Nat \ {0}
  BY DEF TypeOK
<1>2. 1 \in DOMAIN inbox /\ Head(inbox) = inbox[1] /\ Head(inbox) \in Message
  BY <1>1
<1>3. CarriesCall(Head(inbox)) => Head(inbox).request \in Request
  BY <1>2 DEF CarriesCall, Message, AgentCall, ConfigCall, SelinuxReply,
              UserReply, Departure
<1>4. CarriesCall(Head(inbox)) => request[Head(inbox).request] # NULL
  BY <1>2 DEF OneOwner
<1>5. CarriesCall(Head(inbox)) => request[Head(inbox).request] \in ConfigData
  BY <1>3, <1>4 DEF TypeOK
<1>6. CarriesCall(Head(inbox)) =>
        \A i \in DOMAIN inbox : i # 1 /\ CarriesCall(inbox[i])
          => inbox[i].request # Head(inbox).request
  BY <1>2 DEF OneOwner
<1> QED BY <1>2, <1>3, <1>5, <1>6
-----------------------------------------------------------------------------
(* What no step that leaves the parts concerned alone can disturb. *)

(* IndexExact is about the registry only.                                    *)
LEMMA IndexKept ==
  ASSUME IndexExact, UNCHANGED <<app_id_to_app, id_to_apps>>
  PROVE  IndexExact'
BY DEF IndexExact, Ids

(* OneOwner is about the calls and the messages only.                        *)
LEMMA OwnerKept ==
  ASSUME OneOwner, UNCHANGED inbox,
         \A i \in DOMAIN inbox : CarriesCall(inbox[i]) =>
            request'[inbox[i].request] = request[inbox[i].request]
  PROVE  OneOwner'
BY DEF OneOwner, CarriesCall, WaitingAs

(* A call that no waiting message carries: its stage says it waits for       *)
(* somebody outside pold.                                                    *)
LEMMA NotWaiting ==
  ASSUME OneOwner, NEW r, request[r] # NULL => request[r].stage \in {"http", "selinux", "user"}
  PROVE  \A i \in DOMAIN inbox : CarriesCall(inbox[i]) => inbox[i].request # r
<1> SUFFICES ASSUME NEW i \in DOMAIN inbox, CarriesCall(inbox[i]), inbox[i].request = r
             PROVE  FALSE
  OBVIOUS
<1>1. request[r] # NULL /\ request[r].stage = WaitingAs(inbox[i].type)
  BY DEF OneOwner
<1>2. WaitingAs(inbox[i].type) \in {"queued", "selinux_replied", "user_replied"}
  BY DEF CarriesCall, WaitingAs
<1> QED BY <1>1, <1>2
-----------------------------------------------------------------------------
(* The daemon starts in the invariant.                                       *)
LEMMA InitIInv == Init => IInv
<1> SUFFICES ASSUME Init PROVE IInv
  OBVIOUS
<1>1. id_to_policy \in Table
  <2>1. InitialFiles \in SUBSET File
    BY ServerAssumption
  <2> QED BY <2>1, TablesOfType DEF Init
<1>2. default_policy \in [id : PolicyId \cup {NoId}, json : Json \cup {NULL}]
  BY IdsAssumption DEF Init
<1>3. TypeOK
  BY <1>1, <1>2 DEF Init, TypeOK
<1>4. OneOwner
  BY DEF Init, OneOwner
<1>5. IndexExact
  BY DEF Init, IndexExact, Ids
<1> QED BY <1>3, <1>4, <1>5 DEF IInv
-----------------------------------------------------------------------------
(* The clients and the bus. *)

(* A client calls Register or Unregister.                                    *)
LEMMA CallAgentMethodKeeps ==
  ASSUME IInv, NEW a \in Agent, NEW p \in Path,
         NEW method \in {"RegisterAgent", "UnregisterAgent"},
         CallAgentMethod(a, method, p)
  PROVE  IInv'
<1> DEFINE m == [type |-> method, sender |-> a, path |-> p]
<1>1. m \in Message /\ ~CarriesCall(m)
  BY DEF Message, AgentCall, CarriesCall
<1>2. Send(m) /\ UNCHANGED <<agents, registry, policies, request, updating, bus, status>>
  BY DEF CallAgentMethod
<1>3. inbox' \in Seq(Message) /\ OneOwner'
  BY <1>1, <1>2, SendKeeps DEF IInv
<1>4. IndexExact'
  BY <1>2, IndexKept DEF IInv, registry
<1> QED BY <1>2, <1>3, <1>4 DEF IInv, TypeOK, agents, registry, policies

(* A client asks for a configuration.                                        *)
LEMMA CallGetPolicyConfigKeeps ==
  ASSUME IInv, NEW r \in Request, NEW a \in Agent, NEW app \in App,
         CallGetPolicyConfig(r, a, app)
  PROVE  IInv'
<1> DEFINE m == [type |-> "GetPolicyConfig", request |-> r]
           data == [agent |-> a, app |-> app, stage |-> "queued", selinux |-> NULL]
<1>1. m \in Message /\ data \in ConfigData
  BY DEF Message, ConfigCall, ConfigData, Stage
<1>2. /\ Send(m) /\ request' = [request EXCEPT ![r] = data] /\ request[r] = NULL
      /\ UNCHANGED <<agents, registry, policies, updating, bus, status>>
  BY DEF CallGetPolicyConfig
<1>3. \A i \in DOMAIN inbox : CarriesCall(inbox[i]) => inbox[i].request # r
  BY <1>2, NotWaiting DEF IInv
<1>4. request' \in [Request -> ConfigData \cup {NULL}] /\ request'[r] = data
  BY <1>1, <1>2 DEF IInv, TypeOK
<1>5. \A i \in DOMAIN inbox : CarriesCall(inbox[i]) =>
        request'[inbox[i].request] = request[inbox[i].request]
  BY <1>2, <1>3 DEF IInv, TypeOK
<1>6. request'[r] # NULL /\ request'[r].stage = WaitingAs("GetPolicyConfig")
  BY <1>1, <1>4, RecordsAssumption DEF WaitingAs
<1>7. inbox' \in Seq(Message) /\ OneOwner'
  BY <1>1, <1>2, <1>3, <1>5, <1>6, SendKeeps DEF IInv
<1>8. IndexExact'
  BY <1>2, IndexKept DEF IInv, registry
<1> QED BY <1>2, <1>4, <1>7, <1>8 DEF IInv, TypeOK, agents, registry, policies

(* A client leaves the bus.                                                  *)
LEMMA DisconnectKeeps ==
  ASSUME IInv, NEW n \in Name, Disconnect(n)
  PROVE  IInv'
<1> DEFINE m == [type |-> "NameOwnerChanged", name |-> n]
<1>1. m \in Message /\ ~CarriesCall(m)
  BY DEF Message, Departure, CarriesCall
<1>2. /\ bus' = bus \ {n}
      /\ Send(m) \/ UNCHANGED inbox
      /\ UNCHANGED <<agents, registry, policies, request, updating, status>>
  BY DEF Disconnect
<1>3. inbox' \in Seq(Message) /\ OneOwner'
  <2>1. CASE Send(m)
    BY <1>1, <1>2, <2>1, SendKeeps DEF IInv
  <2>2. CASE UNCHANGED inbox
    BY <1>2, <2>2, OwnerKept DEF IInv, TypeOK
  <2> QED BY <1>2, <2>1, <2>2
<1>4. IndexExact'
  BY <1>2, IndexKept DEF IInv, registry
<1> QED BY <1>2, <1>3, <1>4 DEF IInv, TypeOK, agents, registry, policies

(* The bus daemon answers one of pold's calls.                               *)
LEMMA BusReplyKeeps ==
  ASSUME IInv, NEW r \in Request, BusSelinuxReply(r) \/ BusUserReply(r)
  PROVE  IInv'
<1>1. PICK m \in SelinuxReply \cup UserReply :
        /\ m.request = r /\ CarriesCall(m) /\ Send(m)
        /\ request' = [request EXCEPT ![r].stage = WaitingAs(m.type)]
  <2>1. CASE BusSelinuxReply(r)
    <3> DEFINE m == [type |-> "SelinuxReply", request |-> r,
                     context |-> IF request[r].app \in bus
                                 THEN SelinuxId[request[r].app] ELSE NULL]
    <3>1. request[r].app \in App
      BY <2>1 DEF BusSelinuxReply, IInv, TypeOK, ConfigData
    <3>2. m \in SelinuxReply
      BY <3>1, IdsAssumption DEF SelinuxReply
    <3>3. m.request = r /\ CarriesCall(m) /\ WaitingAs(m.type) = "selinux_replied"
      BY DEF CarriesCall, WaitingAs
    <3>4. Send(m) /\ request' = [request EXCEPT ![r].stage = "selinux_replied"]
      BY <2>1 DEF BusSelinuxReply
    <3> QED BY <3>2, <3>3, <3>4
  <2>2. CASE BusUserReply(r)
    <3> DEFINE m == [type |-> "UserReply", request |-> r, known |-> request[r].app \in bus]
    <3>1. m \in UserReply
      BY DEF UserReply
    <3>2. m.request = r /\ CarriesCall(m) /\ WaitingAs(m.type) = "user_replied"
      BY DEF CarriesCall, WaitingAs
    <3>3. Send(m) /\ request' = [request EXCEPT ![r].stage = "user_replied"]
      BY <2>2 DEF BusUserReply
    <3> QED BY <3>1, <3>2, <3>3
  <2> QED BY <2>1, <2>2
<1>2. /\ request[r] # NULL /\ request[r].stage \in {"selinux", "user"}
      /\ UNCHANGED <<agents, registry, policies, updating, bus, status>>
  BY DEF BusSelinuxReply, BusUserReply
<1>3. \A i \in DOMAIN inbox : CarriesCall(inbox[i]) => inbox[i].request # r
  BY <1>2, NotWaiting DEF IInv
<1>4. WaitingAs(m.type) \in Stage
  BY <1>1 DEF CarriesCall, WaitingAs, Stage
<1>5. /\ request' \in [Request -> ConfigData \cup {NULL}]
      /\ request'[r] \in ConfigData /\ request'[r].stage = WaitingAs(m.type)
  <2>1. request[r] \in ConfigData
    BY <1>2 DEF IInv, TypeOK
  <2>2. /\ [request[r] EXCEPT !.stage = WaitingAs(m.type)] \in ConfigData
        /\ [request[r] EXCEPT !.stage = WaitingAs(m.type)].stage = WaitingAs(m.type)
    BY <1>4, <2>1 DEF ConfigData
  <2> QED BY <1>1, <2>2 DEF IInv, TypeOK
<1>6. \A i \in DOMAIN inbox : CarriesCall(inbox[i]) =>
        request'[inbox[i].request] = request[inbox[i].request]
  BY <1>1, <1>3 DEF IInv, TypeOK
<1>7. inbox' \in Seq(Message) /\ OneOwner'
  BY <1>1, <1>3, <1>5, <1>6, SendKeeps, RecordsAssumption DEF IInv, Message
<1>8. IndexExact'
  BY <1>2, IndexKept DEF IInv, registry
<1> QED BY <1>2, <1>5, <1>7, <1>8 DEF IInv, TypeOK, agents, registry, policies
-----------------------------------------------------------------------------
(* Removing apps. *)

(* Removing the apps of some agents leaves the tables in agreement.          *)
LEMMA RemoveAgentApps ==
  ASSUME TypeOK, IndexExact, NEW names, pold_remove_agent_apps(names)
  PROVE  /\ app_id_to_app' \in [Key -> AppRecord \cup {NULL}]
         /\ id_to_apps' \in [PolicyId -> SUBSET Key]
         /\ stale' \in SUBSET Key
         /\ reused' \in SUBSET (Key \X Key)
         /\ IndexExact'
<1> DEFINE K == fill_apps_to_remove(names)
<1>1. stop_watching(K) /\ stale' = stale \cup K /\ reused' = {p \in reused : p[2] \notin K}
  BY DEF pold_remove_agent_apps
<1>2. K \subseteq Key
  BY DEF fill_apps_to_remove, TypeOK
<1> HIDE DEF K
<1>3. stale' \in SUBSET Key /\ reused' \in SUBSET (Key \X Key)
  BY <1>1, <1>2 DEF TypeOK
<1> QED BY <1>1, <1>3, StopWatching

(* Forgetting what an agent was told leaves a record of the type.            *)
LEMMA ForgetType ==
  ASSUME TypeOK, NEW keys, Forget(keys)
  PROVE  told' \in [Key -> Json \cup {NULL, Untold}]
BY DEF TypeOK, Forget
-----------------------------------------------------------------------------
(* Agents come and go. *)

(* Register is refused to an agent already known.                            *)
LEMMA RegisterTwiceKeeps ==
  ASSUME IInv, RegisterTwice
  PROVE  IInv'
<1>1. /\ UNCHANGED <<agents, registry, policies, request, updating, inbox, bus>>
      /\ status' = "spinning"
  BY DEF RegisterTwice
<1>2. OneOwner' /\ IndexExact'
  BY <1>1, OwnerKept, IndexKept DEF IInv, registry
<1> QED BY <1>1, <1>2 DEF IInv, TypeOK, agents, registry, policies

(* Register takes a new agent.                                               *)
LEMMA RegisterKeeps ==
  ASSUME IInv, pold_manager_register_agent
  PROVE  IInv'
<1> DEFINE m == Head(inbox)
<1>1. /\ inbox # <<>> /\ inbox' = Tail(inbox) /\ m.type = "RegisterAgent"
      /\ object_paths' = [object_paths EXCEPT ![m.sender] = m.path]
      /\ agent_watches' = [agent_watches EXCEPT ![m.sender] = @ + 1]
      /\ UNCHANGED <<registry, policies, request, updating, bus, status>>
  BY DEF pold_manager_register_agent, Receive
<1>2. m \in Message
  BY <1>1, HeadFacts DEF IInv
<1>3. m.sender \in Agent /\ m.path \in Path
  BY <1>1, <1>2 DEF Message, AgentCall, ConfigCall, SelinuxReply, UserReply, Departure
<1> HIDE DEF m
<1>4. /\ object_paths' \in [Agent -> Path \cup {NULL}]
      /\ agent_watches' \in [Agent -> Nat]
  BY <1>1, <1>3 DEF IInv, TypeOK
<1>5. inbox' \in Seq(Message) /\ OneOwner'
  BY <1>1, ReceiveKeeps DEF IInv
<1>6. IndexExact'
  BY <1>1, IndexKept DEF IInv, registry
<1> QED BY <1>1, <1>4, <1>5, <1>6 DEF IInv, TypeOK, registry, policies

(* Unregister, of an agent known or not.                                     *)
LEMMA UnregisterKeeps ==
  ASSUME IInv, pold_manager_unregister_agent
  PROVE  IInv'
<1> DEFINE m == Head(inbox)
<1>1. /\ inbox # <<>> /\ inbox' = Tail(inbox)
      /\ UNCHANGED <<agent_watches, policies, request, updating, bus, status>>
  BY DEF pold_manager_unregister_agent, Receive
<1>2. inbox' \in Seq(Message) /\ OneOwner'
  BY <1>1, ReceiveKeeps DEF IInv
<1>3. CASE object_paths[m.sender] = m.path
  <2>1. /\ object_paths' = [object_paths EXCEPT ![m.sender] = NULL]
        /\ pold_remove_agent_apps({m.sender})
        /\ Forget({m.sender} \X App)
    BY <1>3 DEF pold_manager_unregister_agent
  <2>2. object_paths' \in [Agent -> Path \cup {NULL}]
    BY <2>1 DEF IInv, TypeOK
  <2>3. /\ app_id_to_app' \in [Key -> AppRecord \cup {NULL}]
        /\ id_to_apps' \in [PolicyId -> SUBSET Key]
        /\ stale' \in SUBSET Key
        /\ reused' \in SUBSET (Key \X Key)
        /\ IndexExact'
    BY <2>1, RemoveAgentApps DEF IInv
  <2>4. told' \in [Key -> Json \cup {NULL, Untold}]
    BY <2>1, ForgetType DEF IInv
  <2> QED BY <1>1, <1>2, <2>2, <2>3, <2>4 DEF IInv, TypeOK, policies
<1>4. CASE object_paths[m.sender] # m.path
  <2>1. UNCHANGED <<object_paths, registry>>
    BY <1>4 DEF pold_manager_unregister_agent
  <2>2. IndexExact'
    BY <2>1, IndexKept DEF IInv, registry
  <2> QED BY <1>1, <1>2, <2>1, <2>2 DEF IInv, TypeOK, registry, policies
<1> QED BY <1>3, <1>4

(* The watch on an agent fires.                                              *)
LEMMA OwnerDisconnectKeeps ==
  ASSUME IInv, owner_disconnect
  PROVE  IInv'
<1> DEFINE a == Head(inbox).name
<1>1. /\ inbox # <<>> /\ inbox' = Tail(inbox) /\ a \in Agent
      /\ Forget({a} \X App)
      /\ agent_watches' = [agent_watches EXCEPT ![a] = 0]
      /\ UNCHANGED <<policies, request, updating, bus, status>>
  BY DEF owner_disconnect, Receive
<1>2. PICK names \in SUBSET SenderRead[a] :
        /\ object_paths' = [b \in Agent |-> IF b \in names THEN NULL ELSE object_paths[b]]
        /\ pold_remove_agent_apps(names)
  BY DEF owner_disconnect
<1>3. inbox' \in Seq(Message) /\ OneOwner'
  BY <1>1, ReceiveKeeps DEF IInv
<1>4. /\ app_id_to_app' \in [Key -> AppRecord \cup {NULL}]
      /\ id_to_apps' \in [PolicyId -> SUBSET Key]
      /\ stale' \in SUBSET Key
      /\ reused' \in SUBSET (Key \X Key)
      /\ IndexExact'
  BY <1>2, RemoveAgentApps DEF IInv
<1>5. told' \in [Key -> Json \cup {NULL, Untold}]
  BY <1>1, ForgetType DEF IInv
<1>6. object_paths' \in [Agent -> Path \cup {NULL}] /\ agent_watches' \in [Agent -> Nat]
  BY <1>1, <1>2 DEF IInv, TypeOK
<1> QED BY <1>1, <1>3, <1>4, <1>5, <1>6 DEF IInv, TypeOK, policies

(* The watch on an application fires.                                        *)
LEMMA StopWatchingAppKeeps ==
  ASSUME IInv, stop_watching_app
  PROVE  IInv'
<1> DEFINE app == Head(inbox).name
           own == {k \in Watched : k[2] = app}
           dangling == {k \in stale : k[2] = app}
           exposed == IF "reused" \in FreedAppRead
                      THEN {p[2] : p \in {q \in reused : q[1] \in dangling}} ELSE {}
<1>1. /\ inbox # <<>> /\ inbox' = Tail(inbox)
      /\ Forget({k \in Key : k[2] = app})
      /\ UNCHANGED <<agents, policies, request, updating, bus, status>>
  BY DEF stop_watching_app, Receive
<1>2. PICK hit \in SUBSET exposed :
        /\ stop_watching(own \cup hit)
        /\ stale' = (stale \ dangling) \cup {k \in hit : k[2] # app}
        /\ reused' = {p \in reused : p[1] \notin dangling /\ p[2] \notin own \cup hit}
  BY DEF stop_watching_app
<1>3. exposed \subseteq Key
  BY DEF IInv, TypeOK
<1>4. stale' \in SUBSET Key /\ reused' \in SUBSET (Key \X Key)
  BY <1>2, <1>3 DEF IInv, TypeOK
<1>5. inbox' \in Seq(Message) /\ OneOwner'
  BY <1>1, ReceiveKeeps DEF IInv
<1>6. /\ app_id_to_app' \in [Key -> AppRecord \cup {NULL}]
      /\ id_to_apps' \in [PolicyId -> SUBSET Key]
      /\ IndexExact'
  BY <1>2, StopWatching DEF IInv
<1>7. told' \in [Key -> Json \cup {NULL, Untold}]
  BY <1>1, ForgetType DEF IInv
<1> QED BY <1>1, <1>4, <1>5, <1>6, <1>7 DEF IInv, TypeOK, agents, policies

(* A handler reads freed memory, and the daemon ends.                        *)
LEMMA CrashKeeps ==
  ASSUME IInv, CrashOnFreedApp
  PROVE  IInv'
<1>1. /\ inbox # <<>> /\ inbox' = Tail(inbox) /\ status' = "crashed"
      /\ UNCHANGED <<agents, registry, policies, request, updating, bus>>
  BY DEF CrashOnFreedApp, Receive
<1>2. inbox' \in Seq(Message) /\ OneOwner'
  BY <1>1, ReceiveKeeps DEF IInv
<1>3. IndexExact'
  BY <1>1, IndexKept DEF IInv, registry
<1> QED BY <1>1, <1>2, <1>3 DEF IInv, TypeOK, agents, registry, policies
-----------------------------------------------------------------------------
(* The GetPolicyConfig chain. *)

(* The call in hand, taken from the inbox, may be changed in any way.        *)
LEMMA HandleCall ==
  ASSUME IInv, inbox # <<>>, CarriesCall(Head(inbox)), inbox' = Tail(inbox),
         NEW data \in ConfigData \cup {NULL},
         request' = [request EXCEPT ![Head(inbox).request] = data]
  PROVE  /\ inbox' \in Seq(Message) /\ OneOwner'
         /\ request' \in [Request -> ConfigData \cup {NULL}]
<1> DEFINE r == Head(inbox).request
<1>1. /\ r \in Request
      /\ \A i \in DOMAIN inbox : i # 1 /\ CarriesCall(inbox[i]) => inbox[i].request # r
  BY HeadFacts DEF IInv
<1>2. request' \in [Request -> ConfigData \cup {NULL}]
  BY DEF IInv, TypeOK
<1>3. \A x : x # r => request'[x] = request[x] \/ x \notin Request
  BY DEF IInv, TypeOK
<1>4. \A i \in DOMAIN inbox : CarriesCall(inbox[i]) => inbox[i].request \in Request
  <2> SUFFICES ASSUME NEW i \in DOMAIN inbox, CarriesCall(inbox[i])
               PROVE  inbox[i].request \in Request
    OBVIOUS
  <2>1. inbox[i] \in Message
    BY DEF IInv, TypeOK
  <2> QED BY <2>1 DEF CarriesCall, Message, AgentCall, ConfigCall, SelinuxReply,
                      UserReply, Departure
<1>5. \A i \in DOMAIN inbox : i # 1 /\ CarriesCall(inbox[i]) =>
        request'[inbox[i].request] = request[inbox[i].request]
  BY <1>1, <1>3, <1>4
<1> QED BY <1>2, <1>5, ReceiveKeeps DEF IInv

(* GetPolicyConfig creates the data of the call.                             *)
LEMMA GetPolicyConfigKeeps ==
  ASSUME IInv, pold_manager_get_policy_config
  PROVE  IInv'
<1> DEFINE r == Head(inbox).request
<1>1. /\ inbox # <<>> /\ inbox' = Tail(inbox) /\ CarriesCall(Head(inbox))
      /\ UNCHANGED <<agents, registry, policies, updating, bus, status>>
  BY DEF pold_manager_get_policy_config, Receive, CarriesCall
<1>2. request[r] \in ConfigData
  BY <1>1, HeadFacts DEF IInv
<1>3. PICK data \in ConfigData \cup {NULL} : request' = [request EXCEPT ![r] = data]
  <2>1. CASE request[r].app = pold_unique_bus
    BY <2>1 DEF pold_manager_get_policy_config, Answer
  <2>2. CASE request[r].app # pold_unique_bus
    <3>1. PICK next \in {"http", "selinux"} :
            request' = [request EXCEPT ![r].stage = next]
      BY <2>2 DEF pold_manager_get_policy_config
    <3>2. [request[r] EXCEPT !.stage = next] \in ConfigData
      BY <1>2 DEF ConfigData, Stage
    <3> QED BY <3>1, <3>2
  <2> QED BY <2>1, <2>2
<1>4. /\ inbox' \in Seq(Message) /\ OneOwner'
      /\ request' \in [Request -> ConfigData \cup {NULL}]
  BY <1>1, <1>3, HandleCall
<1>5. IndexExact'
  BY <1>1, IndexKept DEF IInv, registry
<1> QED BY <1>1, <1>4, <1>5 DEF IInv, TypeOK, agents, registry, policies

(* selinux_cb, with a context or without one.                                *)
LEMMA SelinuxKeeps ==
  ASSUME IInv, selinux_cb
  PROVE  IInv'
<1> DEFINE m == Head(inbox)
           data == [request[m.request] EXCEPT !.stage = "user", !.selinux = m.context]
<1>1. /\ inbox # <<>> /\ inbox' = Tail(inbox) /\ CarriesCall(m) /\ m.type = "SelinuxReply"
      /\ UNCHANGED <<agents, registry, policies, updating, bus, status>>
  BY DEF selinux_cb, Receive, CarriesCall
<1>2. m \in Message /\ m.request \in Request /\ request[m.request] \in ConfigData
  BY <1>1, HeadFacts DEF IInv
<1>3. m.context \in PolicyId \cup {NULL}
  BY <1>1, <1>2 DEF Message, AgentCall, ConfigCall, SelinuxReply, UserReply, Departure
<1>4. data \in ConfigData
  BY <1>2, <1>3 DEF ConfigData, Stage
<1>5. request' = [request EXCEPT ![m.request] = data]
  <2>1. request' = [request EXCEPT ![m.request].stage = "user",
                                   ![m.request].selinux = m.context]
    BY DEF selinux_cb
  <2>2. request \in [Request -> ConfigData \cup {NULL}]
    BY DEF IInv, TypeOK
  <2> HIDE DEF m
  <2> QED BY <1>2, <2>1, <2>2
<1>6. /\ inbox' \in Seq(Message) /\ OneOwner'
      /\ request' \in [Request -> ConfigData \cup {NULL}]
  BY <1>1, <1>4, <1>5, HandleCall
<1>7. IndexExact'
  BY <1>1, IndexKept DEF IInv, registry
<1> QED BY <1>1, <1>6, <1>7 DEF IInv, TypeOK, agents, registry, policies

(* user_cb refuses, and the data is freed.                                   *)
LEMMA UserFailedKeeps ==
  ASSUME IInv, UserFailed
  PROVE  IInv'
<1>1. /\ inbox # <<>> /\ inbox' = Tail(inbox) /\ CarriesCall(Head(inbox))
      /\ request' = [request EXCEPT ![Head(inbox).request] = NULL]
      /\ UNCHANGED <<agents, registry, policies, updating, bus, status>>
  BY DEF UserFailed, Receive, Answer, CarriesCall
<1>2. /\ inbox' \in Seq(Message) /\ OneOwner'
      /\ request' \in [Request -> ConfigData \cup {NULL}]
  BY <1>1, HandleCall
<1>3. IndexExact'
  BY <1>1, IndexKept DEF IInv, registry
<1> QED BY <1>1, <1>2, <1>3 DEF IInv, TypeOK, agents, registry, policies

(* The ids kept of one id are a list of policy ids.                          *)
LEMMA ValidOnlyType == \A id \in PolicyId \cup {NULL} : ValidOnly(id) \in Seq(PolicyId)
BY IdsAssumption DEF ValidOnly

(* user_cb looks up the policy, answers and watches the app.                 *)
LEMMA UserKeeps ==
  ASSUME IInv, user_cb
  PROVE  /\ IInv'
         /\ \E x \in Key : /\ app_id_to_app'[x] # NULL
                           /\ \A y \in Key \ {x} : /\ app_id_to_app'[y] = app_id_to_app[y]
                                                   /\ told'[y] = told[y]
<1> DEFINE r == Head(inbox).request
           data == request[r]
           k == <<data.agent, data.app>>
           ids == IF app_id_to_app[k] # NULL THEN app_id_to_app[k].policy_ids
                  ELSE ValidOnly(data.selinux) \o ValidOnly(UserId[data.app])
                         \o ValidOnly(GroupId[data.app])
           default == replace_id_if_empty(UserId[data.app],
                                          ActiveId(ids, id_to_policy) = NULL)
           doc == get_active_policy(ids, id_to_policy, default_policy.json)
<1>1. /\ inbox # <<>> /\ inbox' = Tail(inbox) /\ CarriesCall(Head(inbox))
      /\ request' = [request EXCEPT ![r] = NULL]
      /\ default_policy' = default
      /\ told' = [told EXCEPT ![k] = get_active_policy(ids, id_to_policy, default.json)]
      /\ UNCHANGED <<agents, id_to_policy, stale, updating, bus, status>>
  BY DEF user_cb, Receive, Answer, CarriesCall
<1>2. data \in ConfigData
  BY <1>1, HeadFacts DEF IInv
<1>3. /\ k \in Key /\ data.selinux \in PolicyId \cup {NULL}
      /\ UserId[data.app] \in PolicyId /\ GroupId[data.app] \in PolicyId
  BY <1>2, IdsAssumption DEF ConfigData, Key
<1>4. ids \in Seq(PolicyId)
  <2>1. CASE app_id_to_app[k] # NULL
    BY <1>3, <2>1 DEF IInv, TypeOK, AppRecord
  <2>2. CASE app_id_to_app[k] = NULL
    <3>1. /\ ValidOnly(data.selinux) \in Seq(PolicyId)
          /\ ValidOnly(UserId[data.app]) \in Seq(PolicyId)
          /\ ValidOnly(GroupId[data.app]) \in Seq(PolicyId)
      BY <1>3, ValidOnlyType
    <3> QED BY <2>2, <3>1
  <2> QED BY <2>1, <2>2
<1>5. default \in [id : PolicyId \cup {NoId}, json : Json \cup {NULL}]
  BY <1>3 DEF IInv, TypeOK, replace_id_if_empty
<1>6. doc \in Json \cup {NULL} /\ told' \in [Key -> Json \cup {NULL, Untold}]
  <2>1. default_policy.json \in Json \cup {NULL} /\ default.json \in Json \cup {NULL}
    BY <1>5 DEF IInv, TypeOK
  <2>2. id_to_policy \in Table
    BY DEF IInv, TypeOK
  <2>3. /\ doc \in Json \cup {NULL}
        /\ get_active_policy(ids, id_to_policy, default.json) \in Json \cup {NULL}
    BY <1>4, <2>1, <2>2, ActiveType
  <2> QED BY <1>1, <1>3, <2>3 DEF IInv, TypeOK
<1>7. /\ app_id_to_app' \in [Key -> AppRecord \cup {NULL}]
      /\ id_to_apps' \in [PolicyId -> SUBSET Key]
      /\ reused' \in SUBSET (Key \X Key)
      /\ IndexExact'
      /\ app_id_to_app'[k] # NULL
      /\ \A y \in Key \ {k} : app_id_to_app'[y] = app_id_to_app[y]
  <2>1. CASE app_id_to_app[k] # NULL
    <3>1. UNCHANGED <<app_id_to_app, id_to_apps, reused>>
      BY <2>1 DEF user_cb, pold_policy_watch_app
    <3> QED BY <2>1, <3>1, IndexKept DEF IInv, TypeOK
  <2>2. CASE app_id_to_app[k] = NULL
    <3> DEFINE record == [policy_ids |-> ids, agent_policy_json |-> doc]
    <3>1. /\ app_id_to_app' = [app_id_to_app EXCEPT ![k] = record]
          /\ id_to_apps' = [id \in PolicyId |->
               IF \E i \in DOMAIN ids : ids[i] = id
               THEN id_to_apps[id] \cup {k} ELSE id_to_apps[id]]
          /\ Occupy(k)
      BY <2>2 DEF user_cb, pold_policy_watch_app
    <3> HIDE DEF k, ids, doc
    <3>2. record \in AppRecord /\ record # NULL /\ record.policy_ids = ids
      BY <1>4, <1>6, RecordsAssumption DEF AppRecord
    <3> HIDE DEF record
    <3>3. app_id_to_app' \in [Key -> AppRecord \cup {NULL}]
      BY <1>3, <3>1, <3>2 DEF IInv, TypeOK
    <3>4. id_to_apps' \in [PolicyId -> SUBSET Key]
      BY <1>3, <3>1 DEF IInv, TypeOK
    <3>5. reused' \in SUBSET (Key \X Key)
      BY <1>3, <3>1 DEF IInv, TypeOK, Occupy
    <3>6. IndexExact'
      <4> SUFFICES ASSUME NEW id \in PolicyId, NEW x \in Key
                   PROVE  x \in id_to_apps'[id] <=> id \in Ids(x)'
        BY DEF IndexExact
      <4>1. x \in id_to_apps[id] <=> id \in Ids(x)
        BY DEF IInv, IndexExact
      <4>2. CASE x = k
        <5>1. app_id_to_app'[x] = record
          BY <1>3, <3>1, <4>2 DEF IInv, TypeOK
        <5>2. Ids(x)' = {ids[i] : i \in DOMAIN ids}
          BY <3>2, <5>1, Zenon DEF Ids
        <5>3. x \notin id_to_apps[id]
          BY <2>2, <4>1, <4>2 DEF Ids
        <5>4. x \in id_to_apps'[id] <=> \E i \in DOMAIN ids : ids[i] = id
          BY <3>1, <4>2, <5>3
        <5> QED BY <5>2, <5>4
      <4>3. CASE x # k
        <5>1. app_id_to_app'[x] = app_id_to_app[x]
          BY <3>1, <4>3 DEF IInv, TypeOK
        <5>2. Ids(x)' = Ids(x)
          BY <5>1 DEF Ids
        <5>3. x \in id_to_apps'[id] <=> x \in id_to_apps[id]
          BY <3>1, <4>3
        <5> QED BY <4>1, <5>2, <5>3
      <4> QED BY <4>2, <4>3
    <3>7. app_id_to_app'[k] # NULL /\ \A y \in Key \ {k} : app_id_to_app'[y] = app_id_to_app[y]
      BY <1>3, <3>1, <3>2 DEF IInv, TypeOK
    <3> QED BY <3>3, <3>4, <3>5, <3>6, <3>7
  <2> QED BY <2>1, <2>2
<1>8. /\ inbox' \in Seq(Message) /\ OneOwner'
      /\ request' \in [Request -> ConfigData \cup {NULL}]
  BY <1>1, HandleCall
<1>9. IInv'
  BY <1>1, <1>5, <1>6, <1>7, <1>8 DEF IInv, TypeOK, agents
<1>10. \A y \in Key \ {k} : told'[y] = told[y]
  BY <1>1 DEF IInv, TypeOK
<1> QED BY <1>3, <1>7, <1>9, <1>10
-----------------------------------------------------------------------------
(* Policy updates. *)

(* The server answers a call that waits for it.                              *)
LEMMA HttpAnswerKeeps ==
  ASSUME IInv, NEW r \in Request, HttpAnswer(r)
  PROVE  IInv'
<1>1. PICK response \in Responses : update_from_server_cb(r, response)
  BY DEF HttpAnswer
<1>2. PICK outcome \in update_outcomes(id_to_policy, response) :
        /\ apply_update(outcome)
        /\ IF outcome.error THEN Answer(r)
           ELSE request' = [request EXCEPT ![r].stage = "selinux"]
  BY <1>1 DEF update_from_server_cb
<1>3. /\ request[r] # NULL /\ request[r].stage = "http"
      /\ UNCHANGED <<agents, updating, inbox, bus, status>>
  BY <1>1 DEF update_from_server_cb
<1>4. outcome.table \in Table
  BY OutcomeType, ServerAssumption DEF IInv, TypeOK
<1>5. /\ id_to_policy' \in Table
      /\ app_id_to_app' \in [Key -> AppRecord \cup {NULL}]
      /\ told' \in [Key -> Json \cup {NULL, Untold}]
      /\ UNCHANGED <<id_to_apps, stale, reused, default_policy>>
      /\ IndexExact'
  BY <1>2, <1>4, ApplyUpdate DEF IInv
<1>6. PICK data \in ConfigData \cup {NULL} : request' = [request EXCEPT ![r] = data]
  <2>1. CASE outcome.error
    BY <1>2, <2>1 DEF Answer
  <2>2. CASE ~outcome.error
    <3>1. [request[r] EXCEPT !.stage = "selinux"] \in ConfigData
      BY <1>3 DEF IInv, TypeOK, ConfigData, Stage
    <3> QED BY <1>2, <2>2, <3>1
  <2> QED BY <2>1, <2>2
<1>7. request' \in [Request -> ConfigData \cup {NULL}]
  BY <1>6 DEF IInv, TypeOK
<1>8. \A i \in DOMAIN inbox : CarriesCall(inbox[i]) =>
        inbox[i].request \in Request /\ inbox[i].request # r
  <2> SUFFICES ASSUME NEW i \in DOMAIN inbox, CarriesCall(inbox[i])
               PROVE  inbox[i].request \in Request /\ inbox[i].request # r
    OBVIOUS
  <2>1. inbox[i].request # r
    BY <1>3, NotWaiting DEF IInv
  <2>2. inbox[i] \in Message
    BY DEF IInv, TypeOK
  <2> QED BY <2>1, <2>2 DEF CarriesCall, Message, AgentCall, ConfigCall, SelinuxReply,
                            UserReply, Departure
<1>9. \A i \in DOMAIN inbox : CarriesCall(inbox[i]) =>
        request'[inbox[i].request] = request[inbox[i].request]
  BY <1>6, <1>8 DEF IInv, TypeOK
<1>10. OneOwner'
  BY <1>3, <1>9, OwnerKept DEF IInv
<1> QED BY <1>3, <1>5, <1>7, <1>10 DEF IInv, TypeOK, agents

(* A signal starts an update.                                                *)
LEMMA SignalKeeps ==
  ASSUME IInv, signal_update
  PROVE  IInv'
<1>1. /\ updating' = updating + 1
      /\ UNCHANGED <<agents, registry, policies, request, inbox, bus, status>>
  BY DEF signal_update
<1>2. OneOwner' /\ IndexExact'
  BY <1>1, OwnerKept, IndexKept DEF IInv, registry
<1> QED BY <1>1, <1>2 DEF IInv, TypeOK, agents, registry, policies

(* The answer to an update started by a signal.                              *)
LEMMA SignalAnswerKeeps ==
  ASSUME IInv, SignalAnswer
  PROVE  IInv'
<1>1. PICK response \in Responses : signal_update_done(response)
  BY DEF SignalAnswer
<1>2. PICK outcome \in update_outcomes(id_to_policy, response) : apply_update(outcome)
  BY <1>1 DEF signal_update_done
<1>3. /\ updating > 0 /\ updating' = updating - 1
      /\ UNCHANGED <<agents, request, inbox, bus, status>>
  BY <1>1 DEF signal_update_done
<1>4. outcome.table \in Table
  BY OutcomeType, ServerAssumption DEF IInv, TypeOK
<1>5. /\ id_to_policy' \in Table
      /\ app_id_to_app' \in [Key -> AppRecord \cup {NULL}]
      /\ told' \in [Key -> Json \cup {NULL, Untold}]
      /\ UNCHANGED <<id_to_apps, stale, reused, default_policy>>
      /\ IndexExact'
  BY <1>2, <1>4, ApplyUpdate DEF IInv
<1>6. OneOwner'
  BY <1>3, OwnerKept DEF IInv
<1> QED BY <1>3, <1>5, <1>6 DEF IInv, TypeOK, agents
-----------------------------------------------------------------------------
(* Every step keeps the invariant. *)

(* A step that changes nothing.                                              *)
LEMMA StutterKeeps ==
  ASSUME IInv, UNCHANGED vars
  PROVE  IInv'
<1>1. UNCHANGED <<agents, registry, policies, request, updating, inbox, bus, status>>
  BY DEF vars
<1>2. OneOwner' /\ IndexExact'
  BY <1>1, OwnerKept, IndexKept DEF IInv, registry
<1> QED BY <1>1, <1>2 DEF IInv, TypeOK, agents, registry, policies

(* IInv is inductive: the lemmas above, one per action.                      *)
LEMMA NextIInv == IInv /\ [Next]_vars => IInv'
<1> SUFFICES ASSUME IInv, [Next]_vars PROVE IInv'
  OBVIOUS
<1>1. CASE Environment
  <2>1. ASSUME NEW a \in Agent, NEW p \in Path,
               NEW method \in {"RegisterAgent", "UnregisterAgent"},
               CallAgentMethod(a, method, p)
        PROVE  IInv'
    BY <2>1, CallAgentMethodKeeps
  <2>2. ASSUME NEW r \in Request, NEW a \in Agent, NEW app \in App,
               CallGetPolicyConfig(r, a, app)
        PROVE  IInv'
    BY <2>2, CallGetPolicyConfigKeeps
  <2>3. ASSUME NEW n \in Name, Disconnect(n)
        PROVE  IInv'
    BY <2>3, DisconnectKeeps
  <2>4. ASSUME NEW r \in Request, BusSelinuxReply(r) \/ BusUserReply(r)
        PROVE  IInv'
    BY <2>4, BusReplyKeeps
  <2> QED BY <1>1, <2>1, <2>2, <2>3, <2>4 DEF Environment
<1>2. CASE Dispatch
  BY <1>2, RegisterTwiceKeeps, RegisterKeeps, UnregisterKeeps, OwnerDisconnectKeeps,
     StopWatchingAppKeeps, CrashKeeps, GetPolicyConfigKeeps, SelinuxKeeps,
     UserFailedKeeps, UserKeeps DEF Dispatch
<1>3. CASE \E r \in Request : HttpAnswer(r)
  BY <1>3, HttpAnswerKeeps
<1>4. CASE signal_update
  BY <1>4, SignalKeeps
<1>5. CASE SignalAnswer
  BY <1>5, SignalAnswerKeeps
<1>6. CASE Spin \/ UNCHANGED vars
  BY <1>6, StutterKeeps DEF Spin
<1> QED BY <1>1, <1>2, <1>3, <1>4, <1>5, <1>6 DEF Next

(* The daemon's state keeps its types, each call's data has one owner, and   *)
(* the two tables of the registry agree, in every reachable state: whatever  *)
(* the freed memory reads, the agents do and the server answers.             *)
THEOREM PoldInvariant == Spec => []IInv
BY InitIInv, NextIInv, PTL DEF Spec

(* Type correctness.                                                         *)
THEOREM PoldTypes == Spec => []TypeOK
<1>1. IInv => TypeOK
  BY DEF IInv
<1> QED BY PoldInvariant, <1>1, PTL

(* No callback of the GetPolicyConfig chain works on freed config_data.      *)
THEOREM PoldOneOwner == Spec => []OneOwner
<1>1. IInv => OneOwner
  BY DEF IInv
<1> QED BY PoldInvariant, <1>1, PTL

(* app_id_to_app and id_to_apps never disagree.                              *)
THEOREM PoldIndexExact == Spec => []IndexExact
<1>1. IInv => IndexExact
  BY DEF IInv
<1> QED BY PoldInvariant, <1>1, PTL

-----------------------------------------------------------------------------
(* Who is removed from the registry, and who stays. Each theorem states as   *)
(* hypotheses what it needs of the names, the ids and the freed memory; the  *)
(* runs prefix_name and answers show why.                                    *)

(* A text is a prefix of itself.                                             *)
OwnPrefix == \A a \in Agent : a \in Prefixed[a]

(* Every application has a valid id besides its SELinux context.             *)
SomeValidId == \A app \in App : UserId[app] \in ValidId \/ GroupId[app] \in ValidId

(* No agent's name is a prefix of another's.                                 *)
PrefixFree == \A a \in Agent : Prefixed[a] \subseteq {a}

(* The memory of freed messages and apps still reads as it did, or as        *)
(* something that is no application's.                                       *)
MemoryIntact ==
  /\ \A a \in Agent : SenderRead[a] = {a}
  /\ "reused" \notin FreedAppRead

(* A watched app is listed under some id.                                    *)
Listed == \A k \in Watched : Ids(k) # {}

(* A name whose departure is announced is not on the bus.                    *)
Departed ==
  \A i \in DOMAIN inbox : inbox[i].type = "NameOwnerChanged" => inbox[i].name \notin bus

(* Subscribed, of agents not registered (any more) too.                      *)
Followed ==
  \A k \in Key : told[k] # Untold /\ {k[1], k[2]} \subseteq bus => k \in Watched

-----------------------------------------------------------------------------
(* The kinds of steps, by what they do to the registry. *)

Quiet == UNCHANGED <<registry, policies>> /\ bus' \subseteq bus

PolicyUpdate ==
  /\ \E response \in Responses : \E outcome \in update_outcomes(id_to_policy, response) :
       outcome.table \in Table /\ apply_update(outcome)
  /\ UNCHANGED <<agents, bus>>

(* Every step is one of a few kinds, or leaves the registry alone.           *)
LEMMA KindsOfSteps ==
  ASSUME IInv, Next
  PROVE  \/ Quiet
         \/ pold_manager_unregister_agent
         \/ owner_disconnect
         \/ stop_watching_app
         \/ user_cb
         \/ PolicyUpdate
<1>1. CASE Environment
  <2>1. UNCHANGED <<registry, policies>> /\ (bus' = bus \/ \E n : bus' = bus \ {n})
    BY <1>1 DEF Environment, CallAgentMethod, CallGetPolicyConfig, Disconnect,
                BusSelinuxReply, BusUserReply
  <2> QED BY <2>1 DEF Quiet
<1>2. CASE Dispatch
  <2>1. CASE RegisterTwice \/ pold_manager_register_agent \/ CrashOnFreedApp
               \/ pold_manager_get_policy_config \/ selinux_cb \/ UserFailed
    <3>1. UNCHANGED <<registry, policies>> /\ bus' = bus
      BY <2>1 DEF RegisterTwice, pold_manager_register_agent, CrashOnFreedApp,
                  pold_manager_get_policy_config, selinux_cb, UserFailed
    <3> QED BY <3>1 DEF Quiet
  <2> QED BY <1>2, <2>1 DEF Dispatch
<1>3. ASSUME NEW r \in Request, HttpAnswer(r) PROVE PolicyUpdate
  <2>1. PICK response \in Responses :
          \E outcome \in update_outcomes(id_to_policy, response) : apply_update(outcome)
    BY <1>3 DEF HttpAnswer, update_from_server_cb
  <2>2. PICK outcome \in update_outcomes(id_to_policy, response) : apply_update(outcome)
    BY <2>1
  <2>3. outcome.table \in Table
    BY OutcomeType, ServerAssumption DEF IInv, TypeOK
  <2>4. UNCHANGED <<agents, bus>>
    BY <1>3 DEF HttpAnswer, update_from_server_cb
  <2> QED BY <2>2, <2>3, <2>4 DEF PolicyUpdate
<1>4. CASE SignalAnswer
  <2>1. PICK response \in Responses :
          \E outcome \in update_outcomes(id_to_policy, response) : apply_update(outcome)
    BY <1>4 DEF SignalAnswer, signal_update_done
  <2>2. PICK outcome \in update_outcomes(id_to_policy, response) : apply_update(outcome)
    BY <2>1
  <2>3. outcome.table \in Table
    BY OutcomeType, ServerAssumption DEF IInv, TypeOK
  <2>4. UNCHANGED <<agents, bus>>
    BY <1>4 DEF SignalAnswer, signal_update_done
  <2> QED BY <2>2, <2>3, <2>4 DEF PolicyUpdate
<1>5. CASE signal_update \/ Spin
  BY <1>5 DEF signal_update, Spin, vars, Quiet
<1> QED BY <1>1, <1>2, <1>3, <1>4, <1>5 DEF Next

(* A handler of a departure finds the name gone, in whatever state.          *)
LEMMA HeadDeparted ==
  ASSUME IInv, Departed, Receive("NameOwnerChanged")
  PROVE  Head(inbox).name \notin bus
<1>1. 1 \in DOMAIN inbox /\ Head(inbox) = inbox[1]
  BY HeadFacts DEF IInv, Receive
<1> QED BY <1>1 DEF Departed, Receive

(* A departure is announced after it happened, and no name returns.          *)
LEMMA DepartedStep ==
  ASSUME IInv, Departed, [Next]_vars
  PROVE  Departed'
<1>1. inbox \in Seq(Message)
  BY DEF IInv, TypeOK
<1>2. ASSUME bus' \subseteq bus, UNCHANGED inbox PROVE Departed'
  BY <1>2 DEF Departed
<1>3. ASSUME bus' \subseteq bus, inbox # <<>>, inbox' = Tail(inbox) PROVE Departed'
  <2>1. \A i \in DOMAIN inbox' : i + 1 \in DOMAIN inbox /\ inbox'[i] = inbox[i + 1]
    BY <1>1, <1>3
  <2> QED BY <1>3, <2>1 DEF Departed
<1>4. ASSUME bus' \subseteq bus, NEW m, Send(m),
             m.type = "NameOwnerChanged" => m.name \notin bus'
      PROVE  Departed'
  <2>1. inbox' = Append(inbox, m)
    BY <1>4 DEF Send
  <2>2. \A i \in DOMAIN inbox' :
          (i \in DOMAIN inbox /\ inbox'[i] = inbox[i]) \/ inbox'[i] = m
    BY <1>1, <2>1
  <2> QED BY <1>4, <2>2 DEF Departed
<1>5. CASE Environment
  <2>1. ASSUME NEW a, NEW method \in {"RegisterAgent", "UnregisterAgent"}, NEW p,
               CallAgentMethod(a, method, p)
        PROVE  Departed'
    <3>1. PICK m : Send(m) /\ m.type = method
      BY <2>1 DEF CallAgentMethod
    <3>2. m.type # "NameOwnerChanged" /\ bus' = bus
      BY <2>1, <3>1 DEF CallAgentMethod
    <3> QED BY <1>4, <3>1, <3>2
  <2>2. ASSUME NEW r, NEW a, NEW app, CallGetPolicyConfig(r, a, app) PROVE Departed'
    BY <1>4, <2>2 DEF CallGetPolicyConfig
  <2>3. ASSUME NEW n, Disconnect(n) PROVE Departed'
    BY <1>2, <1>4, <2>3 DEF Disconnect
  <2>4. ASSUME NEW r, BusSelinuxReply(r) PROVE Departed'
    <3>1. PICK m : Send(m) /\ m.type = "SelinuxReply"
      BY <2>4 DEF BusSelinuxReply
    <3> QED BY <1>4, <2>4, <3>1 DEF BusSelinuxReply
  <2>5. ASSUME NEW r, BusUserReply(r) PROVE Departed'
    <3>1. PICK m : Send(m) /\ m.type = "UserReply"
      BY <2>5 DEF BusUserReply
    <3> QED BY <1>4, <2>5, <3>1 DEF BusUserReply
  <2> QED BY <1>5, <2>1, <2>2, <2>3, <2>4, <2>5 DEF Environment
<1>6. CASE Dispatch
  <2> DEFINE taken == bus' = bus /\ inbox # <<>> /\ inbox' = Tail(inbox)
  <2>1. RegisterTwice => bus' = bus /\ UNCHANGED inbox
    BY DEF RegisterTwice
  <2>2. pold_manager_register_agent => taken
    BY DEF pold_manager_register_agent, Receive
  <2>3. pold_manager_unregister_agent => taken
    BY DEF pold_manager_unregister_agent, Receive
  <2>4. owner_disconnect => taken
    BY DEF owner_disconnect, Receive
  <2>5. stop_watching_app => taken
    BY DEF stop_watching_app, Receive
  <2>6. CrashOnFreedApp => taken
    BY DEF CrashOnFreedApp, Receive
  <2>7. pold_manager_get_policy_config => taken
    BY DEF pold_manager_get_policy_config, Receive
  <2>8. selinux_cb => taken
    BY DEF selinux_cb, Receive
  <2>9. UserFailed => taken
    BY DEF UserFailed, Receive
  <2>10. user_cb => taken
    BY DEF user_cb, Receive
  <2> QED BY <1>2, <1>3, <1>6, <2>1, <2>2, <2>3, <2>4, <2>5, <2>6, <2>7, <2>8, <2>9, <2>10 DEF Dispatch
<1>7. CASE (\E r \in Request : HttpAnswer(r)) \/ SignalAnswer
  <2>1. bus' = bus /\ UNCHANGED inbox
    BY <1>7 DEF HttpAnswer, update_from_server_cb, SignalAnswer, signal_update_done
  <2> QED BY <1>2, <2>1
<1>8. CASE signal_update \/ Spin \/ UNCHANGED vars
  <2>1. bus' = bus /\ UNCHANGED inbox
    BY <1>8 DEF signal_update, Spin, vars
  <2> QED BY <1>2, <2>1
<1> QED BY <1>5, <1>6, <1>7, <1>8 DEF Next
-----------------------------------------------------------------------------
(* AgentAppsRemoved. *)

(* All apps of the agents named are found and dropped.                       *)
LEMMA RemovesAll ==
  ASSUME IInv, Listed, OwnPrefix, NEW names, pold_remove_agent_apps(names),
         NEW k \in Key, k[1] \in names
  PROVE  app_id_to_app'[k] = NULL
<1>1. app_id_to_app'[k] = IF k \in fill_apps_to_remove(names) THEN NULL ELSE app_id_to_app[k]
  BY DEF pold_remove_agent_apps, stop_watching
<1>2. CASE app_id_to_app[k] # NULL
  <2>1. PICK id \in Ids(k) : TRUE
    BY <1>2 DEF Listed, Watched
  <2>2. id \in PolicyId /\ k \in id_to_apps[id]
    BY <2>1, IdsOfRecord DEF IInv, IndexExact
  <2>3. k[1] \in Prefixed[k[1]]
    BY DEF OwnPrefix, Key
  <2>4. k \in fill_apps_to_remove(names)
    BY <2>2, <2>3 DEF fill_apps_to_remove
  <2> QED BY <1>1, <2>4
<1>3. CASE app_id_to_app[k] = NULL
  BY <1>1, <1>3
<1> QED BY <1>2, <1>3

(* What an application is listed under when it is first watched.             *)
LEMMA NewIds ==
  ASSUME IInv, Receive("UserReply"), SomeValidId
  PROVE  LET data == request[Head(inbox).request]
         IN  ValidOnly(data.selinux) \o ValidOnly(UserId[data.app])
               \o ValidOnly(GroupId[data.app]) # <<>>
<1> DEFINE data == request[Head(inbox).request]
           x == ValidOnly(data.selinux)
           y == ValidOnly(UserId[data.app])
           z == ValidOnly(GroupId[data.app])
<1>1. data \in ConfigData
  BY HeadFacts DEF IInv, Receive, CarriesCall
<1>2. x \in Seq(PolicyId) /\ y \in Seq(PolicyId) /\ z \in Seq(PolicyId)
  BY <1>1, ValidOnlyType, IdsAssumption DEF ConfigData
<1>3. Len(y) = 1 \/ Len(z) = 1
  BY <1>1 DEF SomeValidId, ValidOnly, ConfigData
<1> HIDE DEF x, y, z
<1>4. Len(x \o y \o z) = Len(x) + Len(y) + Len(z)
  BY <1>2
<1>5. x \o y \o z # <<>>
  BY <1>2, <1>3, <1>4
<1> QED BY <1>5 DEF x, y, z

(* A watched app stays listed: each list it is taken from drops it.          *)
LEMMA ListedStep ==
  ASSUME IInv, Listed, SomeValidId, [Next]_vars
  PROVE  Listed'
<1>1. ASSUME NEW K, stop_watching(K) PROVE Listed'
  <2> SUFFICES ASSUME NEW k \in Key, app_id_to_app'[k] # NULL PROVE Ids(k)' # {}
    BY DEF Listed, Watched
  <2>1. k \notin K /\ app_id_to_app'[k] = app_id_to_app[k]
    BY <1>1 DEF stop_watching
  <2>2. Ids(k)' = Ids(k)
    BY <2>1 DEF Ids
  <2> QED BY <2>1, <2>2 DEF Listed, Watched
<1>2. ASSUME UNCHANGED app_id_to_app PROVE Listed'
  BY <1>2 DEF Listed, Watched, Ids
<1>3. CASE Quiet \/ UNCHANGED vars
  BY <1>2, <1>3 DEF Quiet, registry, vars
<1>4. CASE pold_manager_unregister_agent
  BY <1>1, <1>2, <1>4 DEF pold_manager_unregister_agent, pold_remove_agent_apps, registry
<1>5. CASE owner_disconnect
  <2>1. \E names : pold_remove_agent_apps(names)
    BY <1>5 DEF owner_disconnect
  <2> QED BY <1>1, <2>1 DEF pold_remove_agent_apps
<1>6. CASE stop_watching_app
  <2>1. \E K : stop_watching(K)
    BY <1>6 DEF stop_watching_app
  <2> QED BY <1>1, <2>1
<1>7. CASE user_cb
  <2> DEFINE data == request[Head(inbox).request]
             k == <<data.agent, data.app>>
             new == ValidOnly(data.selinux) \o ValidOnly(UserId[data.app])
                      \o ValidOnly(GroupId[data.app])
  <2>1. CASE app_id_to_app[k] # NULL
    <3>1. UNCHANGED app_id_to_app
      BY <1>7, <2>1 DEF user_cb, pold_policy_watch_app
    <3> QED BY <1>2, <3>1
  <2>2. CASE app_id_to_app[k] = NULL
    <3>1. Receive("UserReply")
      BY <1>7 DEF user_cb
    <3>2. data \in ConfigData
      BY <3>1, HeadFacts DEF IInv, Receive, CarriesCall
    <3>3. k \in Key /\ new \in Seq(PolicyId) /\ new # <<>>
      <4>1. /\ data.agent \in Agent /\ data.app \in App
            /\ ValidOnly(data.selinux) \in Seq(PolicyId)
            /\ ValidOnly(UserId[data.app]) \in Seq(PolicyId)
            /\ ValidOnly(GroupId[data.app]) \in Seq(PolicyId)
        BY <3>2, ValidOnlyType, IdsAssumption DEF ConfigData
      <4> QED BY <3>1, <4>1, NewIds DEF Key
    <3>4. PICK json : app_id_to_app' =
            [app_id_to_app EXCEPT ![k] = [policy_ids |-> new, agent_policy_json |-> json]]
      BY <1>7, <2>2 DEF user_cb, pold_policy_watch_app
    <3> HIDE DEF k, new
    <3>5. ASSUME NEW x \in Key, x = k, app_id_to_app'[x] # NULL PROVE Ids(x)' # {}
      <4> DEFINE record == [policy_ids |-> new, agent_policy_json |-> json]
      <4>1. app_id_to_app'[x] = record
        BY <3>4, <3>5 DEF IInv, TypeOK
      <4>2. 1 \in DOMAIN new
        BY <3>3
      <4>3. record.policy_ids = new
        OBVIOUS
      <4>4. app_id_to_app'[x].policy_ids = new
        BY <4>1, <4>3
      <4>5. Ids(x)' = {new[i] : i \in DOMAIN new}
        BY <3>5, <4>4, Zenon DEF Ids
      <4> QED BY <4>2, <4>5
    <3>6. ASSUME NEW x \in Watched, x # k PROVE Ids(x)' # {}
      <4>1. app_id_to_app'[x] = app_id_to_app[x]
        BY <3>4, <3>6 DEF IInv, TypeOK, Watched
      <4> QED BY <4>1, Zenon DEF Ids, Listed
    <3>7. \A x \in Watched' : x \in Key /\ app_id_to_app'[x] # NULL /\ (x = k \/ x \in Watched)
      BY <3>4 DEF Watched, IInv, TypeOK
    <3> QED BY <3>5, <3>6, <3>7 DEF Listed
  <2> QED BY <2>1, <2>2
<1>8. CASE PolicyUpdate
  <2>1. PICK outcome : outcome.table \in Table /\ apply_update(outcome)
    BY <1>8 DEF PolicyUpdate
  <2>2. \A k \in Key : Ids(k)' = Ids(k) /\ (app_id_to_app'[k] = NULL <=> app_id_to_app[k] = NULL)
    BY <2>1, ApplyUpdate DEF IInv
  <2> QED BY <2>2 DEF Listed, Watched
<1> QED BY <1>3, <1>4, <1>5, <1>6, <1>7, <1>8, KindsOfSteps

(* Only registering and losing an agent change its object path and watches.  *)
LEMMA PathSteps ==
  ASSUME [Next]_vars
  PROVE  \/ UNCHANGED agents
         \/ pold_manager_register_agent
         \/ pold_manager_unregister_agent
         \/ owner_disconnect
<1>1. CASE Environment
  BY <1>1 DEF Environment, CallAgentMethod, CallGetPolicyConfig, Disconnect,
              BusSelinuxReply, BusUserReply, agents
<1>2. CASE Dispatch
  <2>1. RegisterTwice \/ stop_watching_app \/ CrashOnFreedApp => UNCHANGED agents
    BY DEF RegisterTwice, stop_watching_app, CrashOnFreedApp, agents
  <2>2. pold_manager_get_policy_config \/ selinux_cb => UNCHANGED agents
    BY DEF pold_manager_get_policy_config, selinux_cb, agents
  <2>3. UserFailed \/ user_cb => UNCHANGED agents
    BY DEF UserFailed, user_cb, agents
  <2> QED BY <1>2, <2>1, <2>2, <2>3 DEF Dispatch
<1>3. CASE (\E r \in Request : HttpAnswer(r)) \/ SignalAnswer
  BY <1>3 DEF HttpAnswer, update_from_server_cb, SignalAnswer, signal_update_done, agents
<1>4. CASE signal_update \/ Spin \/ UNCHANGED vars
  BY <1>4 DEF signal_update, Spin, vars, agents
<1> QED BY <1>1, <1>2, <1>3, <1>4 DEF Next

(* The step that loses an agent drops every app watched for it.              *)
LEMMA RemovedStep ==
  ASSUME IInv, Listed, OwnPrefix, [Next]_vars,
         NEW k \in Key, object_paths[k[1]] # NULL, object_paths'[k[1]] = NULL
  PROVE  app_id_to_app'[k] = NULL
<1>1. k[1] \in Agent
  BY DEF Key
<1>2. CASE pold_manager_register_agent
  <2>1. /\ Head(inbox) \in Message /\ Head(inbox).type = "RegisterAgent"
        /\ object_paths[Head(inbox).sender] = NULL
        /\ object_paths' = [object_paths EXCEPT ![Head(inbox).sender] = Head(inbox).path]
    BY <1>2, HeadFacts DEF IInv, pold_manager_register_agent, Receive
  <2> QED BY <1>1, <2>1 DEF IInv, TypeOK
<1>3. CASE pold_manager_unregister_agent
  <2>1. /\ object_paths' = [object_paths EXCEPT ![Head(inbox).sender] = NULL]
        /\ pold_remove_agent_apps({Head(inbox).sender})
    BY <1>3 DEF pold_manager_unregister_agent
  <2>2. k[1] = Head(inbox).sender
    BY <1>1, <2>1 DEF IInv, TypeOK
  <2> QED BY <2>1, <2>2, RemovesAll
<1>4. CASE owner_disconnect
  <2>1. PICK names : /\ object_paths' = [b \in Agent |-> IF b \in names THEN NULL ELSE object_paths[b]]
                     /\ pold_remove_agent_apps(names)
    BY <1>4 DEF owner_disconnect
  <2>2. k[1] \in names
    BY <1>1, <2>1
  <2> QED BY <2>1, <2>2, RemovesAll
<1>5. CASE UNCHANGED agents
  BY <1>5 DEF agents
<1> QED BY <1>2, <1>3, <1>4, <1>5, PathSteps

(* When an agent unregisters or leaves, none of its applications stays       *)
(* watched: for any agents and prefixes, whatever memory is read, if every   *)
(* application has a valid id besides its SELinux context.                   *)
THEOREM RemovesAgentApps ==
  ASSUME OwnPrefix, SomeValidId
  PROVE  Spec => AgentAppsRemoved
<1>1. Init => Listed
  BY DEF Init, Listed, Watched
<1>2. IInv /\ Listed /\ [Next]_vars => Listed'
  BY ListedStep
<1>3. IInv /\ Listed /\ [Next]_vars =>
        [\A k \in Key : object_paths[k[1]] # NULL /\ object_paths'[k[1]] = NULL
                          => app_id_to_app'[k] = NULL]_vars
  BY RemovedStep
<1> QED BY PoldInvariant, <1>1, <1>2, <1>3, PTL DEF Spec, AgentAppsRemoved
-----------------------------------------------------------------------------
(* OtherAppsKept and Subscribed. *)

(* What is dropped, or forgotten, was dropped for a reason.                  *)
Excused(k) ==
  \/ object_paths[k[1]] # NULL /\ object_paths'[k[1]] = NULL
  \/ ~({k[1], k[2]} \subseteq bus)

(* One step's effect on an app: it stays watched or is excused, and a        *)
(* subscription is new only for a watched app and dropped with its memory.   *)
LEMMA KeepStep ==
  ASSUME IInv, Departed, PrefixFree, MemoryIntact, [Next]_vars, NEW k \in Key
  PROVE  /\ k \in Watched /\ app_id_to_app'[k] = NULL =>
              Excused(k) /\ (told'[k] = Untold \/ ~({k[1], k[2]} \subseteq bus'))
         /\ told'[k] # Untold => told'[k] = told[k] \/ app_id_to_app'[k] # NULL
         /\ bus' \subseteq bus
<1> DEFINE Goal == /\ k \in Watched /\ app_id_to_app'[k] = NULL =>
                        Excused(k) /\ (told'[k] = Untold \/ ~({k[1], k[2]} \subseteq bus'))
                   /\ told'[k] # Untold => told'[k] = told[k] \/ app_id_to_app'[k] # NULL
                   /\ bus' \subseteq bus
<1>1. CASE Quiet \/ UNCHANGED vars
  BY <1>1 DEF Quiet, registry, vars, Watched
<1>2. CASE pold_manager_unregister_agent
  <2> DEFINE a == Head(inbox).sender
             p == Head(inbox).path
  <2>1. a \in Agent /\ p \in Path
    <3>1. Head(inbox) \in Message /\ Head(inbox).type = "UnregisterAgent"
      BY <1>2, HeadFacts DEF IInv, pold_manager_unregister_agent, Receive
    <3> QED BY <3>1 DEF Message, AgentCall, ConfigCall, SelinuxReply, UserReply, Departure
  <2>2. CASE object_paths[a] # p
    <3>1. UNCHANGED <<registry, bus>>
      BY <1>2, <2>2 DEF pold_manager_unregister_agent
    <3> QED BY <3>1 DEF registry, Watched
  <2>3. CASE object_paths[a] = p
    <3>1. /\ object_paths' = [object_paths EXCEPT ![a] = NULL]
          /\ pold_remove_agent_apps({a}) /\ Forget({a} \X App) /\ bus' = bus
      BY <1>2, <2>3 DEF pold_manager_unregister_agent
    <3> HIDE DEF a, p
    <3>2. /\ object_paths[a] # NULL /\ object_paths'[a] = NULL
      BY <2>1, <2>3, <3>1, NamesAssumption DEF IInv, TypeOK
    <3>3. k \in Watched /\ app_id_to_app'[k] = NULL => k[1] = a
      <4>1. k \in Watched /\ app_id_to_app'[k] = NULL => k \in fill_apps_to_remove({a})
        BY <3>1 DEF pold_remove_agent_apps, stop_watching, Watched
      <4> QED BY <2>1, <4>1 DEF fill_apps_to_remove, PrefixFree
    <3>4. k[1] = a => told'[k] = Untold
      BY <3>1 DEF Forget, Key
    <3>5. told'[k] # Untold => told'[k] = told[k]
      BY <3>1 DEF Forget
    <3> QED BY <3>1, <3>2, <3>3, <3>4, <3>5 DEF Excused
  <2> QED BY <2>2, <2>3
<1>3. CASE owner_disconnect
  <2> DEFINE a == Head(inbox).name
  <2>1. a \in Agent /\ a \notin bus /\ bus' = bus /\ Forget({a} \X App)
    BY <1>3, HeadDeparted DEF owner_disconnect
  <2>2. PICK names \in SUBSET SenderRead[a] : pold_remove_agent_apps(names)
    BY <1>3 DEF owner_disconnect
  <2>3. names \subseteq {a}
    BY <2>1, <2>2 DEF MemoryIntact
  <2> HIDE DEF a
  <2>4. k \in Watched /\ app_id_to_app'[k] = NULL => k \in fill_apps_to_remove(names)
    BY <2>2 DEF pold_remove_agent_apps, stop_watching, Watched
  <2>5. k \in Watched /\ app_id_to_app'[k] = NULL => k[1] = a
    BY <2>1, <2>3, <2>4 DEF fill_apps_to_remove, PrefixFree
  <2>6. told'[k] # Untold => told'[k] = told[k]
    BY <2>1 DEF Forget
  <2> QED BY <2>1, <2>5, <2>6 DEF Excused
<1>4. CASE stop_watching_app
  <2> DEFINE app == Head(inbox).name
             own == {x \in Watched : x[2] = app}
  <2>1. app \notin bus /\ bus' = bus /\ Forget({x \in Key : x[2] = app})
    BY <1>4, HeadDeparted DEF stop_watching_app
  <2>2. stop_watching(own \cup {})
    BY <1>4 DEF stop_watching_app, MemoryIntact
  <2> HIDE DEF app
  <2>3. k \in Watched /\ app_id_to_app'[k] = NULL => k[2] = app
    BY <2>2 DEF stop_watching, Watched
  <2>4. told'[k] # Untold => told'[k] = told[k]
    BY <2>1 DEF Forget
  <2> QED BY <2>1, <2>3, <2>4 DEF Excused
<1>5. CASE user_cb
  <2>1. PICK x \in Key : /\ app_id_to_app'[x] # NULL
                         /\ \A y \in Key \ {x} : /\ app_id_to_app'[y] = app_id_to_app[y]
                                                 /\ told'[y] = told[y]
    BY <1>5, UserKeeps
  <2>2. bus' = bus
    BY <1>5 DEF user_cb
  <2> QED BY <2>1, <2>2 DEF Watched
<1>6. CASE PolicyUpdate
  <2>1. PICK outcome : outcome.table \in Table /\ apply_update(outcome)
    BY <1>6 DEF PolicyUpdate
  <2>2. /\ app_id_to_app'[k] = NULL <=> app_id_to_app[k] = NULL
        /\ told'[k] # told[k] => k \in Watched
        /\ bus' = bus
    BY <1>6, <2>1, ApplyUpdate DEF IInv, PolicyUpdate
  <2> QED BY <2>2 DEF Watched
<1> QED BY <1>1, <1>2, <1>3, <1>4, <1>5, <1>6, KindsOfSteps

(* An application stops being watched only because its agent unregistered,   *)
(* or because its agent or itself left the bus: if no agent's name is a      *)
(* prefix of another's and freed memory is not read as something else.       *)
THEOREM KeepsOtherApps ==
  ASSUME PrefixFree, MemoryIntact
  PROVE  Spec => OtherAppsKept
<1>1. Init => Departed
  BY DEF Init, Departed
<1>2. IInv /\ Departed /\ [Next]_vars => Departed'
  BY DepartedStep
<1>3. IInv /\ Departed /\ [Next]_vars =>
        [\A k \in Watched : app_id_to_app'[k] = NULL =>
            \/ object_paths[k[1]] # NULL /\ object_paths'[k[1]] = NULL
            \/ ~({k[1], k[2]} \subseteq bus)]_vars
  BY KeepStep DEF Excused, Watched
<1> QED BY PoldInvariant, <1>1, <1>2, <1>3, PTL DEF Spec, OtherAppsKept

(* An agent that got a policy for an application still connected stays among *)
(* those that updates reach, under the same conditions.                      *)
THEOREM StaysSubscribed ==
  ASSUME PrefixFree, MemoryIntact
  PROVE  Spec => []Subscribed
<1>1. Init => Departed /\ Followed
  BY DEF Init, Departed, Followed
<1>2. IInv /\ Departed /\ [Next]_vars => Departed'
  BY DepartedStep
<1>3. IInv /\ Departed /\ Followed /\ [Next]_vars => Followed'
  <2> SUFFICES ASSUME IInv, Departed, Followed, [Next]_vars,
                      NEW k \in Key, told'[k] # Untold, {k[1], k[2]} \subseteq bus'
               PROVE  app_id_to_app'[k] # NULL
    BY DEF Followed, Watched
  <2>1. /\ k \in Watched /\ app_id_to_app'[k] = NULL =>
              (told'[k] = Untold \/ ~({k[1], k[2]} \subseteq bus'))
        /\ told'[k] # Untold => told'[k] = told[k] \/ app_id_to_app'[k] # NULL
        /\ bus' \subseteq bus
    BY KeepStep
  <2> QED BY <2>1 DEF Followed
<1>4. Followed => Subscribed
  BY DEF Followed, Subscribed
<1> QED BY PoldInvariant, <1>1, <1>2, <1>3, <1>4, PTL DEF Spec

-----------------------------------------------------------------------------
(* What orderly clients can rely on (OrderlySpec of PoldProperties): every   *)
(* agent is told each change of the policies of its apps, the departed are   *)
(* forgotten, and the daemon implements PolicyDistribution.                  *)

(* owner_disconnect reads the name of the agent that left.                   *)
MessageIntact == \A a \in Agent : SenderRead[a] = {a}

(* Each object of the server's answers has an "Id", so that a load that gets *)
(* that far succeeds.                                                        *)
PoliciesLoad ==
  \A response \in Responses :
    Accepted(response) => \A file \in Saved(response) : load_policy(file)

(* The default policy has an "Id", which replace_id_if_empty leaves alone.   *)
DefaultNamed == default_policy.id # NoId

(* Updates find a path to tell each watched app's agent on.                  *)
WatchedRegistered == \A k \in Watched : object_paths[k[1]] # NULL

(* What mark_update_apps compares with, what the agent knows, and what is in *)
(* force are one policy.                                                     *)
InStep ==
  \A k \in Watched :
    /\ told[k] = app_id_to_app[k].agent_policy_json
    /\ told[k] = Active(k, id_to_policy, default_policy.json)

(* An agent with a path is present and watched, or its departure waits.      *)
AgentsFollowed ==
  \A a \in Agent : object_paths[a] # NULL =>
    \/ a \in bus /\ agent_watches[a] > 0
    \/ Leaving(a)

(* A watched app is present, or its departure waits.                         *)
AppsFollowed == \A k \in Watched : k[2] \in bus \/ Leaving(k[2])
-----------------------------------------------------------------------------
(* Clients stay orderly, and the daemon they meet is the one of Spec.        *)
LEMMA OrderlyRefines == OrderlySpec => Spec /\ []Orderly
<1>1. Init => Orderly
  BY DEF Init, Orderly
<1>2. [Next /\ Orderly']_vars => [Next]_vars
  OBVIOUS
<1>3. Orderly /\ [Next /\ Orderly']_vars => Orderly'
  <2>1. Orderly /\ UNCHANGED vars => Orderly'
    BY DEF vars, agents, Orderly
  <2> QED BY <2>1
<1> QED BY <1>1, <1>2, <1>3, PTL DEF OrderlySpec, Spec
-----------------------------------------------------------------------------
(* Departures. *)

(* A departure that waits still waits, or its handler runs.                  *)
LEMMA LeavingKept ==
  ASSUME IInv, [Next]_vars, NEW n, Leaving(n)
  PROVE  \/ Leaving(n)'
         \/ /\ Receive("NameOwnerChanged") /\ Head(inbox).name = n
            /\ owner_disconnect \/ stop_watching_app \/ CrashOnFreedApp
<1>1. inbox \in Seq(Message)
  BY DEF IInv, TypeOK
<1>2. PICK i \in DOMAIN inbox : inbox[i] = [type |-> "NameOwnerChanged", name |-> n]
  BY DEF Leaving
<1>3. ASSUME UNCHANGED inbox PROVE Leaving(n)'
  BY <1>2, <1>3 DEF Leaving
<1>4. ASSUME NEW m, Send(m) PROVE Leaving(n)'
  <2>1. i \in DOMAIN inbox' /\ inbox'[i] = inbox[i]
    BY <1>1, <1>4 DEF Send
  <2> QED BY <1>2, <2>1 DEF Leaving
<1>5. ASSUME inbox # <<>>, inbox' = Tail(inbox),
             Head(inbox).type # "NameOwnerChanged" \/ Head(inbox).name # n
      PROVE  Leaving(n)'
  <2>1. Head(inbox) = inbox[1]
    BY <1>1, <1>5
  <2>2. i # 1
    BY <1>2, <1>5, <2>1
  <2>3. i - 1 \in DOMAIN inbox' /\ inbox'[i - 1] = inbox[i]
    BY <1>1, <1>5, <2>2
  <2> QED BY <1>2, <2>3 DEF Leaving
<1>6. CASE Environment
  <2>1. UNCHANGED inbox \/ \E m : Send(m)
    BY <1>6 DEF Environment, CallAgentMethod, CallGetPolicyConfig, Disconnect,
                BusSelinuxReply, BusUserReply
  <2> QED BY <1>3, <1>4, <2>1
<1>7. CASE Dispatch
  <2>1. CASE RegisterTwice
    BY <1>3, <2>1 DEF RegisterTwice
  <2>2. CASE pold_manager_register_agent \/ pold_manager_unregister_agent
    BY <1>5, <2>2 DEF pold_manager_register_agent, pold_manager_unregister_agent, Receive
  <2>3. CASE pold_manager_get_policy_config \/ selinux_cb
    BY <1>5, <2>3 DEF pold_manager_get_policy_config, selinux_cb, Receive
  <2>4. CASE UserFailed \/ user_cb
    BY <1>5, <2>4 DEF UserFailed, user_cb, Receive
  <2>5. CASE owner_disconnect \/ stop_watching_app \/ CrashOnFreedApp
    <3>1. Receive("NameOwnerChanged")
      BY <2>5 DEF owner_disconnect, stop_watching_app, CrashOnFreedApp
    <3> QED BY <1>5, <2>5, <3>1 DEF Receive
  <2> QED BY <1>7, <2>1, <2>2, <2>3, <2>4, <2>5 DEF Dispatch
<1>8. CASE (\E r \in Request : HttpAnswer(r)) \/ SignalAnswer
  BY <1>3, <1>8 DEF HttpAnswer, update_from_server_cb, SignalAnswer, signal_update_done
<1>9. CASE signal_update \/ Spin \/ UNCHANGED vars
  BY <1>3, <1>9 DEF signal_update, Spin, vars
<1> QED BY <1>6, <1>7, <1>8, <1>9 DEF Next

(* A name leaves by Disconnect, and pold is told if it has a match rule.     *)
LEMMA LeavesMatched ==
  ASSUME IInv, [Next]_vars, NEW n, n \in bus, n \notin bus', Matched(n)
  PROVE  Leaving(n)'
<1>1. CASE Environment
  <2>1. PICK x \in Name : Disconnect(x)
    BY <1>1 DEF Environment, CallAgentMethod, CallGetPolicyConfig,
                BusSelinuxReply, BusUserReply
  <2>2. x = n
    BY <2>1 DEF Disconnect
  <2>3. inbox' = Append(inbox, [type |-> "NameOwnerChanged", name |-> n])
    BY <2>1, <2>2 DEF Disconnect, Send
  <2>4. inbox \in Seq(Message)
    BY DEF IInv, TypeOK
  <2>5. /\ Len(inbox) + 1 \in DOMAIN inbox'
        /\ inbox'[Len(inbox) + 1] = [type |-> "NameOwnerChanged", name |-> n]
    BY <2>3, <2>4
  <2> QED BY <2>5 DEF Leaving
<1>2. CASE Dispatch
  <2>1. RegisterTwice \/ pold_manager_register_agent \/ pold_manager_unregister_agent => bus' = bus
    BY DEF RegisterTwice, pold_manager_register_agent, pold_manager_unregister_agent
  <2>2. owner_disconnect \/ stop_watching_app \/ CrashOnFreedApp => bus' = bus
    BY DEF owner_disconnect, stop_watching_app, CrashOnFreedApp
  <2>3. pold_manager_get_policy_config \/ selinux_cb => bus' = bus
    BY DEF pold_manager_get_policy_config, selinux_cb
  <2>4. UserFailed \/ user_cb => bus' = bus
    BY DEF UserFailed, user_cb
  <2> QED BY <1>2, <2>1, <2>2, <2>3, <2>4 DEF Dispatch
<1>3. CASE (\E r \in Request : HttpAnswer(r)) \/ SignalAnswer
  BY <1>3 DEF HttpAnswer, update_from_server_cb, SignalAnswer, signal_update_done
<1>4. CASE signal_update \/ Spin \/ UNCHANGED vars
  BY <1>4 DEF signal_update, Spin, vars
<1> QED BY <1>1, <1>2, <1>3, <1>4 DEF Next

(* Every registered agent is present and watched until its departure has     *)
(* been handled: orderly agents are on the bus when they are registered.     *)
LEMMA AgentsFollowedStep ==
  ASSUME IInv, Orderly, AgentsFollowed, MessageIntact, [Next]_vars
  PROVE  AgentsFollowed'
<1> SUFFICES ASSUME NEW a \in Agent, object_paths'[a] # NULL
             PROVE  (a \in bus' /\ agent_watches'[a] > 0) \/ Leaving(a)'
  BY DEF AgentsFollowed
<1>1. CASE pold_manager_register_agent
  <2>1. /\ Head(inbox) \in Message /\ Head(inbox) = inbox[1] /\ 1 \in DOMAIN inbox
        /\ Head(inbox).type = "RegisterAgent"
        /\ object_paths' = [object_paths EXCEPT ![Head(inbox).sender] = Head(inbox).path]
        /\ agent_watches' = [agent_watches EXCEPT ![Head(inbox).sender] = @ + 1]
        /\ bus' = bus
    BY <1>1, HeadFacts DEF IInv, pold_manager_register_agent, Receive
  <2>2. Head(inbox).sender \in bus
    BY <2>1 DEF Orderly
  <2>3. CASE a = Head(inbox).sender
    <3>1. agent_watches'[a] = agent_watches[a] + 1 /\ agent_watches[a] \in Nat
      BY <2>1, <2>3 DEF IInv, TypeOK
    <3> QED BY <2>1, <2>2, <2>3, <3>1
  <2>4. CASE a # Head(inbox).sender
    <3>1. agent_watches'[a] = agent_watches[a] /\ object_paths'[a] = object_paths[a]
      BY <2>1, <2>4 DEF IInv, TypeOK
    <3>2. Leaving(a) => Leaving(a)'
      BY <2>1, LeavingKept DEF Receive
    <3> QED BY <2>1, <3>1, <3>2 DEF AgentsFollowed
  <2> QED BY <2>3, <2>4
<1>2. CASE pold_manager_unregister_agent
  <2>1. /\ Head(inbox).type = "UnregisterAgent"
        /\ UNCHANGED <<agent_watches, bus>>
        /\ \/ object_paths' = [object_paths EXCEPT ![Head(inbox).sender] = NULL]
           \/ UNCHANGED object_paths
    BY <1>2 DEF pold_manager_unregister_agent, Receive
  <2>2. object_paths[a] # NULL
    BY <2>1 DEF IInv, TypeOK
  <2>3. Leaving(a) => Leaving(a)'
    BY <2>1, LeavingKept DEF Receive
  <2> QED BY <2>1, <2>2, <2>3 DEF AgentsFollowed
<1>3. CASE owner_disconnect
  <2>1. PICK names \in SUBSET SenderRead[Head(inbox).name] :
          /\ names # {}
          /\ object_paths' = [b \in Agent |-> IF b \in names THEN NULL ELSE object_paths[b]]
    BY <1>3 DEF owner_disconnect
  <2>2. /\ Head(inbox).name \in Agent /\ bus' = bus
        /\ agent_watches' = [agent_watches EXCEPT ![Head(inbox).name] = 0]
    BY <1>3 DEF owner_disconnect
  <2>3. a # Head(inbox).name /\ object_paths[a] # NULL
    BY <2>1, <2>2 DEF MessageIntact
  <2>4. agent_watches'[a] = agent_watches[a]
    BY <2>2, <2>3 DEF IInv, TypeOK
  <2>5. Leaving(a) => Leaving(a)'
    BY <2>3, LeavingKept
  <2> QED BY <2>2, <2>3, <2>4, <2>5 DEF AgentsFollowed
<1>4. CASE UNCHANGED agents
  <2>1. object_paths[a] # NULL /\ agent_watches'[a] = agent_watches[a]
    BY <1>4 DEF agents
  <2>2. CASE Leaving(a)
    <3>1. stop_watching_app => Head(inbox).name # a
      BY NamesAssumption DEF stop_watching_app
    <3>2. CrashOnFreedApp => Head(inbox).name # a
      BY NamesAssumption DEF CrashOnFreedApp, IInv, TypeOK, Key
    <3>3. owner_disconnect => Head(inbox).name # a
      <4> SUFFICES ASSUME owner_disconnect, Head(inbox).name = a PROVE FALSE
        OBVIOUS
      <4>1. PICK names \in SUBSET SenderRead[a] :
              /\ names # {}
              /\ object_paths' = [b \in Agent |-> IF b \in names THEN NULL ELSE object_paths[b]]
        BY DEF owner_disconnect
      <4> QED BY <4>1 DEF MessageIntact
    <3> QED BY <2>2, <3>1, <3>2, <3>3, LeavingKept
  <2>3. CASE a \in bus /\ agent_watches[a] > 0
    BY <2>1, <2>3, LeavesMatched DEF Matched
  <2> QED BY <2>1, <2>2, <2>3 DEF AgentsFollowed
<1> QED BY <1>1, <1>2, <1>3, <1>4, PathSteps

(* Only user_cb starts to watch an app.                                      *)
LEMMA OnlyUserWatches ==
  ASSUME IInv, [Next]_vars, ~user_cb, NEW k \in Key, app_id_to_app'[k] # NULL
  PROVE  app_id_to_app[k] # NULL
<1> SUFFICES ASSUME app_id_to_app[k] = NULL PROVE FALSE
  OBVIOUS
<1>1. ASSUME NEW K, stop_watching(K) PROVE FALSE
  BY <1>1 DEF stop_watching
<1>2. ~PolicyUpdate
  <2> SUFFICES ASSUME PolicyUpdate PROVE FALSE
    OBVIOUS
  <2>1. PICK outcome : outcome.table \in Table /\ apply_update(outcome)
    BY DEF PolicyUpdate
  <2> QED BY <2>1, ApplyUpdate DEF IInv
<1>3. ~(Quiet \/ UNCHANGED vars)
  BY DEF Quiet, registry, vars
<1>4. ~pold_manager_unregister_agent
  BY <1>1 DEF pold_manager_unregister_agent, pold_remove_agent_apps, registry
<1>5. ~owner_disconnect
  <2>1. owner_disconnect => \E names : pold_remove_agent_apps(names)
    BY DEF owner_disconnect
  <2> QED BY <1>1, <2>1 DEF pold_remove_agent_apps
<1>6. ~stop_watching_app
  <2>1. stop_watching_app => \E K : stop_watching(K)
    BY DEF stop_watching_app
  <2> QED BY <1>1, <2>1
<1> QED BY <1>2, <1>3, <1>4, <1>5, <1>6, KindsOfSteps

(* No app stays watched once its departure has been handled, if the handler  *)
(* does not run into freed memory.                                           *)
LEMMA AppsFollowedStep ==
  ASSUME IInv, Orderly, AppsFollowed, "crash" \notin FreedAppRead, [Next]_vars
  PROVE  AppsFollowed'
<1> SUFFICES ASSUME NEW k \in Key, app_id_to_app'[k] # NULL
             PROVE  k[2] \in bus' \/ Leaving(k[2])'
  BY DEF AppsFollowed, Watched
<1>1. CASE app_id_to_app[k] # NULL /\ k[2] \in bus
  BY <1>1, LeavesMatched DEF Matched, Watched
<1>2. CASE app_id_to_app[k] # NULL /\ Leaving(k[2])
  <2>1. k[2] \in App /\ k[2] \notin Agent
    BY NamesAssumption DEF Key
  <2>2. owner_disconnect => Head(inbox).name # k[2]
    BY <2>1 DEF owner_disconnect
  <2>3. stop_watching_app => Head(inbox).name # k[2]
    <3> SUFFICES ASSUME stop_watching_app, Head(inbox).name = k[2] PROVE FALSE
      OBVIOUS
    <3>1. PICK hit : stop_watching({x \in Watched : x[2] = k[2]} \cup hit)
      BY DEF stop_watching_app
    <3> QED BY <1>2, <3>1 DEF stop_watching, Watched
  <2>4. ~CrashOnFreedApp
    BY DEF CrashOnFreedApp
  <2> QED BY <1>2, <2>2, <2>3, <2>4, LeavingKept
<1>3. CASE app_id_to_app[k] = NULL
  <2>1. CASE user_cb
    <3> DEFINE data == request[Head(inbox).request]
    <3>1. /\ data \in ConfigData /\ Head(inbox).request \in Request
          /\ bus' = bus
      BY <2>1, HeadFacts DEF IInv, user_cb, Receive, CarriesCall
    <3>2. data.app \in bus
      BY <3>1, RecordsAssumption DEF Orderly
    <3>3. k = <<data.agent, data.app>>
      BY <1>3, <2>1 DEF user_cb, pold_policy_watch_app, IInv, TypeOK
    <3> QED BY <3>1, <3>2, <3>3
  <2>2. CASE ~user_cb
    BY <1>3, <2>2, OnlyUserWatches
  <2> QED BY <2>1, <2>2
<1> QED BY <1>1, <1>2, <1>3 DEF AppsFollowed, Watched

(* Agents and apps that left the bus are forgotten once their signal has     *)
(* been handled, if the handlers read the freed message as it was and freed  *)
(* apps do not bring the process down: for any agents, apps and policies.    *)
THEOREM ForgetsDeparted ==
  ASSUME MessageIntact, "crash" \notin FreedAppRead
  PROVE  OrderlySpec => []DepartedForgotten
<1>1. Init => AgentsFollowed /\ AppsFollowed
  BY DEF Init, AgentsFollowed, AppsFollowed, Watched
<1>2. IInv /\ Orderly /\ AgentsFollowed /\ [Next]_vars => AgentsFollowed'
  BY AgentsFollowedStep
<1>3. IInv /\ Orderly /\ AppsFollowed /\ [Next]_vars => AppsFollowed'
  BY AppsFollowedStep
<1>4. AgentsFollowed /\ AppsFollowed => DepartedForgotten
  BY DEF AgentsFollowed, AppsFollowed, DepartedForgotten
<1> QED BY OrderlyRefines, PoldInvariant, <1>1, <1>2, <1>3, <1>4, PTL DEF Spec
-----------------------------------------------------------------------------
(* The policies agents know. *)

(* Removing an agent leaves none of its apps watched, so that every watched  *)
(* app's agent still has a path: orderly agents ask only while registered.   *)
LEMMA WatchedRegisteredStep ==
  ASSUME IInv, Listed, Orderly, WatchedRegistered, OwnPrefix, [Next]_vars
  PROVE  WatchedRegistered'
<1> SUFFICES ASSUME NEW k \in Key, app_id_to_app'[k] # NULL PROVE object_paths'[k[1]] # NULL
  BY DEF WatchedRegistered, Watched
<1>1. object_paths[k[1]] # NULL => object_paths'[k[1]] # NULL
  BY RemovedStep
<1>2. CASE user_cb
  <2> DEFINE data == request[Head(inbox).request]
  <2>1. data \in ConfigData /\ Head(inbox).request \in Request
    BY <1>2, HeadFacts DEF IInv, user_cb, Receive, CarriesCall
  <2>2. object_paths[data.agent] # NULL
    BY <2>1, RecordsAssumption DEF Orderly
  <2>3. app_id_to_app[k] = NULL => k = <<data.agent, data.app>>
    BY <1>2 DEF user_cb, pold_policy_watch_app, IInv, TypeOK
  <2>4. k[1] = data.agent => object_paths[k[1]] # NULL
    BY <2>2
  <2>5. k = <<data.agent, data.app>> => k[1] = data.agent
    OBVIOUS
  <2>6. app_id_to_app[k] # NULL => object_paths[k[1]] # NULL
    BY DEF WatchedRegistered, Watched
  <2> QED BY <1>1, <2>3, <2>4, <2>5, <2>6
<1>3. CASE ~user_cb
  <2>1. app_id_to_app[k] # NULL
    BY <1>3, OnlyUserWatches
  <2> QED BY <1>1, <2>1 DEF WatchedRegistered, Watched
<1> QED BY <1>2, <1>3

(* user_cb tells the agent the policy in force, and remembers it for an app  *)
(* it has not watched before.                                                *)
LEMMA UserServes ==
  ASSUME IInv, user_cb, DefaultNamed
  PROVE  /\ UNCHANGED <<id_to_policy, default_policy>>
         /\ \E x \in Key :
              /\ app_id_to_app'[x] # NULL
              /\ told'[x] = Active(x, id_to_policy, default_policy.json)'
              /\ \/ app_id_to_app'[x] = app_id_to_app[x]
                 \/ app_id_to_app[x] = NULL /\ app_id_to_app'[x].agent_policy_json = told'[x]
              /\ \A y \in Key \ {x} : /\ app_id_to_app'[y] = app_id_to_app[y]
                                      /\ told'[y] = told[y]
<1> DEFINE r == Head(inbox).request
           data == request[r]
           k == <<data.agent, data.app>>
           new == ValidOnly(data.selinux) \o ValidOnly(UserId[data.app])
                    \o ValidOnly(GroupId[data.app])
           ids == IF app_id_to_app[k] # NULL THEN app_id_to_app[k].policy_ids ELSE new
           doc == get_active_policy(ids, id_to_policy, default_policy.json)
<1>1. data \in ConfigData
  BY HeadFacts DEF IInv, user_cb, Receive, CarriesCall
<1>2. replace_id_if_empty(UserId[data.app], ActiveId(ids, id_to_policy) = NULL) = default_policy
  BY DEF replace_id_if_empty, DefaultNamed
<1>3. /\ id_to_policy' = id_to_policy
      /\ default_policy' = default_policy
      /\ told' = [told EXCEPT ![k] = doc]
      /\ pold_policy_watch_app(k, ids)
  BY <1>2 DEF user_cb
<1>4. PICK x \in Key : x = k
  BY <1>1 DEF ConfigData, Key
<1> HIDE DEF k
<1>5. PICK list, json : list = new /\ json = doc
  OBVIOUS
<1>6. told'[x] = json /\ \A y \in Key \ {x} : told'[y] = told[y]
  BY <1>3, <1>4, <1>5 DEF IInv, TypeOK
<1>7. CASE app_id_to_app[x] # NULL
  <2>1. UNCHANGED app_id_to_app
    BY <1>3, <1>4, <1>5, <1>7 DEF pold_policy_watch_app
  <2>2. json = get_active_policy(app_id_to_app[x].policy_ids, id_to_policy, default_policy.json)
    BY <1>4, <1>5, <1>7
  <2>3. told'[x] = Active(x, id_to_policy, default_policy.json)'
    BY <1>3, <1>6, <2>1, <2>2 DEF Active
  <2> QED BY <1>3, <1>6, <1>7, <2>1, <2>3
<1>8. CASE app_id_to_app[x] = NULL
  <2> DEFINE record == [policy_ids |-> list, agent_policy_json |-> json]
  <2>1. json = get_active_policy(list, id_to_policy, default_policy.json)
    BY <1>4, <1>5, <1>8
  <2>2. app_id_to_app' = [app_id_to_app EXCEPT ![x] = record]
    BY <1>3, <1>4, <1>5, <1>8, <2>1 DEF pold_policy_watch_app
  <2>3. app_id_to_app'[x] = record /\ \A y \in Key \ {x} : app_id_to_app'[y] = app_id_to_app[y]
    BY <2>2 DEF IInv, TypeOK
  <2>4. record.policy_ids = list /\ record.agent_policy_json = json
    OBVIOUS
  <2>5. told'[x] = Active(x, id_to_policy, default_policy.json)'
    BY <1>3, <1>6, <2>1, <2>3, <2>4 DEF Active
  <2>6. app_id_to_app'[x] # NULL
    <3>1. list \in Seq(PolicyId)
      <4>1. /\ ValidOnly(data.selinux) \in Seq(PolicyId)
            /\ ValidOnly(UserId[data.app]) \in Seq(PolicyId)
            /\ ValidOnly(GroupId[data.app]) \in Seq(PolicyId)
        BY <1>1, ValidOnlyType, IdsAssumption DEF ConfigData
      <4>2. new \in Seq(PolicyId)
        BY <4>1
      <4> QED BY <1>4, <1>5, <4>2, Zenon
    <3>2. json \in Json \cup {NULL}
      BY <2>1, <3>1, ActiveType DEF IInv, TypeOK
    <3>3. record \in AppRecord
      BY <3>1, <3>2 DEF AppRecord
    <3> QED BY <2>3, <3>3, RecordsAssumption
  <2> HIDE DEF record
  <2> QED BY <1>3, <1>6, <1>8, <2>3, <2>4, <2>5, <2>6
<1> QED BY <1>7, <1>8

(* A load that begins ends well, so a failed update has changed nothing.     *)
LEMMA FailureChangesNothing ==
  ASSUME PoliciesLoad, NEW response \in Responses, NEW table,
         NEW outcome \in update_outcomes(table, response), outcome.error
  PROVE  outcome.table = table
<1>1. CASE outcome \in [error : {TRUE}, table : {table}]
  BY <1>1
<1>2. CASE Accepted(response) /\ outcome \in load_policies(Saved(response))
  <2>1. {file \in Saved(response) : load_policy(file)} = Saved(response)
    BY <1>2 DEF PoliciesLoad
  <2>2. outcome \in [error : {FALSE}, table : TablesOf(Saved(response))]
    BY <1>2, <2>1 DEF load_policies
  <2>3. outcome.error = FALSE
    BY <2>2
  <2> QED BY <2>3
<1> QED BY <1>1, <1>2 DEF update_outcomes

(* Whatever a new table holds: apps whose policy changed are marked and told,*)
(* the others were told it before.                                           *)
LEMMA UpdateServes ==
  ASSUME IInv, WatchedRegistered, InStep, PoliciesLoad, NEW response \in Responses,
         NEW outcome \in update_outcomes(id_to_policy, response), outcome.table \in Table,
         apply_update(outcome)
  PROVE  /\ InStep'
         /\ UNCHANGED default_policy
         /\ Watched' = Watched
         /\ \A k \in Watched : Active(k, id_to_policy, default_policy.json)'
                                 = Active(k, id_to_policy', default_policy'.json)
<1> DEFINE doc(k) == Active(k, outcome.table, default_policy.json)
<1>1. id_to_policy' = outcome.table /\ UNCHANGED default_policy
  BY DEF apply_update
<1>2. Watched' = Watched
  BY ApplyUpdate DEF IInv, Watched
<1>3. PICK S \in IF outcome.error THEN {{}} ELSE update_agent_policies(outcome.table) :
        /\ app_id_to_app' = [k \in Key |->
             IF k \in S THEN [app_id_to_app[k] EXCEPT !.agent_policy_json = doc(k)]
                        ELSE app_id_to_app[k]]
        /\ told' = [k \in Key |-> IF k \in S THEN doc(k) ELSE told[k]]
  BY DEF apply_update
<1>4. \A k \in Watched : app_id_to_app[k] \in AppRecord
  BY DEF IInv, TypeOK, Watched
<1> HIDE DEF doc
<1>5. ASSUME NEW k \in Watched, k \in S
      PROVE  /\ app_id_to_app'[k].policy_ids = app_id_to_app[k].policy_ids
             /\ app_id_to_app'[k].agent_policy_json = doc(k)
             /\ told'[k] = doc(k)
  BY <1>3, <1>4, <1>5 DEF AppRecord, Watched
<1>6. ASSUME NEW k \in Watched, k \notin S
      PROVE  app_id_to_app'[k] = app_id_to_app[k] /\ told'[k] = told[k]
  BY <1>3, <1>6 DEF Watched
<1>7. \A k \in Watched : Active(k, id_to_policy, default_policy.json)' = doc(k)
  BY <1>1, <1>5, <1>6 DEF Active, doc
<1>8. ASSUME NEW k \in Watched, k \notin S PROVE told[k] = doc(k)
  <2>1. CASE outcome.error
    <3>1. outcome.table = id_to_policy
      BY <2>1, FailureChangesNothing
    <3> QED BY <3>1 DEF InStep, doc
  <2>2. CASE ~outcome.error
    <3>1. S = mark_update_apps(outcome.table)
      <4>1. \A x \in mark_update_apps(outcome.table) : pold_manager_update_agent(x)
        BY DEF mark_update_apps, pold_manager_update_agent, WatchedRegistered
      <4>2. {x \in mark_update_apps(outcome.table) : pold_manager_update_agent(x)}
              = mark_update_apps(outcome.table)
        BY <4>1
      <4>3. update_agent_policies(outcome.table) = {mark_update_apps(outcome.table)}
        BY <4>2 DEF update_agent_policies
      <4> QED BY <1>3, <2>2, <4>3
    <3>2. app_id_to_app[k].agent_policy_json = doc(k)
      BY <1>8, <3>1 DEF mark_update_apps, doc
    <3> QED BY <3>2 DEF InStep
  <2> QED BY <2>1, <2>2
<1>9. InStep'
  BY <1>2, <1>5, <1>6, <1>7, <1>8 DEF InStep
<1>10. \A k \in Watched : Active(k, id_to_policy', default_policy'.json) = doc(k)
  BY <1>1 DEF Active, doc
<1> QED BY <1>1, <1>2, <1>7, <1>9, <1>10

(* What a removal does to the apps that stay: nothing. Those whose agent or  *)
(* app is forgotten do not stay.                                             *)
OnlyDrops ==
  /\ UNCHANGED policies
  /\ Watched' \subseteq Watched
  /\ \A k \in Watched' : app_id_to_app'[k] = app_id_to_app[k] /\ told'[k] = told[k]

LEMMA RemovalServes ==
  ASSUME IInv, Listed, OwnPrefix, MessageIntact,
         pold_manager_unregister_agent \/ owner_disconnect \/ stop_watching_app
  PROVE  OnlyDrops
<1>1. UNCHANGED policies
  BY DEF pold_manager_unregister_agent, owner_disconnect, stop_watching_app
<1>2. ASSUME NEW K, NEW gone, stop_watching(K), Forget(gone),
             \A k \in Watched' : k \notin gone
      PROVE  OnlyDrops
  <2>1. \A k \in Watched' : k \in Watched /\ app_id_to_app'[k] = app_id_to_app[k]
    BY <1>2 DEF stop_watching, Watched
  <2>2. \A k \in Watched' : told'[k] = told[k]
    BY <1>2 DEF Forget, Watched
  <2> QED BY <1>1, <2>1, <2>2 DEF OnlyDrops
<1>3. ASSUME NEW a, pold_remove_agent_apps({a}), Forget({a} \X App) PROVE OnlyDrops
  <2>1. \A k \in Watched' : k \notin {a} \X App
    BY <1>3, RemovesAll DEF Watched
  <2> QED BY <1>2, <1>3, <2>1 DEF pold_remove_agent_apps
<1>4. CASE pold_manager_unregister_agent
  <2>1. CASE UNCHANGED registry
    BY <1>1, <2>1 DEF registry, OnlyDrops, Watched
  <2>2. CASE ~UNCHANGED registry
    BY <1>3, <1>4, <2>2 DEF pold_manager_unregister_agent
  <2> QED BY <2>1, <2>2
<1>5. CASE owner_disconnect
  <2>1. PICK a \in Agent : a = Head(inbox).name
    BY <1>5 DEF owner_disconnect
  <2>2. Forget({a} \X App)
    BY <1>5, <2>1 DEF owner_disconnect
  <2>3. PICK names \in SUBSET SenderRead[a] : names # {} /\ pold_remove_agent_apps(names)
    BY <1>5, <2>1 DEF owner_disconnect
  <2>4. names = {a}
    BY <2>3 DEF MessageIntact
  <2> QED BY <1>3, <2>2, <2>3, <2>4
<1>6. CASE stop_watching_app
  <2>1. PICK hit : stop_watching({k \in Watched : k[2] = Head(inbox).name} \cup hit)
    BY <1>6 DEF stop_watching_app
  <2>2. Forget({k \in Key : k[2] = Head(inbox).name})
    BY <1>6 DEF stop_watching_app
  <2>3. \A k \in Watched' : k \notin {x \in Key : x[2] = Head(inbox).name}
    BY <2>1 DEF stop_watching, Watched
  <2> QED BY <1>2, <2>1, <2>2, <2>3
<1> QED BY <1>4, <1>5, <1>6

(* No step lets the record, the agent's knowledge and the policy diverge.    *)
LEMMA InStepStep ==
  ASSUME IInv, Listed, WatchedRegistered, InStep, DefaultNamed, [Next]_vars,
         OwnPrefix, MessageIntact, PoliciesLoad
  PROVE  InStep' /\ DefaultNamed'
<1>1. CASE Quiet \/ UNCHANGED vars
  BY <1>1 DEF Quiet, registry, policies, vars, InStep, DefaultNamed, Watched, Active
<1>2. CASE pold_manager_unregister_agent \/ owner_disconnect \/ stop_watching_app
  <2>1. OnlyDrops
    BY <1>2, RemovalServes
  <2> QED BY <2>1 DEF OnlyDrops, policies, InStep, DefaultNamed, Active
<1>3. CASE user_cb
  <2>1. UNCHANGED <<id_to_policy, default_policy>>
    BY <1>3, UserServes
  <2>2. PICK x \in Key :
          /\ told'[x] = Active(x, id_to_policy, default_policy.json)'
          /\ \/ app_id_to_app'[x] = app_id_to_app[x]
             \/ app_id_to_app'[x].agent_policy_json = told'[x]
          /\ \A y \in Key \ {x} : app_id_to_app'[y] = app_id_to_app[y] /\ told'[y] = told[y]
    BY <1>3, UserServes
  <2>3. ASSUME NEW y \in Watched', y # x
        PROVE  /\ told'[y] = app_id_to_app'[y].agent_policy_json
               /\ told'[y] = Active(y, id_to_policy, default_policy.json)'
    BY <2>1, <2>2, <2>3 DEF InStep, Watched, Active
  <2>4. ASSUME x \in Watched' PROVE told'[x] = app_id_to_app'[x].agent_policy_json
    BY <2>1, <2>2, <2>4 DEF InStep, Watched, Active
  <2> QED BY <2>1, <2>2, <2>3, <2>4 DEF InStep, DefaultNamed
<1>4. CASE PolicyUpdate
  BY <1>4, UpdateServes DEF PolicyUpdate, DefaultNamed
<1> QED BY <1>1, <1>2, <1>3, <1>4, KindsOfSteps

(* What orderly clients meet.                                                *)
OrderlyInv == IInv /\ Orderly /\ Listed /\ WatchedRegistered /\ InStep /\ DefaultNamed

LEMMA OrderlyInvariant ==
  ASSUME OwnPrefix, SomeValidId, MessageIntact, PoliciesLoad, DefaultId # NoId
  PROVE  OrderlySpec => []OrderlyInv
<1>1. Init => Listed /\ WatchedRegistered /\ InStep /\ DefaultNamed
  BY DEF Init, Listed, WatchedRegistered, InStep, DefaultNamed, Watched
<1>2. IInv /\ Listed /\ [Next]_vars => Listed'
  BY ListedStep
<1>3. IInv /\ Listed /\ Orderly /\ WatchedRegistered /\ [Next]_vars => WatchedRegistered'
  BY WatchedRegisteredStep
<1>4. IInv /\ Listed /\ WatchedRegistered /\ InStep /\ DefaultNamed /\ [Next]_vars
        => InStep' /\ DefaultNamed'
  BY InStepStep
<1> QED BY OrderlyRefines, PoldInvariant, <1>1, <1>2, <1>3, <1>4, PTL DEF Spec, OrderlyInv

(* If the policy stored for an app equals the one in force, its agent was    *)
(* told that policy: for any clients that are orderly, whatever the server   *)
(* answers in loadable policies and however the tables change.               *)
THEOREM RecordTrue ==
  ASSUME OwnPrefix, SomeValidId, MessageIntact, PoliciesLoad, DefaultId # NoId
  PROVE  OrderlySpec => []RecordIsWhatAgentKnows
<1>1. OrderlyInv => RecordIsWhatAgentKnows
  BY DEF OrderlyInv, InStep, RecordIsWhatAgentKnows
<1> QED BY OrderlyInvariant, <1>1, PTL

(* When new policies have been loaded, every registered agent has been told  *)
(* the policy now in force for each of its watched apps.                     *)
THEOREM UpdatesReachAll ==
  ASSUME OwnPrefix, SomeValidId, MessageIntact, PoliciesLoad, DefaultId # NoId
  PROVE  OrderlySpec => UpdateReachesAll
<1> DEFINE Reaches ==
      id_to_policy' # id_to_policy =>
        \A k \in Watched : object_paths[k[1]] # NULL =>
          told'[k] = Active(k, id_to_policy', default_policy'.json)
<1>1. OrderlyInv /\ [Next]_vars => [Reaches]_vars
  <2> SUFFICES ASSUME OrderlyInv, [Next]_vars, id_to_policy' # id_to_policy, NEW k \in Watched
               PROVE  told'[k] = Active(k, id_to_policy', default_policy'.json)
    OBVIOUS
  <2>1. PolicyUpdate
    <3>1. ~(Quiet \/ UNCHANGED vars)
      BY DEF Quiet, policies, vars
    <3>2. ~(pold_manager_unregister_agent \/ owner_disconnect \/ stop_watching_app)
      BY RemovalServes DEF OnlyDrops, policies, OrderlyInv
    <3>3. ~user_cb
      BY UserServes DEF OrderlyInv
    <3> QED BY <3>1, <3>2, <3>3, KindsOfSteps DEF OrderlyInv
  <2>2. /\ InStep' /\ Watched' = Watched
        /\ Active(k, id_to_policy, default_policy.json)'
             = Active(k, id_to_policy', default_policy'.json)
    BY <2>1, UpdateServes DEF PolicyUpdate, OrderlyInv
  <2> QED BY <2>2 DEF InStep
<1> QED BY OrderlyInvariant, OrderlyRefines, <1>1, PTL DEF Spec, UpdateReachesAll
-----------------------------------------------------------------------------
(* The refinement of PolicyDistribution. *)

inForce == [k \in Watched |-> Active(k, id_to_policy, default_policy.json)]
knownTo == [k \in Watched |-> told[k]]

(* A daemon that has just started watches nothing.                           *)
LEMMA InitImplements == Init => Distribution!Init
<1> SUFFICES ASSUME Init PROVE Distribution!Init
  OBVIOUS
<1>1. Watched = {}
  BY DEF Init, Watched
<1>2. inForce = <<>> /\ knownTo = <<>>
  BY <1>1 DEF inForce, knownTo
<1> QED BY <1>2 DEF Distribution!Init, inForce, knownTo

(* A watched app's policy is a document, in the state a step leads to.       *)
LEMMA ActiveDocumentNext ==
  ASSUME TypeOK', NEW k \in Watched'
  PROVE  Active(k, id_to_policy, default_policy.json)' \in Json \cup {NULL}
<1>1. app_id_to_app'[k].policy_ids \in Seq(PolicyId)
  BY DEF TypeOK, Watched, AppRecord
<1>2. id_to_policy' \in Table /\ default_policy'.json \in Json \cup {NULL}
  BY DEF TypeOK
<1> QED BY <1>1, <1>2, ActiveType DEF Active

(* Dropping apps is a Leave.                                                 *)
LEMMA DropsLeave ==
  ASSUME OnlyDrops
  PROVE  \E gone \in SUBSET Watched :
           /\ inForce' = [k \in Watched \ gone |-> inForce[k]]
           /\ knownTo' = [k \in Watched \ gone |-> knownTo[k]]
<1> DEFINE gone == Watched \ Watched'
<1>1. Watched' = Watched \ gone
  BY DEF OnlyDrops
<1>2. \A k \in Watched' : Active(k, id_to_policy, default_policy.json)' = inForce[k]
  BY DEF OnlyDrops, policies, Active, inForce
<1>3. \A k \in Watched' : told'[k] = knownTo[k]
  BY DEF OnlyDrops, knownTo
<1>4. /\ inForce' = [k \in Watched' |-> Active(k, id_to_policy, default_policy.json)']
      /\ knownTo' = [k \in Watched' |-> told'[k]]
  BY DEF inForce, knownTo
<1>5. /\ inForce' = [k \in Watched \ gone |-> inForce[k]]
      /\ knownTo' = [k \in Watched \ gone |-> knownTo[k]]
  BY <1>1, <1>2, <1>3, <1>4
<1> QED BY <1>5

(* A step that keeps the watched apps and leaves them in step publishes.     *)
LEMMA UpdatePublishes ==
  ASSUME TypeOK', InStep', Watched' = Watched
  PROVE  Distribution!Publish
<1>1. \A k \in Watched' : Active(k, id_to_policy, default_policy.json)' \in Json \cup {NULL}
  BY ActiveDocumentNext
<1>2. inForce' \in [Watched -> Json \cup {NULL}]
  BY <1>1 DEF inForce
<1>3. knownTo' = inForce'
  BY DEF InStep, knownTo, inForce
<1>4. DOMAIN inForce = Watched
  BY DEF inForce
<1> QED BY <1>2, <1>3, <1>4 DEF Distribution!Publish, inForce, knownTo

(* user_cb subscribes the app, or tells a subscriber what it knows.          *)
LEMMA UserSubscribes ==
  ASSUME IInv, TypeOK', InStep, DefaultNamed, user_cb
  PROVE  [Distribution!Next]_(Distribution!vars)
<1>1. UNCHANGED <<id_to_policy, default_policy>>
  BY UserServes
<1>2. PICK x \in Key :
        /\ app_id_to_app'[x] # NULL
        /\ told'[x] = Active(x, id_to_policy, default_policy.json)'
        /\ app_id_to_app'[x] = app_id_to_app[x] \/ app_id_to_app[x] = NULL
        /\ \A y \in Key \ {x} : app_id_to_app'[y] = app_id_to_app[y] /\ told'[y] = told[y]
  BY UserServes
<1>3. Watched' = Watched \cup {x}
  BY <1>2 DEF Watched
<1>4. \A y \in Watched \ {x} : Active(y, id_to_policy, default_policy.json)'
                                  = Active(y, id_to_policy, default_policy.json)
  BY <1>1, <1>2 DEF Active, Watched
<1>5. \A y \in Watched \ {x} : told'[y] = told[y]
  BY <1>2 DEF Watched
<1>6. CASE app_id_to_app[x] = NULL
  <2>1. x \notin Watched
    BY <1>6 DEF Watched
  <2>2. \A y \in Watched' : Active(y, id_to_policy, default_policy.json)' \in Json \cup {NULL}
    BY ActiveDocumentNext
  <2>3. inForce' \in [Watched \cup {x} -> Json \cup {NULL}]
    BY <1>3, <2>2 DEF inForce
  <2>4. [s \in Watched |-> inForce'[s]] = inForce
    BY <1>3, <1>4, <2>1 DEF inForce
  <2>5. knownTo' = [s \in Watched \cup {x} |-> IF s = x THEN inForce'[x] ELSE knownTo[s]]
    BY <1>2, <1>3, <1>5 DEF inForce, knownTo
  <2>6. DOMAIN inForce = Watched /\ DOMAIN knownTo = Watched
    BY DEF inForce, knownTo
  <2>7. Distribution!Subscribe(x)
    BY <2>1, <2>3, <2>4, <2>5, <2>6
       DEF Distribution!Subscribe, Distribution!Restricted, inForce, knownTo
  <2> QED BY <2>7 DEF Distribution!Next
<1>7. CASE app_id_to_app[x] # NULL
  <2>1. x \in Watched /\ Watched' = Watched
    BY <1>3, <1>7 DEF Watched
  <2>2. app_id_to_app'[x] = app_id_to_app[x]
    BY <1>2, <1>7
  <2>3. Active(x, id_to_policy, default_policy.json)' = Active(x, id_to_policy, default_policy.json)
    BY <1>1, <2>2 DEF Active
  <2>4. told'[x] = told[x]
    BY <1>2, <2>1, <2>3 DEF InStep
  <2>5. inForce' = inForce /\ knownTo' = knownTo
    BY <1>4, <1>5, <2>1, <2>3, <2>4 DEF inForce, knownTo
  <2> QED BY <2>5 DEF Distribution!vars, inForce, knownTo
<1> QED BY <1>6, <1>7

(* Every step of the daemon is a step of the distribution, or invisible.     *)
LEMMA StepImplements ==
  ASSUME OrderlyInv, OrderlyInv', [Next]_vars, OwnPrefix, MessageIntact, PoliciesLoad
  PROVE  [Distribution!Next]_(Distribution!vars)
<1>1. CASE Quiet \/ UNCHANGED vars
  <2>1. UNCHANGED <<registry, policies>>
    BY <1>1 DEF Quiet, vars
  <2>2. inForce' = inForce /\ knownTo' = knownTo
    BY <2>1 DEF inForce, knownTo, registry, policies, Watched, Active
  <2> QED BY <2>2 DEF Distribution!vars, inForce, knownTo
<1>2. CASE pold_manager_unregister_agent \/ owner_disconnect \/ stop_watching_app
  <2>1. OnlyDrops
    BY <1>2, RemovalServes DEF OrderlyInv
  <2>2. PICK gone \in SUBSET Watched :
          /\ inForce' = [k \in Watched \ gone |-> inForce[k]]
          /\ knownTo' = [k \in Watched \ gone |-> knownTo[k]]
    BY <2>1, DropsLeave
  <2>3. DOMAIN inForce = Watched /\ DOMAIN knownTo = Watched
    BY DEF inForce, knownTo
  <2>4. Distribution!Leave(gone)
    BY <2>2, <2>3 DEF Distribution!Leave, Distribution!Restricted, inForce, knownTo
  <2>5. gone \in SUBSET DOMAIN inForce
    BY <2>2, <2>3
  <2> QED BY <2>4, <2>5 DEF Distribution!Next, inForce
<1>3. CASE user_cb
  BY <1>3, UserSubscribes DEF OrderlyInv, IInv
<1>4. CASE PolicyUpdate
  <2>1. Watched' = Watched
    BY <1>4, UpdateServes DEF PolicyUpdate, OrderlyInv
  <2> QED BY <2>1, UpdatePublishes DEF OrderlyInv, IInv, Distribution!Next
<1> QED BY <1>1, <1>2, <1>3, <1>4, KindsOfSteps DEF OrderlyInv

(* With orderly clients and policies that load, every agent always knows the *)
(* policy in force for each app it asked about: the daemon implements        *)
(* PolicyDistribution, for any agents, apps, policies and server answers.    *)
THEOREM Implements ==
  ASSUME OwnPrefix, SomeValidId, MessageIntact, PoliciesLoad, DefaultId # NoId
  PROVE  OrderlySpec => ImplementsDistribution
<1>1. Init => Distribution!Init
  BY InitImplements
<1>2. OrderlyInv /\ OrderlyInv' /\ [Next]_vars => [Distribution!Next]_(Distribution!vars)
  BY StepImplements
<1> QED BY OrderlyInvariant, OrderlyRefines, <1>1, <1>2, PTL
       DEF Spec, ImplementsDistribution, Distribution!Spec
===============================================================================
