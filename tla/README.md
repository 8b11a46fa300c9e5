# A verification of pold, the policy daemon for ConnMan sessions

pold tells *agents* (ConnMan's session plugin above all) which policy applies to
an *application*. Policies are JSON documents identified by `selinux:<type>`,
`user:<name>` or `group:<name>`; a policy server provides them, pold keeps them in
a directory and in memory, and tells the agents concerned when they change.
These modules model the daemon's own code (`src/src/*.c`), the part of BlueZ's gdbus it
is built on (`src/gdbus`) and the session plugin it is made for (`src/connman`). TLC checks
them on small instances, and TLAPS proves the results of section 5 for every value of the
constants.

## 1. Inventory

| Component | State | Operations | Modelled in |
|---|---|---|---|
| Policy registry, `policy.c` | `id_to_policy`, `default_policy`, `app_id_to_app`, `id_to_apps`, `update_apps` | `get_active_policy`, `pold_policy_watch_app`, `stop_watching_app`, `pold_remove_agent_apps`, `mark_update_apps`, `update_agent_policies` | `PolicyMatch`, `ActivePolicy`, `Pold` |
| Policy store, `policy.c`, `http-client.c` | the policy directory, requests under way | `update_policies_cb` (`delete_all_policies`, `save_policies`, `load_policies`), `pold_policy_init` | `PolicyFiles`, `PolicyStore` |
| D-Bus manager, `pold-manager.c`, `fdo-dbus.c` | `object_paths`, a `config_data` per call in flight | `RegisterAgent`, `UnregisterAgent`, `GetPolicyConfig` and its chain of callbacks, `owner_disconnect` | `Pold` |
| gdbus watches, `watch.c` | listeners with their match rules, watches and cached owners | service, disconnect and signal watches; `message_filter` | `GdbusWatch`; `Pold` as its clients see it |
| gdbus objects, `object.c` | the tree of objects, interfaces, what waits to be announced | register, unregister, property changes, object manager, introspection | `GdbusObject` |
| gdbus calls, `object.c`, `mainloop.c`, `polkit.c` | the queue of messages, dispatch sources, pending authorizations and property sets | dispatch, `check_privilege`, `properties_set`, replies | `GdbusCalls` |
| ConnMan plugin, `connman/*.patch` | `session_hash`, `agent_registered`, `register_call` | `pold_appeared`, `pold_disappeared`, `policy_pold_create`, `get_policy_cb`, `agent_update` | `SessionPlugin`, `PoldAndConnman` |
| pold as a ConnMan client, `session.c`, `connman-*.c` | `session_path`, calls under way | `CreateSession`, `Release`, `Update` | `PoldAndConnman` |
| JSON to D-Bus, `dbus-json.c` | none | recursive conversion | `DbusJson`, `PolicyMessage` |
| Start and signals, `main.c` | main loop | `SIGUSR2`, init and final functions | `signal_update`, `pold_policy_init`, `PoldStarts`, `PoldStops`; the rest not |
| Policy server, `policyserver.py` | a list of policies | `GET` | constants `Responses`, `Answer` |
| gdbus client, `client.c` | proxies | - | not: the build leaves it out |

How they interact. Everything in the daemon runs in one GLib main loop: each D-Bus
message, each HTTP completion and each signal is one callback that runs to its end.
What makes the daemon hard is what happens *between* callbacks. A `GetPolicyConfig`
call is a chain of up to four of them (method, HTTP answer, SELinux reply, user
reply), in which the agent, the application and the server may each have changed
since the previous one. Disconnections are reported only while a match rule exists, and
refer by raw pointer to data that something else may have freed. An update rewrites
the directory and the table, and must reach all agents whose policy changed and
leave the others alone.

What makes each part correct, in short: the registry's two tables list the same
apps, and an app is in them exactly while its agent and it are there; every call
is answered once; the agent always knows the policy in force; the store never mixes
versions and reaches the server's newest one; the active policy is the first of the
highest priority. `hazards` in `PROJECT.json` lists, line by line, where each of these
could go wrong.

## 2. The modules

* `PolicyMatch`: the vocabulary of policies. `ActiveId` and `get_active_policy` say *what* the
  active policy is (the comment of `policy.c:153-158`).
* `ActivePolicy`: *how* the loop of `get_active_policy` finds it, one step per round, for
  every list and every table. `ActivePolicy_proofs` proves that it agrees.
* `PolicyFiles`: documents, server answers, what loading a directory may leave in the
  table (a bad file ends the loop midway; of several files with one `Id` the last one read
  wins, in an order that is not defined).
* `Pold`: the daemon. One action per handler, named after it:

  | Action | Code |
  |---|---|
  | `pold_manager_register_agent`, `RegisterTwice` | `pold_manager_register_agent`, its early return apart |
  | `pold_manager_unregister_agent` | the same, with `pold_remove_agent_apps` |
  | `owner_disconnect` | all watches of a departed agent's name; `SenderRead` is what its dangling `user_data` may read |
  | `stop_watching_app`, `CrashOnFreedApp` | the watches of a departed application's name, those of freed records (`stale`) included |
  | `pold_manager_get_policy_config` | own policy, fresh policies, or policies fetched first |
  | `update_from_server_cb` | `update_policies_cb` as a whole with the caller's callback |
  | `selinux_cb`, `user_cb`, `UserFailed` | the chain's last steps, with `pold_policy_watch_app` and `replace_id_if_empty` |
  | `signal_update`, `signal_update_done` | `SIGUSR2` and its HTTP answer |
  | `CallAgentMethod`, `CallGetPolicyConfig`, `Disconnect`, `BusSelinuxReply`, `BusUserReply` | the clients and the bus daemon (external) |

  `inbox` is the queue of messages libdbus has received; replies of the bus and
  calls of the clients are handled in its order, HTTP answers in any order. `told` is a
  history variable: the last document each agent got for each application. A step that
  frees memory still pointed at is modelled by the set of outcomes the build can have:
  nothing, another record in its place, or a crash.
* `PoldProperties`: the properties, and `Orderly`, the discipline of the ConnMan plugin.
* `PolicyDistribution`: the abstract promise. A subscriber (an agent, for one application)
  always knows the policy in force; policies change for everybody in one step. `Pold`
  implements it (`ImplementsDistribution`): `in_force` is the active policy of each
  watched app, `known` is `told`.
* `PolicyStore`: updates again, one file operation at a time, with crashes and failures
  between any two. `Pold` uses an update as one step because it is one callback; what
  that callback may leave behind is `update_outcomes`, and `PolicyStore` shows what
  becomes of the directory.
* `GdbusWatch`: the lists of `watch.c`. A *listener* stands for one match rule and has a list
  of watches; while `message_filter` calls them it is locked, watches already called are put
  aside (`processed`), and new ones go there directly. A step is one function call with what
  the function does: nothing, add any watch, or remove any watch, the one being called
  included. What the code does between two calls belongs to the step before. `heap` holds the
  module's data, and the C functions are operators from heap to heap. Where freed memory
  would be used (`delete_listener` with two elements, `g_dbus_remove_all_watches`) the
  status becomes "undefined" and the model stops. `told`, `called` and `doubtful` are history.
* `GdbusObject`: the objects of `object.c`, in the same style. A *listener* on the bus applies
  each `InterfacesAdded`, `InterfacesRemoved` and `PropertiesChanged` as it is sent: `known`
  is what it then believes in, `stale` the properties whose value it has not been told.
  `process_changes` is the idle source; `g_dbus_flush` runs it before anything is sent.
  `excused`, `misplaced` and `lost` record the cases in which the code does not keep the
  listener right (section 4), so that the invariants can say that nothing else goes wrong.
* `GdbusCalls`: a call from the socket to its answer: `watch_func`, `dispatch_status` and
  `message_dispatch` as main loop sources, `generic_message`, the authorization a
  privileged method waits for, property changes the program answers by id, and methods
  answered now, later or never.
* `SessionPlugin`: the agent. Messages between the two processes are kept in order per
  direction, calls to an absent peer come back as errors, calls under way when the peer dies too.
  A policy is its version, the process it is from, and what the plugin makes of its document
  (`Document`): it is valid, refused by `parse_policy_config` or for want of an Id, or missing
  from the message. On a reply without it, `get_policy_cb` returns without calling ConnMan back
  (`NeverAnswered`, remembered in `silent`). An update that is refused leaves what `Updated` says:
  the old policy, half of it, or the new one that only lacks its Id.
* `PoldAndConnman`: the composition of `SessionPlugin` with pold, which is a service for the
  plugin (the manager, as far as an agent sees it) and a client of ConnMan at the
  same time: the session pold opens for itself makes the plugin ask pold for pold's own
  policy, which it answers at once from a fixed one and never watches (`pold-manager.c:341`). What
  the policies have for an application may change in any way with each version (`document`). Both processes
  start and stop at any time, and timers fire as often as they like.
* `DbusJson`: the conversion of a JSON value to arguments of a message: signatures, variants,
  the width of an `int` (`IntBits`), the failed assertions (`Aborted`), and how the plugin reads
  the bearers. `Says` and `WellFormed` are the reference it is compared with.
* `PolicyMessage`: the active policy is selected and its document appended to a message.
* `MCPolicyMessage`, `MCPold`, `MCPolicyStore`, `MCGdbusWatch`, `MCGdbusObject`, `MCGdbusCalls`,
  `MCPoldAndConnman`: the instances.
* `ActivePolicy_proofs`, `PolicyFiles_proofs`, `Pold_proofs`, `PoldAndConnman_proofs`,
  `PolicyStore_proofs`, `GdbusWatch_proofs`, `GdbusObject_proofs`, `GdbusCalls_proofs`: the
  theorems (section 5).

What composes what: `Pold` assumes of gdbus that a disconnect watch on a unique name fires
once and is gone (`DeliveredOnce`, `ListsExact` and `DepartureReported` of `GdbusWatch`) and that a
method is dispatched once and answered at most once (`AnsweredOnce` of `GdbusCalls`).
`PoldAndConnman` shows which of pold's clients are what `Orderly` asks for: the plugin asks
only while registered, but it may leave before it is answered, and then leaves an app that
no registered agent owns.

## 3. The runs

| Run | Asks | Instance |
|---|---|---|
| `active_policy` | is the loop's answer the specified one, and does its document arrive at the agent as it is? | 5 ids of all four types (two of them `selinux`), lists up to 3, every table; about 14 700 documents: arrays of two values at two levels, of three at one, objects, lists of up to three bearers; an `int` of 3 bits |
| `registry` | do the tables agree, and does the registry lose exactly the apps it should? | 2 agents, 1 application, 1 call in flight, 2 registrations per agent, 1 `SIGUSR2`; clients unrestricted |
| `orderly` | does every agent always know the policy in force? Are the departed forgotten? | 2 agents, 2 applications, 1 call, queue of 2; clients as `Orderly` |
| `answers` | is every call answered, once? | 1 agent, an application and pold itself, 2 calls; any text read by `owner_disconnect`, freed records reused |
| `store` | are versions kept apart, and does the newest one arrive? | 6 server versions: two good ones, one cut off by a non-object, one with an object without `Id`, one that is no array, one without body; 2 faults |
| `watches` | are lists, rules and watches right while functions change them during a delivery? Do watches know who is there? | a well-known and a unique name, signals from the name's owner or anybody, 3 watches in all, 2 match rules at the bus (a third is refused), 2 messages in the queue |
| `connman` | do pold and ConnMan find each other again after any starts and stops? | 1 application and pold itself, 3 starts of the two together, 4 with the application's sessions, 2 versions of the policies; the first document is valid or missing, the second anything; one kind of trouble per history |
| `objects` | does a listener on the bus know what there is, in the right order? Is the tree exact? | `/`, `/a`, `/a/b`; four offers of three interfaces, one with properties, one experimental |
| `calls` | is every call answered, once, and run only when authorized? | 2 calls of any kind, 2 counted dispatch sources |
| `prefix_name`, `orphaned_agent`, `default_lost` | the findings, one each | small variants of `registry` |

Why the bounds are enough. Two agents and one application, or two, are what the
properties relate: each speaks of one app and at most one other agent. One call in flight
lets every other client's step fall between its callbacks; `answers` has two, so that they
overtake each other. `MaxInbox` limits the calls of *clients* only: replies and departures
always enter. The limit `MaxWatches` is 2 where a second registration matters
(`registry`, `answers`). The policies of `registry` are all withdrawn once, so that apps fall
back to the default policy; `orderly` switches between a server that has the SELinux policy and
one that has none. Agents are symmetric wherever their names are no prefixes of each other. In
`store`, the longest answer has two elements: enough for one to be lost between them.

The watches need a listener with two watches and one more to be added or
removed: three ids, of which a signal watch on a name takes two. A third path or interface would
add no new relation between objects: one above, one below, one in between come and go. Two
calls are enough for answers, authorizations and ids to be confused. In `connman` three
starts let either process be the one that is restarted; the application creates sessions
before, between and after them. Timers need no bound: each firing ends a call. A history is
followed while at most one member of `faults` (a timer, an abandoned registration, an orphaned app, ...) occurs, any number of
times (`MaxFaults`); the theorems have no such bound. `MCInit` leaves out a first
document that is refused: the answer to the first request then has the effect of an error, which `user_cb` sends
anyway, and a refused update comes with the second version. The instance has about 4.8 million
states; the proofs are about `Spec`, with any document first.
In `watches` the bus refuses a rule only at its limit for the connection. A refusal for another reason, of
the very first rule, would leave `message_filter` installed and install it again later
(`watch.c:218`); the model has no such bus.

No run checks deadlock: clients may stop calling for good, a crashed daemon stays
crashed, and the gdbus models stop where memory is undefined.

Fairness. `FairSpec` of `Pold` assumes that the main loop goes on dispatching
(`g_main_loop_run`), that the bus answers every call (libdbus produces an error reply on a
timeout) and that libsoup completes every message, with an error status if need be
(`http-client.c:121-138` handles one). Clients owe nothing. In `PolicyStore` agents go on
asking, time passes, an update begun runs to its end (one callback), and the daemon is started
again after a crash. `Converges` has two conditions, which the property itself states: the
server's version settles, and the daemon does not refuse to start on what it finds.
In `GdbusWatch` the main loop dispatches messages, runs idle sources, and the bus answers
`GetNameOwner`; a name's owners owe nothing, and `LearnsPresence` is about names that stay
while the queue is empty, since messages go before idle sources. In `GdbusCalls` the main loop
polls its sources, a question to PolicyKit ends with its timeout at the latest
(`polkit.c:180`), and the program answers what it has accepted; PolicyKit and the callers owe
nothing. `PoldAndConnman` needs none: its properties are about quiet states, in which nothing is under way.

## 4. Findings

* `prefix_name`: `fill_apps_to_remove` (`policy.c:498`) compares a prefix of `app->id`, without the
  `/`: agent `:1.1` takes the apps of `:1.10` with it.
* `orphaned_agent`: `update_agent_policies` (`policy.c:393`) stops at the first app whose agent
  has no object path. One arises when an agent asks without being registered, or leaves
  before the chain has ended; after that, updates may not reach registered agents.
* `default_lost`: `replace_id_if_empty` (`pold-manager.c:185`) turns the default policy's
  document into NULL the first time it fills in an empty id.

What the models show besides, stated as the exceptions that the properties name:

* A second `RegisterAgent` (`pold-manager.c:408`) returns NULL from a method that is
  not asynchronous: gdbus answers NEED_MEMORY and the dispatch loop never ends (status
  "spinning" in `Pold`, "stuck" in `GdbusCalls`). `NeverRegistersTwice` shows that the plugin does not
  cause it, unless its first call timed out.
* `update_policies_cb` (`policy.c:523`) leaves a partial table in force after a failed load and
  marks nothing; together with the early return of `pold_policy_watch_app` (`policy.c:588`),
  `agent_policy_json` ceases to be what the agent was told.
* An array of one element has no inner type (`dbus-json.c:52`) and is sent as variants, so the
  plugin refuses a policy with a single allowed bearer (`DocumentArrives`). A JSON null aborts
  the daemon; integers are cut to an `int`.
* `delete_listener` (`watch.c:566`) never gets beyond its second element. A watch may be told
  "connected" from the cache when the owner has left, and the cached pointer may be freed
  (`watch.c:655`).
* `remove_interface` resets the flag of the whole object (`object.c:1645`): changes of its other
  properties are not sent (`ChangesTold`); at the root, so does detaching the object manager. An interface removed and registered again in
  one iteration is announced in the wrong order (`KnowsInterfaces`). Objects that come or
  go between two others are misplaced in the tree (`object.c:1025`), objects older than the
  object manager are never announced, and the root's introspection is stale once it is attached.
* PolicyKit that cannot be asked leaves the caller without an answer (`object.c:380`); an
  authorization may outlive its interface (`object.c:299`). pold itself registers no security table.
* pold that dies with `RegisterAgent` unanswered is never registered with again (the plugin's
  interface is still there); pold told twice of ConnMan's appearance forgets its
  session path when the second `CreateSession` is refused.
* A reply without arguments leaves a session being created for ever: the plugin's `get_policy_cb` (lines
  354-362 of the patch) clears `pending` and calls nobody. pold sends such replies after `default_lost`,
  since nothing is appended for a document that is not there (`dbus-json.c:286`) and the shipped `default.policy`
  has an empty Id. `NothingWaits` excepts those sessions, and only those (`silent`).
* A refused update leaves the session with the old policy, or with no bearers (line 755 of the patch), although
  pold records it as told. `PoliciesCurrent` is therefore about applications whose newest document the plugin
  accepts; it does show that such a document replaces whatever a refused one has left.
* pold's own policy (`pold.policy.in:3`) has `"*"`, a string, for its bearers, which the plugin recurses into as
  if it were an array: what it reads is up to libdbus, and in the model the policy may be accepted or refused.
* The `Update` notification of ConnMan never records a state (`connman-notification.c:67`): the
  loop compares with a dictionary entry what is an array.

Therefore the properties that hold do so under named conditions: `OtherAppsKept` and
`Subscribed` with names that are no prefixes of each other and an intact `user_data`;
`UpdateReachesAll`, `RecordIsWhatAgentKnows`, `DepartedForgotten` and `ImplementsDistribution`
with orderly clients and policies that load. `TypeOK`, `OneOwner`, `IndexExact` and `Answered`
need no condition.

## 5. The proofs

Assumptions are the named ASSUMEs of the modules: types of the constants, names and NULL
distinct from what they are compared with, the initial directory loadable (otherwise the
daemon exits, `policy.c:684-686`; in `PolicyStore` this is the server's first version), a method
call told apart from an answer of PolicyKit. TLC evaluates all of them.

* `ActivePolicy_proofs`: `BestSoFar`, together with the types and the position of the loop,
  is inductive; at the end it says that the candidate is a first best position of the whole
  list, and there is only one (`FirstBestUnique`), hence `ActivePolicyCorrect`. It holds for any
  length of list: `MaxIds` is a parameter.
* `PolicyFiles_proofs`: what selecting, loading and saving policies can result in; the lemmas
  `Pold_proofs` and `PolicyStore_proofs` share.
* `Pold_proofs`: `IInv == TypeOK /\ OneOwner /\ IndexExact` is inductive. The three need each
  other: `user_cb` finds its `config_data` only because `OneOwner` says the call exists and is
  in that stage; the tables stay typed only because it does; and `stop_watching` keeps
  `IndexExact` only because the ids of an app are those it was listed under. `NotWaiting` is
  the key to `OneOwner`: a call in the stages `http`, `selinux` or `user` has no message in the inbox,
  so a reply can be queued for it. `StopWatching` and `ApplyUpdate` are the two lemmas about
  the registry, `SendKeeps` and `ReceiveKeeps` those about the inbox; there is one lemma per
  action, and `PoldInvariant` combines them into `PoldTypes`, `PoldOneOwner` and `PoldIndexExact`.
  They hold whatever freed memory reads and whatever the names are.
* Its second part takes `IInv` and adds three invariants. `Listed`: a watched app is listed
  under some id, so `fill_apps_to_remove`, which walks the lists, finds it; with it
  `RemovesAgentApps` proves `AgentAppsRemoved`, provided that an app has a valid user or group id
  (`SomeValidId`): one without any would be watched under nothing and never found. `Departed`: a name
  whose departure is in the inbox is off the bus, so whatever a departure's handler drops had a
  reason. `Followed`: `Subscribed`, strengthened to agents that are no longer registered. With
  these `KeepsOtherApps` and `StaysSubscribed` prove `OtherAppsKept` and `Subscribed`, provided
  that no agent's name is a prefix of another's (`PrefixFree`) and freed memory reads as it did or
  as nothing (`MemoryIntact`). The run `prefix_name` shows that the first of the two is needed.
* Its third part is about orderly clients (`OrderlySpec`), to which `OrderlyRefines` carries
  everything above. `DepartedForgotten` is inductive once it is told from the registry's side:
  who has a path is on the bus and watched, or its departure waits (`AgentsFollowed`), and the same
  of watched apps (`AppsFollowed`). `LeavingKept` says that a departure in the queue stays there
  until its own handler runs, `LeavesMatched` that nobody leaves unseen for whom there is a match rule.
  For what agents know, `OrderlyInv` adds to `IInv`, `Listed` and `Orderly` that a watched app's agent
  has a path (`WatchedRegistered`: an update that meets one without ends early), that the default
  policy has an id (`DefaultNamed`: otherwise `replace_id_if_empty` destroys it), and `InStep`: what pold
  recorded, what the agent was told and what is in force are one policy. `UserServes`,
  `UpdateServes` and `RemovalServes` say for the three kinds of steps that matter what they leave behind,
  `FailureChangesNothing` that an answer refused leaves all policies as they were. From `InStep` follow
  `RecordTrue` and `UpdatesReachAll`; `StepImplements` maps each step to one of `PolicyDistribution`
  (`user_cb` subscribes, a removal unsubscribes, an update publishes, everything else stutters),
  hence `Implements`. The hypotheses: every object the server sends has an `Id` (`PoliciesLoad`), every app
  a valid user or group id (`SomeValidId`), the freed message still reads as it was (`MessageIntact`),
  the default policy has an `Id`, and a name is a prefix of itself (`OwnPrefix`). The constants of the
  run `orderly` satisfy all of them, and the inductive invariants were model-checked on it first.
* `PolicyStore_proofs`: `StoreInvariant` adds `Saving` to the types and `OneVersion`: while files are
  saved, the directory holds exactly the first `counter` elements of the answer being installed,
  and nothing else. That is what a crash or a failed write leaves (`NeverMixed`), and at the end of
  the loop it is the whole answer (`WholeAnswerLoaded`). `Saving` holds from the start because `deleted`
  waits for the last file to be gone: the mutant `KeepsOldFiles` breaks this and nothing else.
  `LoadFromFiles` carries the version from the files into the table.
* `GdbusWatch_proofs` is about what client code does to the lists while `message_filter` walks them.
  `HeapOK(h, c, D)` is the form of `ListsExact` that every operation keeps: the lists are sound
  (`Lists`), the rules at the bus counted (`Counted`), a name watch is a watch on a name (`Kinds`), ids are
  given once (`Fresh`), exactly the listener at `c` is locked (`Locks`), and a listener without watches is
  locked or noted in `D` (`Tidy`). There is one lemma per operation of `watch.c` (`HookKeeps`, `AddKeeps`,
  `FreeKeeps`, `RemoveKeeps`, ...), all of the form "`HeapOK` before gives `HeapOK` after, and the
  heap `Evolves`": old watches and listeners keep their rules, places and order, or go for good.
  `ClientKeeps` sums them up: it is what `message_filter` may rely on after any call. `ListsInv` adds the
  types and `Answers` (a reply to `GetNameOwner` comes for a service watch, if for any: its id is not
  given again); it is inductive, and implies `TypeOK` and `ListsExact`.
  `DeliveredOnce` needs `Turns`: a watch that was called is neither in the rest of the current
  list nor in a listener behind it, and one that is due still is, or has no function that fits. A
  call moves only its own watch (`Undisturbed`, `Over`); going to the next listener passes over
  exactly those the signal does not fit (`TurnsTaken`), which uses that a listener due for the signal
  keeps its cached owner. Both invariants were model-checked on the run `watches` first.
* Its second part compares what watches are told with what the bus says. `Kept` is all it needs
  of a step: old watches keep their kind and rule. `Reported` strengthens `DepartureReported` to all
  states: if a disconnect watch was last told that its peer is present, and it is not, then the
  departure waits in the queue, or is the current message and due to the watch. The bus sends it
  to whoever has a rule (`Listens`); taken from the queue it becomes due (`MessageReported`); at the
  end of the message nothing is due any more (`EndReported`), which is where `Turns` is used.
  `Words` lists what watches are told, and by whom (`FilterSays`).
  For `KnowsPresence`, `Hears(w)` is what a service watch will have been told once its turn in
  the current message is over. `Knows` says that the queue is up to date for each name that is not
  in doubt (`UpToDate`: the last news of it are true now), that there is one reply per question
  (`Single`), and that each service watch is `Informed`: what it hears is so, or news
  of the name wait (`Aware`), or the reply it asked for says so, or is not sent yet; and a reply that says the
  name is there is true or followed by news (`Trusted`). The lemmas about queues say what
  taking a head (`...Shifted`) and appending a signal or reply (`...Appended`) leave of each of these; `SetKnows`
  combines them for all steps that change the heap: the client's, `update_service`, the reply, and the
  calls of the filters, each of which settles the question of one watch at most (`Settles`). `AtMatch`
  says that a service listener is only locked for a signal about its name, so the watch called
  hears what it was to hear (`CalledHears`).
* `GdbusCalls_proofs`: `OnlyAuthorized` needs the ids. `Invariant` says that every entry of
  `pending_security` belongs to the call its id was given to (`Due`), and that every answer under
  way is about an id that was asked about, and says "yes" only of a call that was authorized
  (`Earned`). Both outlast every step because ids are given once and authorizations are not
  taken back (`Remembers`); so the entry that `g_dbus_pending_success` finds by an id is the one of
  the call the answer was about.
  Its second part proves `AnsweredOnce` by `Placed`. A call is in one of seven places, twice in no queue
  and with two entries in no list; each step moves one call at most (`Moves`), and
  only from where it is: a call taken from the queue is in no list (`TakenOnce`), one released from a
  list is in no queue (`ReleasedOnce`), so that whatever answers it is the first to do so.

* `PoldAndConnman_proofs` is about what lies in the two queues when the two processes come and go. A
  step takes at most the head of each queue and adds some messages behind (`Step`, `Moved`), so each
  handler is first summarised by what it takes, sends and changes (`PoldSeen`, `RegistrationAnswered`,
  `PoldLeaves`, ...; these lemmas keep `Typed`, the types with those of the messages, and give `TypesHold`).
  `Agreed` is the inductive invariant of the registration. `Numbers`: no process or call is mentioned before it
  is made, so a new process of ConnMan is unknown to pold. `Orderly`: the plugin is in one of four states
  (not registering; waiting for the answer; registered; stuck with its interface), and which answers
  to `RegisterAgent` can still be in its queue in each of them: an answer of an earlier pold is behind
  that pold's disappearance (`Late`), and no later appearance makes the plugin take it for its own (`Excused`).
  With it, `Once`: pold gets one `RegisterAgent` from each process, and only if it does not know it.
  `Progress` says that it goes on: whoever is out will hear that pold is there, or ConnMan's `GetNameOwner` is
  still to be answered (`Awaits`); whoever waits has a request or an answer on its way, or will hear that pold is
  gone; whoever is registered is known to pold, or will hear that it is gone. In a quiet state nothing is on its
  way, which leaves one of the four states only. `BehindAppearance`, `Deserted` and `TidingsKeepAgent` are the lemmas
  for the steps that change the state of the registration; `AgentKeeps` is that for all others.
  `Registration` and `Progress` are claimed only until the registration's timer fires (`NoTimer`): after that, an
  answer may belong to either of two calls. All of `Agreed` was model-checked on the run `connman` first.
* Its second part is about the sessions. `Steps` sums up what any step does to the queues and the sessions.
  `Attended` adds three invariants to `Agreed`. `Waiting`: a session being created waits
  for the registration, for an answer of pold, or is one whose answer came without arguments (`silent`; `Silenced` is what
  such a reply changes). `Departures`: what ConnMan hears of an owner that left is never
  about the pold that has a session or asks for one. `Answerable`: of each `CreateSession` call
  of pold the request, the maker or the reply exists. In a quiet state nothing is on its way, so nobody waits
  (`NoneWaits`); if pold left a request unanswered or the registration timed out, that is excepted, as in the property.
* For `PathKnown`: `Paths` says that the path pold has, or is being told, is that of its own session with the present
  ConnMan, or that news follow (`HasBehind`: that ConnMan appeared, or the session's release) which end
  it. `Found` says the converse: a session of pold's is known to it or its reply is on the way. It is claimed only as long as no
  call overlapped with another and none timed out, and needs `Single`: there is one call at a time, one
  request or one maker or one reply for it, and who has a session of pold's has joined it or is to be confirmed.
  `PathSettles` combines the two.
* For `PoliciesCurrent`, `Fresh` is what can be said of a policy anywhere at any time: it is of an earlier pold, or pold
  watches the owner, only updates from this pold are in the queue behind (`OursBehind`), and the policy is the newest, or
  the newest is not one the plugin accepts, or an update for the owner is behind too (`UpToDate`, `UpdateBehind`). `OursBehind` is
  needed because a refused update from an earlier pold could still spoil a good policy. pold's own session is left out: its
  policy never changes.
  `Written` says this of the plugin's sessions, `Carried` of answers and updates under way, and `Heeded` says that an
  update finds the agent registered. `CurrentFollows` shows it for the steps that leave the policies alone, `NewestAll` for
  an update, which tells every owner that is watched. It is claimed while no owner was orphaned and no registration was lost,
  as the property is. The parts were model-checked on the instance of the run `connman` first.
* `GdbusObject_proofs` is about the tree of objects and what a listener is told of it, for any finite set of
  interfaces and any set of paths, each with the list of those above it (`ObjectAssumption`: the list of a path above
  ends the lists of those below it). The code's functions change several things at once, so each is first described by
  a predicate of the heap before and after: `Added`, `Removed`, `Processed`, `Announced`, `Created`, `Relinked`, `Freed`, ...; the
  parts of the invariant are then shown to be kept by these predicates, one part at a time.
  `IInv` is the inductive invariant. At any time: the types (`Typed`), one reference for each interface that counts
  (`Counted`), no object without one (`Held`), and each change that waits does so under its object's flag, or its flag was
  lost (`Waits`). As long as no pointer dangles, `Sound`: the tree is right but for misplaced objects (`Tree`);
  the listener knows an interface exactly if it is registered and not still to be announced, or removed and not
  yet said to be (`Tells`); and a value it has not been told of is in the list of changes, or will be told with
  its interface (`Stale`). Besides, cached introspections are `Fresh`, the interface of the object manager is registered at the root
  exactly while there is one, and nowhere else (`Managed`), and then the root is an object (`Rooted`).
  `Hung` is the part no property mentions and several need: once the object manager is there, an object whose interfaces
  are not excused has a parent, and so have those above it. `remove_interface` says nothing of an object without a
  parent, so without `Hung` an interface that was announced could go unannounced; and parents are
  handed down when an object between two others is freed, so it must be said of all those above.
  `Done(h, l)` is what each call yields for its heap `h`, with `l` the changes whose flag is lost; `Settles`
  turns it into `IInv'`, whatever the history variables then forget. `Ready` is what a flush may rely on in the middle
  of a call, `FlushSound` what it leaves. `Spoken` is kept beside `IInv` for `SignalsInOrder`: what was said last was said
  when nothing waited. For `ManagedExact`, `InPlaceReached` shows that each object with nothing misplaced above it is found from the
  root, by taking the one with the fewest objects above it that is not.
  `IInv` and `Spoken` were model-checked on the run `objects` first. That showed
  that detaching the object manager loses the flag of the root's changes as removing any interface does, which the model
  had recorded for `g_dbus_unregister_interface` only; `LoseFlag` now belongs to both.

Only model-checked: the liveness properties and `DocumentArrives`. The prover cannot
do liveness under fairness (`Answered`, `Converges`, `LearnsPresence`), ENABLED, or induction over data: the
theorem about the loop of `get_active_policy` is an invariant of the loop's steps, not an
induction over the list; and `DbusJson` is recursive, so that `DocumentArrives` stays with TLC.

## 6. Not modelled

* Logging, option parsing, the order of the init and final functions of `main.c`: nothing is
  concurrent with them.
* `gdbus/client.c`: not in the build. What it would do with the object manager's signals is
  the listener of `GdbusObject`.
* The plugin's choice of a ConnMan service (scores, autoconnect): it reads the policies and
  changes no state of theirs.
* Which text a signal, reply or introspection has, beyond the names in it.
* Memory that is merely leaked.
