----------------------------- MODULE GdbusWatch -----------------------------
(* The watches of gdbus (gdbus/watch.c): who is called for which signal.     *)
(* A listener (filter_data) stands for one match rule and has a list of      *)
(* watches (filter_callback). message_filter walks the listeners, and each   *)
(* callback it makes may itself add and remove watches, so a step here is    *)
(* one callback with what it does; what lies between two callbacks belongs   *)
(* to the step before. The bus daemon and the names on it are the            *)
(* environment.                                                              *)
EXTENDS Naturals, FiniteSets, SequencesExt

CONSTANTS
  Name,          \* well-known names
  Unique,        \* unique names, those that start with ':'
  Bus,           \* the bus daemon, the sender of NameOwnerChanged
  Topic,         \* path, interface and member of a signal
  OwnerChanged,  \* the topic of NameOwnerChanged
  Serviceable,   \* what service watches are put on
  SignalRules,   \* the <<sender, topic>> of signal watches; NULL is "any"
  MaxRules,      \* the bus daemon's limit of match rules per connection
  MaxId,         \* bound: watches ever added
  MaxInbox,      \* bound: signals are sent while the queue is shorter
  Garbage,       \* what a freed string may read as
  NULL, Nobody   \* no pointer; the empty string as an owner

ASSUME WatchAssumption ==
  /\ OwnerChanged \in Topic
  /\ Serviceable \subseteq Name \cup Unique
  /\ SignalRules \subseteq (Name \cup Unique \cup {NULL}) \X (Topic \cup {NULL})
  /\ NULL \notin Name \cup Unique \cup Topic /\ Bus \notin Name \cup Unique
  /\ IsFiniteSet(Name \cup Unique) /\ IsFiniteSet(SignalRules)
  /\ {MaxRules, MaxId, MaxInbox} \subseteq Nat

VARIABLES
  heap,      \* the module's own data, see HeapType
  current,   \* the listener message_filter is at, 0 outside of it
  message,   \* the signal it filters
  doomed,    \* its delete_listener
  owner,     \* the bus: who owns a name; a unique name owns itself
  inbox,     \* signals and replies received and not yet dispatched
  status,    \* "running", or "undefined" once freed memory is used
  told,      \* history: what each watch's functions were last called with
  called,    \* history: which watches this message is due to, or was given to
  doubtful   \* history: names whose owner was once read from an old place

vars == <<heap, current, message, doomed, owner, inbox, status, told, called, doubtful>>
filtering == <<current, message, doomed>>

Id == 1 .. MaxId
Sender == Name \cup Unique
ServiceRule(n) == [name |-> NULL, owner |-> NULL, topic |-> OwnerChanged, argument |-> n]
SignalRule(s, t) ==
  [name |-> IF s \in Name THEN s ELSE NULL, owner |-> IF s \in Unique THEN s ELSE NULL,
   topic |-> t, argument |-> NULL]

RuleInUse ==
  {ServiceRule(n) : n \in Sender} \cup {SignalRule(r[1], r[2]) : r \in SignalRules}

(* "name" is the watch a signal watch puts on its sender's name.             *)
CallbackType == {"service", "disconnect", "signal", "name"}
Callback == [type : CallbackType, listener : Id,
             check : {NULL, "asked"} \cup Unique \cup {Nobody, Garbage}]
Listener ==
  [rule : RuleInUse, owner : Unique \cup {NULL, Nobody, Garbage},
   callbacks : Seq(Id), processed : Seq(Id), lock : BOOLEAN, name_watch : Id \cup {0}]
Signal == [sender : Unique \cup {Bus}, topic : Topic,
           argument : Sender \cup {NULL}, new : Unique \cup {NULL, Nobody}]
Reply == [watch : Id, owner : Unique \cup {Nobody}]

ASSUME RecordsAssumption ==
  NULL \notin Listener /\ NULL \notin Callback /\ NULL \notin Signal /\ NULL # "asked"

(* listeners is the list, listener its elements by the id of their first     *)
(* watch; rules counts the match rules the bus holds.                        *)
HeapType ==
  [listeners : Seq(Id), listener : [Id -> Listener \cup {NULL}],
   watch : [Id -> Callback \cup {NULL}], listener_id : 0 .. MaxId,
   rules : [RuleInUse -> 0 .. MaxRules]]

EmptyHeap ==
  [listeners |-> <<>>, listener |-> [l \in Id |-> NULL], watch |-> [w \in Id |-> NULL],
   listener_id |-> 0, rules |-> [r \in RuleInUse |-> 0]]

Live(h) == {w \in Id : h.watch[w] # NULL}
Pending(h) == {w \in Live(h) : h.watch[w].check # NULL}
-----------------------------------------------------------------------------
(* The lists. *)

(* filter_data_find_match compares the owner too, which the name cache fills *)
(* in: a listener whose sender has become known is not found again.          *)
filter_data_find_match(h, rule) ==
  SelectInSeq(h.listeners, LAMBDA l :
    h.listener[l].rule = rule /\ h.listener[l].owner = rule.owner)

RulesHeld(h) ==
  Cardinality({c \in RuleInUse \X (1 .. MaxRules) : c[2] <= h.rules[c[1]]})

(* filter_data_get and filter_data_add_callback: the heap after, unchanged   *)
(* if the bus refuses the rule.                                              *)
Hooked(h, id, l, type) ==
  LET list == IF h.listener[l].lock THEN "processed" ELSE "callbacks"
  IN  [h EXCEPT !.listener[l][list] = Append(@, id), !.listener_id = id,
                !.watch[id] = [type |-> type, listener |-> l, check |-> NULL]]
Listening(h, l, rule) ==
  [h EXCEPT !.listeners = Append(@, l), !.rules[rule] = @ + 1,
            !.listener[l] = [rule |-> rule, owner |-> rule.owner, callbacks |-> <<>>,
                             processed |-> <<>>, lock |-> FALSE, name_watch |-> 0]]

IgnoresRefusal(h, rule, type) ==
  LET id == h.listener_id + 1
      found == filter_data_find_match(h, rule)
      h1 == Listening(h, id, rule)
  IN  CASE found # 0 -> Hooked(h, id, h.listeners[found], type)
        [] found = 0 /\ RulesHeld(h) < MaxRules -> Hooked(h1, id, id, type)
        [] OTHER -> Hooked([h1 EXCEPT !.rules = h.rules], id, id, type)

(* The bus refuses a rule only because the connection has MaxRules of them,  *)
(* so never the first one, which message_filter is installed for: refused,   *)
(* it would leave the filter to be installed, and to run, a second time.     *)
AddCallback(h, rule, type) ==
  LET id == h.listener_id + 1
      found == filter_data_find_match(h, rule)
  IN  CASE found # 0 -> Hooked(h, id, h.listeners[found], type)
        [] found = 0 /\ RulesHeld(h) < MaxRules -> Hooked(Listening(h, id, rule), id, id, type)
        [] OTHER -> h

(* The owner cached by the first listener for signals of that name.          *)
check_name_cache(h, n) ==
  LET i == SelectInSeq(h.listeners, LAMBDA l : h.listener[l].rule.name = n)
  IN  IF i = 0 THEN NULL ELSE h.listener[h.listeners[i]].owner

update_name_cache(h, n, new) ==
  [h EXCEPT !.listener = [l \in Id |->
     IF h.listener[l] # NULL /\ h.listener[l].rule.name = n
     THEN [h.listener[l] EXCEPT !.owner = new] ELSE h.listener[l]]]

SkipsKnown(h, n) == IF check_name_cache(h, n) = NULL THEN "asked" ELSE NULL

check_service(h, n) ==
  LET cached == check_name_cache(h, n)
  IN  IF cached = NULL THEN "asked" ELSE cached

g_dbus_add_service_watch(h, n, type) ==
  LET h1 == AddCallback(h, ServiceRule(n), type)
  IN  IF h1 # h /\ type = "service"
      THEN [h1 EXCEPT !.watch[h1.listener_id].check = check_service(h1, n)] ELSE h1

g_dbus_add_signal_watch(h, s, t) ==
  LET h1 == AddCallback(h, SignalRule(s, t), "signal")
      l == h1.watch[h1.listener_id].listener
      h2 == g_dbus_add_service_watch(h1, s, "name")
  IN  IF h1 = h \/ s \notin Name THEN h1
      ELSE IF h1.listener[l].name_watch # 0 \/ h2 = h1 THEN h1
      ELSE [h2 EXCEPT !.listener[l].name_watch = h2.listener_id]

RemovesMatchTwice(h, l) ==
  [h EXCEPT !.listeners = RemoveFirst(@, l), !.listener[l] = NULL,
            !.rules[h.listener[l].rule] = @ - 2]

(* remove_match and filter_data_free, apart from the name watch.             *)
Unlisten(h, l) ==
  [h EXCEPT !.listeners = RemoveFirst(@, l), !.listener[l] = NULL,
            !.rules[h.listener[l].rule] = @ - 1]

ForgetsProcessed(h, w) ==
  [h EXCEPT !.listener[h.watch[w].listener].callbacks = RemoveFirst(@, w), !.watch[w] = NULL]

(* What filter_data_remove_callback does first, and whether the listener     *)
(* then goes too.                                                            *)
Unhook(h, w) ==
  LET l == h.watch[w].listener
  IN  [h EXCEPT !.listener[l].callbacks = RemoveFirst(@, w), !.listener[l].processed = RemoveFirst(@, w),
                !.watch[w] = NULL]
Spare(h, l) == h.listener[l].callbacks = <<>> /\ ~h.listener[l].lock

(* The listener of a name watch has no name watch itself.                    *)
filter_data_free(h, l) ==
  LET nw == h.listener[l].name_watch
      h1 == Unlisten(h, l)
  IN  IF nw \notin Live(h1) THEN h1
      ELSE LET h2 == Unhook(h1, nw)
               service == h1.watch[nw].listener
           IN  IF Spare(h2, service) THEN Unlisten(h2, service) ELSE h2

filter_data_remove_callback(h, w) ==
  LET h1 == Unhook(h, w)
      l == h.watch[w].listener
  IN  IF Spare(h1, l) THEN filter_data_free(h1, l) ELSE h1

(* What a piece of client code may do: nothing, add a watch or remove one.   *)
(* Each watch, with the one on its sender's name, needs an id.               *)
ClientCode(h) ==
  {h}
  \cup {g_dbus_add_service_watch(h, n, type) :
          n \in IF h.listener_id < MaxId THEN Serviceable ELSE {}, type \in {"service", "disconnect"}}
  \cup {g_dbus_add_signal_watch(h, r[1], r[2]) :
          r \in IF h.listener_id + 1 < MaxId THEN SignalRules ELSE {}}
  \cup {filter_data_remove_callback(h, w) : w \in {v \in Live(h) : h.watch[v].type # "name"}}
-----------------------------------------------------------------------------
(* message_filter. *)

Idle == status = "running" /\ current = 0 /\ message = NULL
Waiting == (ToSet(inbox) \cap Signal) \cup ({message} \ {NULL})
Present == {n \in Sender : owner[n] # Nobody}

(* What the code compares of a signal with a listener. An owner never known  *)
(* (NULL) lets any sender pass, the empty one none.                          *)
Matches(f, m) ==
  /\ f.owner \in {NULL, m.sender}
  /\ f.rule.topic \in {NULL, m.topic}
  /\ f.rule.argument \in {NULL, m.argument}

IsService(f) == f.rule.argument # NULL

(* The next matching listener behind position i, or 0.                       *)
NextMatch(h, i, m) ==
  LET S == {j \in DOMAIN h.listeners : j > i /\ Matches(h.listener[h.listeners[j]], m)}
  IN  IF S = {} THEN 0 ELSE h.listeners[Min(S)]

(* A listener is locked while its functions are called; service_filter       *)
(* starts with the name cache.                                               *)
Lock(h, l, m) ==
  LET h1 == [h EXCEPT !.listener[l].lock = TRUE]
  IN  IF IsService(h.listener[l]) THEN update_name_cache(h1, m.argument, m.new) ELSE h1

Enter(h, i, m) ==
  LET l == NextMatch(h, i, m)
  IN  /\ current' = l
      /\ heap' = IF l = 0 THEN h ELSE Lock(h, l, m)

(* The watches a message must reach. A listener for a name's signals is left *)
(* out: its cached owner may change before message_filter gets there.        *)
Due(w, m) ==
  /\ w \in Live(heap)
  /\ LET f == heap.listener[heap.watch[w].listener] IN f.rule.name = NULL /\ Matches(f, m)

message_filter ==
  /\ Idle
  /\ inbox # <<>> /\ Head(inbox) \in Signal
  /\ inbox' = Tail(inbox)
  /\ Enter(heap, 0, Head(inbox))
  /\ message' = IF current' = 0 THEN NULL ELSE Head(inbox)
  /\ called' = [w \in Id |-> IF Due(w, Head(inbox)) THEN "due" ELSE "new"]
  /\ UNCHANGED <<doomed, owner, status, told, doubtful>>

(* After a function has been called and has changed the heap to h, the watch *)
(* is removed, or put off to the processed ones, unless it is gone already.  *)
Processed(h, l, w) ==
  [h EXCEPT !.listener[l].callbacks = RemoveFirst(@, w), !.listener[l].processed = Append(@, w)]
MovesHead(h, l, w, remove) ==
  IF h.listener[l].callbacks = <<>> THEN h
  ELSE IF remove /\ h.watch[w] # NULL THEN filter_data_remove_callback(h, w)
  ELSE Processed(h, l, Head(h.listener[l].callbacks))

AfterCall(h, l, w, remove) ==
  IF ~Contains(h.listener[l].callbacks, w) THEN h
  ELSE IF remove THEN filter_data_remove_callback(h, w) ELSE Processed(h, l, w)

(* The history of what is done to the heap. A rule is added at a time when   *)
(* an older NameOwnerChanged still waits: others may have been lost. said is *)
(* what the watches were told; a new one starts with what is so.             *)
SetHeap(h, said) ==
  /\ heap' = h
  /\ doubtful' = doubtful \cup
       {n \in Sender : /\ heap.rules[ServiceRule(n)] = 0 /\ h.rules[ServiceRule(n)] > 0
                       /\ n \in {m.argument : m \in Waiting}}
  /\ told' = [w \in Id |->
       IF h.watch[w] = NULL \/ h.watch[w].type \in {"signal", "name"} THEN NULL
       ELSE IF heap.watch[w] # NULL THEN said[w]
       ELSE IF h.listener[h.watch[w].listener].rule.argument \in Present THEN "present"
       ELSE "absent"]

Says(w, what) == [told EXCEPT ![w] = what]
Called(w) ==
  called' = [called EXCEPT ![w] = IF @ = "called" THEN "again" ELSE "called"]

(* The functions of the watch at the head of the list that fit the message.  *)
HasFunction(type, new) ==
  \/ type = "service"
  \/ type = "disconnect" /\ new = Nobody

service_filter ==
  /\ status = "running" /\ current # 0
  /\ IsService(heap.listener[current]) /\ heap.listener[current].callbacks # <<>>
  /\ LET w == Head(heap.listener[current].callbacks)
         type == heap.watch[w].type
         \* one function of two, and the name never comes back
         remove == message.argument \in Unique /\ type # "service"
     IN  IF HasFunction(type, message.new)
         THEN /\ \E h \in ClientCode(heap) :
                   SetHeap(AfterCall(h, current, w, remove),
                           Says(w, IF message.new = Nobody THEN "disconnected" ELSE "connected"))
              /\ Called(w)
         ELSE /\ SetHeap(AfterCall(heap, current, w, remove), told)
              /\ UNCHANGED called
  /\ UNCHANGED <<filtering, owner, inbox, status>>

(* A signal function asks to be removed by returning FALSE.                  *)
signal_filter ==
  /\ status = "running" /\ current # 0
  /\ ~IsService(heap.listener[current]) /\ heap.listener[current].callbacks # <<>>
  /\ LET w == Head(heap.listener[current].callbacks)
     IN  /\ \E h \in ClientCode(heap), remove \in BOOLEAN :
              /\ remove => w \in Live(h)
              /\ SetHeap(AfterCall(h, current, w, remove), told)
         /\ Called(w)
  /\ UNCHANGED <<filtering, owner, inbox, status>>

(* All watches of the listener have been called: it is unlocked, noted if it *)
(* is empty, and the next one locked.                                        *)
Unlock(h, l) ==
  [h EXCEPT !.listener[l].callbacks = h.listener[l].processed,
            !.listener[l].processed = <<>>, !.listener[l].lock = FALSE]

next_listener ==
  /\ status = "running" /\ current # 0 /\ heap.listener[current].callbacks = <<>>
  /\ LET h == Unlock(heap, current)
         i == SelectInSeq(h.listeners, LAMBDA l : l = current)
     IN  /\ doomed' = IF h.listener[current].callbacks = <<>> THEN <<current>> \o doomed
                      ELSE doomed
         /\ Enter(h, i, message)
  /\ UNCHANGED <<message, owner, inbox, status, told, called, doubtful>>

(* The loop over delete_listener always goes on with its second element: it  *)
(* is right for one listener, never ends or reads freed memory for several.  *)
(* A listener noted may have got watches since, or be gone.                  *)
AtEnd == status = "running" /\ current = 0 /\ message # NULL
delete_listener ==
  /\ AtEnd
  /\ message' = NULL /\ doomed' = <<>> /\ called' = [w \in Id |-> "new"]
  /\ CASE doomed = <<>> -> UNCHANGED <<heap, status>>
       [] Len(doomed) = 1 /\ heap.listener[doomed[1]] # NULL ->
            /\ heap' = IF heap.listener[doomed[1]].callbacks # <<>> THEN heap
                       ELSE filter_data_free(heap, doomed[1])
            /\ UNCHANGED status
       [] OTHER -> status' = "undefined" /\ UNCHANGED heap
  /\ UNCHANGED <<current, owner, inbox, told, doubtful>>
-----------------------------------------------------------------------------
(* A service watch asks who owns the name when it is added. *)

NameOf(w) == heap.listener[heap.watch[w].listener].rule.argument

(* update_service, after service_data_free. A cached owner is a pointer into *)
(* the cache, which update_name_cache frees before it copies from it.        *)
Appeared(w, read, how) ==
  LET h == update_name_cache(heap, NameOf(w), read)
  IN  /\ \E h1 \in ClientCode([h EXCEPT !.watch[w].check = NULL]) : SetHeap(h1, Says(w, how))

update_service(w) ==
  /\ Idle
  /\ heap.watch[w] # NULL /\ heap.watch[w].check \notin {NULL, "asked"}
  /\ \E read \in {heap.watch[w].check, Garbage} : Appeared(w, read, "cached")
  /\ UNCHANGED <<filtering, owner, inbox, status, called>>

IgnoresOwner ==
  /\ Idle /\ inbox # <<>> /\ Head(inbox) \in Reply
  /\ inbox' = Tail(inbox)
  /\ IF heap.watch[Head(inbox).watch] = NULL THEN UNCHANGED <<heap, told, doubtful>>
     ELSE SetHeap([heap EXCEPT !.watch[Head(inbox).watch].check = NULL], told)
  /\ UNCHANGED <<filtering, owner, status, called>>

(* The pending call of a watch that was removed is cancelled.                *)
service_reply ==
  /\ Idle /\ inbox # <<>> /\ Head(inbox) \in Reply
  /\ inbox' = Tail(inbox)
  /\ LET w == Head(inbox).watch
     IN  CASE heap.watch[w] = NULL -> UNCHANGED <<heap, told, doubtful>>
           [] heap.watch[w] # NULL /\ Head(inbox).owner = Nobody ->
                SetHeap([heap EXCEPT !.watch[w].check = NULL], told)
           [] OTHER -> Appeared(w, Head(inbox).owner, "connected")
  /\ UNCHANGED <<filtering, owner, status, called>>

(* The rest of the program, between two messages.                            *)
Client ==
  /\ Idle
  /\ \E h \in ClientCode(heap) \ {heap} : SetHeap(h, told)
  /\ UNCHANGED <<filtering, owner, inbox, status, called>>

(* filter_data_call_and_free frees the watches, then filter_data_free frees  *)
(* them again.                                                               *)
g_dbus_remove_all_watches ==
  /\ Idle /\ Live(heap) # {}
  /\ status' = "undefined" /\ heap' = EmptyHeap
  /\ UNCHANGED <<filtering, owner, inbox, told, called, doubtful>>
-----------------------------------------------------------------------------
(* The bus. *)

Connected == {u \in Unique : owner[u] = u}

(* The bus daemon resolves the names in the rules itself.                    *)
Subscribed(m) ==
  \E r \in RuleInUse :
    /\ heap.rules[r] > 0
    /\ r.owner \in {NULL, m.sender}
    /\ r.name # NULL => owner[r.name] = m.sender
    /\ r.topic \in {NULL, m.topic} /\ r.argument \in {NULL, m.argument}

Deliver(m) == inbox' = IF Subscribed(m) THEN Append(inbox, m) ELSE inbox
NameOwnerChanged(n, new) ==
  [sender |-> Bus, topic |-> OwnerChanged, argument |-> n, new |-> new]
EnvironmentMay ==
  status = "running" /\ Len(inbox) < MaxInbox /\ UNCHANGED <<heap, filtering, status, told, called, doubtful>>

RequestName(n, u) ==
  /\ EnvironmentMay
  /\ u \in Connected /\ owner[n] = Nobody
  /\ owner' = [owner EXCEPT ![n] = u]
  /\ Deliver(NameOwnerChanged(n, u))

ReleaseName(n) ==
  /\ EnvironmentMay
  /\ owner[n] # Nobody
  /\ owner' = [owner EXCEPT ![n] = Nobody]
  /\ Deliver(NameOwnerChanged(n, Nobody))

(* A client that leaves loses its names first. Unique names do not return.   *)
Disconnect(u) ==
  /\ EnvironmentMay
  /\ u \in Connected /\ \A n \in Name : owner[n] # u
  /\ owner' = [owner EXCEPT ![u] = Nobody]
  /\ Deliver(NameOwnerChanged(u, Nobody))

EmitSignal(u, t) ==
  /\ EnvironmentMay
  /\ u \in Connected
  /\ Deliver([sender |-> u, topic |-> t, argument |-> NULL, new |-> NULL])
  /\ UNCHANGED owner

(* The bus answers GetNameOwner at once: what it sends keeps its order.      *)
GetNameOwner(w) ==
  /\ status = "running"
  /\ heap.watch[w] # NULL /\ heap.watch[w].check = "asked"
  /\ \A i \in DOMAIN inbox : inbox[i] \in Reply => inbox[i].watch # w
  /\ inbox' = Append(inbox, [watch |-> w,
                             owner |-> owner[NameOf(w)]])
  /\ UNCHANGED <<heap, filtering, owner, status, told, called, doubtful>>
-----------------------------------------------------------------------------
Init ==
  /\ heap = EmptyHeap
  /\ current = 0 /\ message = NULL /\ doomed = <<>>
  /\ owner = [n \in Sender |-> IF n \in Unique THEN n ELSE Nobody]
  /\ inbox = <<>> /\ status = "running"
  /\ told = [w \in Id |-> NULL] /\ called = [w \in Id |-> "new"]
  /\ doubtful = {}

Filter == message_filter \/ service_filter \/ signal_filter \/ next_listener \/ delete_listener
Environment ==
  \/ \E n \in Name : ReleaseName(n) \/ \E u \in Unique : RequestName(n, u)
  \/ \E u \in Unique : Disconnect(u) \/ \E t \in Topic \ {OwnerChanged} : EmitSignal(u, t)

Next ==
  \/ Filter \/ service_reply \/ Client \/ g_dbus_remove_all_watches
  \/ \E w \in Id : update_service(w) \/ GetNameOwner(w)
  \/ Environment

Spec == Init /\ [][Next]_vars

(* The main loop goes on dispatching messages and running idle sources, and  *)
(* the bus answers. A watch has at most one idle source or call.             *)
FairSpec ==
  /\ Spec
  /\ WF_vars(Filter \/ service_reply)
  /\ WF_vars(\E w \in Id : update_service(w)) /\ WF_vars(\E w \in Id : GetNameOwner(w))
-----------------------------------------------------------------------------
(* All variables keep their types: lists of watches that exist, a cached     *)
(* owner, a count of the rules at the bus.                                   *)
TypeOK ==
  /\ heap \in HeapType
  /\ current \in Id \cup {0} /\ message \in Signal \cup {NULL}
  /\ inbox \in Seq(Signal \cup Reply)
  /\ status \in {"running", "undefined"}

Quiet == Idle /\ inbox = <<>> /\ Pending(heap) = {}

(* Each watch is in one list of its listener, once, and the lists hold no    *)
(* watch that was removed - in the middle of message_filter as well, where   *)
(* watches are called, added and removed at the same time. The bus holds     *)
(* exactly the listeners' rules. Between two messages no listener is left    *)
(* without watches (its rule would stay at the bus for ever), locked, or     *)
(* with watches put aside.                                                   *)
Listed(l) == heap.listener[l].callbacks \o heap.listener[l].processed
ListsExact ==
  status = "running" =>
    /\ \A l \in Id : heap.listener[l] # NULL <=> Contains(heap.listeners, l)
    /\ \A l \in ToSet(heap.listeners) :
         /\ IsInjective(Listed(l))
         /\ ToSet(Listed(l)) = {w \in Live(heap) : heap.watch[w].listener = l}
         /\ Idle => /\ heap.listener[l].callbacks # <<>> /\ heap.listener[l].processed = <<>>
                    /\ ~heap.listener[l].lock
    /\ \A r \in RuleInUse :
         heap.rules[r] = Cardinality({l \in ToSet(heap.listeners) : heap.listener[l].rule = r})

(* A message reaches each watch it is due to that is not removed before its  *)
(* turn, and none twice, whatever the functions called do.                   *)
DeliveredOnce ==
  /\ \A w \in Id : called[w] # "again"
  /\ AtEnd => \A w \in Live(heap) :
       called[w] = "due" => heap.watch[w].type # "signal" /\ ~HasFunction(heap.watch[w].type, message.new)

(* When nothing is under way, a service watch was last told what is the case *)
(* - unless it was told from the cache, whose owner may have left since, or  *)
(* its rule was renewed while an older signal waited.                        *)
KnowsPresence ==
  Quiet => \A w \in Live(heap) :
    heap.watch[w].type = "service" /\ told[w] # "cached" /\ NameOf(w) \notin doubtful =>
      (told[w] = "connected" <=> NameOf(w) \in Present)

(* No departure is missed: a client that was there when a disconnect watch   *)
(* was put on it and has left since was reported, and the watch is gone. The *)
(* watch may have been added in any function, and share its rule.            *)
DepartureReported ==
  Quiet => \A w \in Live(heap) :
    heap.watch[w].type = "disconnect" /\ told[w] = "present" => NameOf(w) \in Present

(* Once a name is there for good, every service watch on it is told so, also *)
(* one that was added in a function, or while the last owner left. Signals   *)
(* must stop coming: they go before idle sources, such as update_service.    *)
Told(n) ==
  \A w \in Live(heap) : heap.watch[w].type = "service" /\ NameOf(w) = n =>
    told[w] \in {"connected", "cached"}
LearnsPresence ==
  \A n \in Name :
    <>[](n \in Present /\ inbox = <<>> /\ status = "running") => <>[]Told(n)
=============================================================================
