----------------------------- MODULE GdbusObject -----------------------------
(* The objects of gdbus (gdbus/object.c): which interfaces a connection      *)
(* exports at which path, and what a listener on the bus is told of them.    *)
(* Changes are collected for each object and announced by an idle source, or *)
(* before any other message is sent. The program that registers interfaces   *)
(* and the listener, which applies each signal of the object manager as it   *)
(* comes (gdbus/client.c does so), are the environment.                      *)
EXTENDS Naturals, FiniteSets, Functions, SequencesExt

CONSTANTS
  Path, Root,      \* object paths, and "/"
  Above,           \* for each path its prefixes, the longest first
  Interface,       \* interfaces of the program
  Propertied,      \* those that have properties
  Experimental,    \* those with nothing but experimental members
  Offered,         \* the <<path, interface>> the program registers
  Introspectable, Properties, ObjectManager,  \* interfaces gdbus adds itself
  NULL

ASSUME ObjectAssumption ==
  /\ Root \in Path /\ NULL \notin Path
  /\ Above \in [Path -> Seq(Path)]
  /\ \A p \in Path \ {Root} : Above[p] # <<>> /\ Last(Above[p]) = Root
  /\ Above[Root] = <<>>
  /\ \A p \in Path : \A i \in DOMAIN Above[p] :
       Above[Above[p][i]] = SubSeq(Above[p], i + 1, Len(Above[p]))
  /\ Propertied \subseteq Interface /\ Experimental \subseteq Interface
  /\ Offered \subseteq Path \X Interface
  /\ IsFiniteSet(Interface) /\ Interface \cap {Introspectable, Properties, ObjectManager} = {}
  /\ ObjectManager \notin {Introspectable, Properties} /\ Introspectable # Properties

VARIABLES
  heap,      \* the objects and the listener's picture of them, see HeapType
  spoke,     \* history: path and interface of the signal sent in this step
  excused,   \* history: what was announced in the wrong order, or too late
  misplaced, \* history: paths that lost their place in the tree
  lost       \* history: changed properties whose flag was taken back

vars == <<heap, spoke, excused, misplaced, lost>>
history == <<excused, misplaced, lost>>

Name == Interface \cup {Introspectable, Properties, ObjectManager}
Pair == Path \X Name
Xml == [interfaces : SUBSET Name, children : SUBSET Path]
Stub == [interfaces |-> {}, children |-> {}]

(* generic_data, with the pending_prop lists of its interfaces as "changed". *)
Object ==
  [refs : Nat, interfaces : SUBSET Name, added : SUBSET Name, removed : SUBSET Name,
   pending_prop : BOOLEAN, changed : SUBSET Name, introspect : Xml \cup {NULL},
   parent : Path \cup {NULL}, objects : SUBSET Path]

(* pending is pending_data, the objects whose process_id is set. The         *)
(* listener has been told of the interfaces in known; stale are those with a *)
(* property that has changed since its value was told.                       *)
HeapType ==
  [object : [Path -> Object \cup {NULL}], root : {Root, NULL}, pending : SUBSET Path,
   known : SUBSET Pair, stale : SUBSET Pair, dangling : BOOLEAN]

ASSUME NullAssumption == NULL \notin Object /\ NULL \notin Xml /\ NULL \notin Pair

Live(h) == {p \in Path : h.object[p] # NULL}
Registered(h) == UNION {{p} \X h.object[p].interfaces : p \in Live(h)}
-----------------------------------------------------------------------------
(* Announcements. Without an object manager there is nobody to tell, and the *)
(* lists are kept.                                                           *)

add_pending(h, p) == [h EXCEPT !.pending = @ \cup {p}]

emit_interfaces_added(h, p) ==
  IF h.root \in {NULL, p} THEN h
  ELSE [h EXCEPT !.known = @ \cup {p} \X h.object[p].added,
                 !.stale = @ \ ({p} \X h.object[p].added), !.object[p].added = {}]

emit_interfaces_removed(h, p) ==
  IF h.root \in {NULL, p} THEN h
  ELSE [h EXCEPT !.known = @ \ ({p} \X h.object[p].removed), !.object[p].removed = {}]

(* The flag of the object is reset for the changes of one interface.         *)
process_properties_from_interface(h, p, i) ==
  [h EXCEPT !.object[p].pending_prop = FALSE, !.object[p].changed = @ \ {i},
            !.stale = IF i \in h.object[p].changed THEN @ \ {<<p, i>>} ELSE @]

process_property_changes(h, p) ==
  [h EXCEPT !.object[p].pending_prop = FALSE, !.object[p].changed = {},
            !.stale = @ \ ({p} \X h.object[p].changed)]

process_changes(h, p) ==
  LET h1 == emit_interfaces_added([h EXCEPT !.pending = @ \ {p}], p)
      h2 == IF h.object[p].pending_prop THEN process_property_changes(h1, p) ELSE h1
  IN  emit_interfaces_removed(h2, p)

FlushesFirst(h) == IF h.pending = {} THEN h ELSE process_changes(h, CHOOSE p \in h.pending : TRUE)

(* Objects do not share what they announce: the order is of no account.      *)
g_dbus_flush(h) ==
  LET Of(p) == IF p \in h.pending THEN process_changes(h, p) ELSE h
  IN  [h EXCEPT !.pending = {},
                !.object = [p \in Path |-> Of(p).object[p]],
                !.known = {pair \in Pair : pair \in Of(pair[1]).known},
                !.stale = {pair \in Pair : pair \in Of(pair[1]).stale}]
-----------------------------------------------------------------------------
(* Interfaces. *)

(* An object without a parent is not announced: the root, or one that was    *)
(* there before any object above it.                                         *)
add_interface(h, p, i) ==
  LET h1 == [h EXCEPT !.object[p].interfaces = @ \cup {i}]
  IN  IF h.object[p].parent = NULL THEN h1
      ELSE add_pending([h1 EXCEPT !.object[p].added = @ \cup {i}], p)

KeepsAdded(h, p, i) ==
  IF i \in h.object[p].added THEN [h EXCEPT !.object[p].interfaces = @ \ {i}]
  ELSE add_pending([h EXCEPT !.object[p].interfaces = @ \ {i}, !.object[p].removed = @ \cup {i}], p)

remove_interface(h, p, i) ==
  LET h1 == [process_properties_from_interface(h, p, i) EXCEPT
               !.object[p].interfaces = @ \ {i}, !.stale = @ \ {<<p, i>>}]
  IN  CASE i \notin h.object[p].interfaces -> h
        [] i \in h.object[p].added -> [h1 EXCEPT !.object[p].added = @ \ {i}]
        [] i \in h.object[p].interfaces \ h.object[p].added /\ h.object[p].parent = NULL -> h1
        [] OTHER -> add_pending([h1 EXCEPT !.object[p].removed = @ \cup {i}], p)
-----------------------------------------------------------------------------
(* The tree. *)

Nearest(h, p) ==
  LET i == SelectInSeq(Above[p], LAMBDA q : h.object[q] # NULL)
  IN  IF i = 0 THEN NULL ELSE Above[p][i]

(* For the path and each prefix of it: an object there is put below the next *)
(* object above, and what that one tells of its nodes is out of date.        *)
invalidate_parent_data(h, p) ==
  LET prefixes == ToSet(Above[p])
      linked == {c \in Live(h) \cap (prefixes \cup {p}) :
                   Nearest(h, c) # NULL /\ c \notin h.object[Nearest(h, c)].objects}
      Linked(q) == [h.object[q] EXCEPT
        !.introspect = IF q \in prefixes THEN NULL ELSE @,
        !.objects = @ \cup {c \in linked : Nearest(h, c) = q},
        !.parent = IF q \in linked THEN Nearest(h, q) ELSE @]
  IN  [h EXCEPT !.object = [q \in Path |-> IF q \in Live(h) THEN Linked(q) ELSE NULL]]

NewObject ==
  [refs |-> 1, interfaces |-> {}, added |-> {}, removed |-> {}, pending_prop |-> FALSE,
   changed |-> {}, introspect |-> Stub, parent |-> NULL, objects |-> {}]

object_path_ref(h, p) ==
  IF p \in Live(h) THEN [h EXCEPT !.object[p].refs = @ + 1]
  ELSE add_interface(invalidate_parent_data([h EXCEPT !.object[p] = NewObject], p),
                     p, Introspectable)

DropsPending(h, p) ==
  LET o == h.object[p]
  IN  [h EXCEPT !.pending = @ \ {p}, !.object = [q \in Path |->
         CASE q = p -> NULL
           [] q = o.parent -> [@[q] EXCEPT !.objects = @ \ {p}]
           [] q \in o.objects -> [@[q] EXCEPT !.parent = o.parent]
           [] OTHER -> @[q]]]

(* The objects below are given the parent of the one that goes, but are not  *)
(* put into its list. A pointer from elsewhere to the freed object remains:  *)
(* what it is used for then depends on what the memory is used for.          *)
generic_unregister(h, p) ==
  LET o == h.object[p]
      h1 == IF o.parent = NULL THEN h ELSE [h EXCEPT !.object[o.parent].objects = @ \ {p}]
      h2 == IF p \in h.pending THEN process_changes(h1, p) ELSE h1
      h3 == [h2 EXCEPT !.object = [q \in Path |->
               IF q \in o.objects THEN [@[q] EXCEPT !.parent = o.parent]
               ELSE IF q = p THEN NULL ELSE @[q]]]
  IN  [h3 EXCEPT !.dangling = @ \/ \E q \in Live(h3) :
                                  h3.object[q].parent = p \/ p \in h3.object[q].objects]

LeavesParent(h, p) ==
  IF h.object[p].refs > 1 THEN [h EXCEPT !.object[p].refs = @ - 1]
  ELSE generic_unregister(
         remove_interface(remove_interface(h, p, Introspectable), p, Properties), p)

object_path_unref(h, p) ==
  IF h.object[p].refs > 1 THEN [h EXCEPT !.object[p].refs = @ - 1]
  ELSE generic_unregister(
         invalidate_parent_data(
           remove_interface(
             remove_interface([h EXCEPT !.object[p].refs = 0], p, Introspectable),
             p, Properties),
           p),
         p)
-----------------------------------------------------------------------------
(* What the program calls: the heap after, unchanged if it is refused. *)

KeepsReference(h, p, i) ==
  LET h1 == object_path_ref(h, p)
  IN  IF i \in h1.object[p].interfaces \cup Experimental THEN h1
      ELSE [add_interface(h1, p, i) EXCEPT !.object[p].introspect = NULL]

g_dbus_register_interface(h, p, i) ==
  LET h1 == object_path_ref(h, p)
      h2 == add_interface(h1, p, i)
      h3 == IF i \notin Propertied \/ Properties \in h2.object[p].interfaces THEN h2
            ELSE add_interface(h2, p, Properties)
  IN  IF i \in h1.object[p].interfaces \cup Experimental THEN object_path_unref(h1, p)
      ELSE [h3 EXCEPT !.object[p].introspect = NULL]

g_dbus_unregister_interface(h, p, i) ==
  IF p \notin Live(h) \/ i \notin h.object[p].interfaces THEN h
  ELSE object_path_unref([remove_interface(h, p, i) EXCEPT !.object[p].introspect = NULL], p)

WaitsForAnnouncement(h, p, i) ==
  LET h1 == [h EXCEPT !.stale = @ \cup {<<p, i>>}]
  IN  IF i \in h.object[p].added \cup h.object[p].changed THEN h1
      ELSE add_pending([h1 EXCEPT !.object[p].pending_prop = TRUE,
                                  !.object[p].changed = @ \cup {i}], p)

(* A change of an interface that is not announced yet will be told with it.  *)
g_dbus_emit_property_changed(h, p, i) ==
  LET h1 == [h EXCEPT !.stale = @ \cup {<<p, i>>}]
  IN  IF \/ h.root # NULL /\ i \in h.object[p].added
         \/ i \in h.object[p].changed
      THEN h1
      ELSE add_pending([h1 EXCEPT !.object[p].pending_prop = TRUE,
                                  !.object[p].changed = @ \cup {i}], p)

(* GetManagedObjects: the objects below the root, without what is still to   *)
(* be announced. They are found by going through the lists of objects.       *)
Reached(h) ==
  {p \in Live(h) \ {Root} : \A S \in SUBSET Live(h) :
     Root \in S /\ (\A q \in S : h.object[q].objects \subseteq S) => p \in S}
ListsUnannounced(h) == UNION {{p} \X h.object[p].interfaces : p \in Reached(h)}

get_objects(h) ==
  UNION {{p} \X (h.object[p].interfaces \ h.object[p].added) : p \in Reached(h)}

(* The listener starts with a call of GetManagedObjects.                     *)
g_dbus_attach_object_manager(h) ==
  LET h1 == [add_interface(object_path_ref(h, Root), Root, ObjectManager) EXCEPT !.root = Root]
  IN  [h1 EXCEPT !.known = get_objects(h1)]

g_dbus_detach_object_manager(h) ==
  [g_dbus_unregister_interface(h, Root, ObjectManager) EXCEPT !.root = NULL, !.known = {}]

(* Nodes of the tree of registered paths, on the way to one at least.        *)
list_registered(h, p) ==
  {c \in Path \ {Root} : Head(Above[c]) = p /\ \E q \in Live(h) : c = q \/ c \in ToSet(Above[q])}
generate_introspection_xml(h, p) ==
  [interfaces |-> h.object[p].interfaces, children |-> list_registered(h, p)]
introspect(h, p) ==
  IF h.object[p].introspect # NULL THEN h
  ELSE [h EXCEPT !.object[p].introspect = generate_introspection_xml(h, p)]
-----------------------------------------------------------------------------
(* What follows a change of the heap to h. An interface in both lists of its *)
(* object is announced before its removal; one that is already there when an *)
(* object manager is attached is not announced at all, and one that waits to *)
(* be announced when it is detached keeps its changes to itself.             *)
Reregistered(h) ==
  UNION {{p} \X (h.object[p].added \cap h.object[p].removed) : p \in Live(h)}
Early(h) ==
  IF h.root # NULL /\ heap.root = NULL THEN (Live(heap) \cup {Root}) \X Name ELSE {}
Unannounced(h) ==
  IF h.root = NULL /\ heap.root # NULL
  THEN UNION {{p} \X h.object[p].added : p \in Live(h)} ELSE {}

SetHeap(h) ==
  /\ heap' = h
  /\ excused' = {pair \in excused \cup Reregistered(h) \cup Early(h) \cup Unannounced(h) :
                   pair[1] \in Live(h) \/ pair \in h.known}
  /\ misplaced' = IF h.dangling THEN misplaced
                  ELSE {p \in Live(heap) \cap Live(h) :
                          p \in misplaced \/ Nearest(h, p) # Nearest(heap, p)}

KeepLost(h) == lost' = {pair \in lost : pair[1] \in Live(h) /\ pair[2] \in h.object[pair[1]].changed}

(* Removing an interface of p resets the flag for all that waits at p.       *)
LoseFlag(h, p) ==
  lost' = {pair \in lost \cup {p} \X Name :
             pair[1] \in Live(h) /\ pair[2] \in h.object[pair[1]].changed}
Running == ~heap.dangling
Silent == spoke' = NULL

RegisterInterface(p, i) ==
  LET h == g_dbus_register_interface(heap, p, i)
  IN  Running /\ SetHeap(h) /\ KeepLost(h) /\ Silent

UnregisterInterface(p, i) ==
  LET h == g_dbus_unregister_interface(heap, p, i)
  IN  Running /\ SetHeap(h) /\ LoseFlag(h, p) /\ Silent

EmitPropertyChanged(p, i) ==
  /\ Running /\ p \in Live(heap) /\ i \in heap.object[p].interfaces
  /\ LET h == g_dbus_emit_property_changed(heap, p, i)
     IN  SetHeap(h) /\ KeepLost(h) /\ Silent

AttachObjectManager ==
  /\ Running /\ heap.root = NULL
  /\ LET h == g_dbus_attach_object_manager(heap) IN SetHeap(h) /\ KeepLost(h) /\ Silent

DetachObjectManager ==
  /\ Running /\ heap.root # NULL
  /\ LET h == g_dbus_detach_object_manager(heap) IN SetHeap(h) /\ LoseFlag(h, Root) /\ Silent

(* The idle source.                                                          *)
ProcessChanges(p) ==
  /\ Running /\ p \in heap.pending
  /\ LET h == process_changes(heap, p) IN SetHeap(h) /\ KeepLost(h) /\ Silent

(* g_dbus_send_message: check_signal, then what waits is sent first.         *)
EmitSignal(p, i) ==
  /\ Running /\ p \in Live(heap) /\ i \in heap.object[p].interfaces
  /\ LET h == g_dbus_flush(heap) IN SetHeap(h) /\ KeepLost(h)
  /\ spoke' = <<p, i>>

(* Replies go the same way, after they were put together.                    *)
Introspect(p) ==
  /\ Running /\ p \in Live(heap)
  /\ LET h == g_dbus_flush(introspect(heap, p)) IN SetHeap(h) /\ KeepLost(h) /\ Silent

GetManagedObjects ==
  /\ Running /\ heap.root # NULL
  /\ LET h == [g_dbus_flush(heap) EXCEPT !.known = @ \cup get_objects(heap)]
     IN  SetHeap(h) /\ KeepLost(h) /\ Silent
-----------------------------------------------------------------------------
EmptyHeap ==
  [object |-> [p \in Path |-> NULL], root |-> NULL, pending |-> {}, known |-> {},
   stale |-> {}, dangling |-> FALSE]

Init ==
  heap = EmptyHeap /\ spoke = NULL /\ excused = {} /\ misplaced = {} /\ lost = {}

Next ==
  \/ \E p \in Path, i \in Interface :
       /\ <<p, i>> \in Offered
       /\ \/ RegisterInterface(p, i) \/ UnregisterInterface(p, i) \/ EmitSignal(p, i)
          \/ i \in Propertied /\ EmitPropertyChanged(p, i)
  \/ \E p \in Path : ProcessChanges(p) \/ Introspect(p)
  \/ AttachObjectManager \/ DetachObjectManager \/ GetManagedObjects

Spec == Init /\ [][Next]_vars
-----------------------------------------------------------------------------
Quiet == Running /\ heap.pending = {}

(* All variables keep their types, and the lists of an object name its own   *)
(* interfaces, those removed apart.                                          *)
TypeOK ==
  /\ \A p \in Live(heap) :
       LET o == heap.object[p]
       IN  /\ o.refs \in Nat \ {0} /\ o.pending_prop \in BOOLEAN
           /\ o.interfaces \cup o.removed \subseteq Name
           /\ o.added \cup o.changed \subseteq o.interfaces
           /\ o.parent \in Path \cup {NULL} /\ o.objects \subseteq Path
           /\ o.introspect \in Xml \cup {NULL}
  /\ heap.root \in {Root, NULL} /\ heap.pending \subseteq Live(heap)
  /\ heap.known \cup heap.stale \cup excused \cup lost \subseteq Pair
  /\ misplaced \subseteq Path /\ spoke \in Pair \cup {NULL}

(* An object lives exactly as long as something is registered at it, and is  *)
(* in the list of the next object above and of no other. A pointer to a      *)
(* freed object is left behind only if once an object came or went between   *)
(* two others.                                                               *)
TreeExact ==
  /\ heap.dangling => misplaced # {}
  /\ Running => \A p \in Live(heap) :
       LET o == heap.object[p]
       IN  /\ o.refs = Cardinality(o.interfaces \cap (Interface \cup {ObjectManager}))
           /\ p \notin misplaced => o.parent = Nearest(heap, p)
           /\ o.objects \ misplaced = {c \in Live(heap) \ misplaced : Nearest(heap, c) = p}

(* When nothing waits to be announced, a listener that has applied every     *)
(* signal of the object manager knows exactly the interfaces there are -     *)
(* unless one was removed and registered again in between, or was there      *)
(* before the object manager.                                                *)
KnowsInterfaces ==
  Quiet /\ heap.root # NULL =>
    heap.known \ excused = {pair \in Registered(heap) : pair[1] # Root} \ excused

(* At any time, what GetManagedObjects finds in the tree is what has been    *)
(* announced and not been removed since, so that signals and replies can be  *)
(* mixed.                                                                    *)
InPlace(p) == misplaced \cap (ToSet(Above[p]) \cup {p}) = {}
ManagedExact ==
  Running /\ heap.root # NULL =>
    \A pair \in Pair \ excused : InPlace(pair[1]) =>
      (pair \in get_objects(heap) <=>
         pair \in heap.known /\ pair[2] \notin heap.object[pair[1]].removed)

(* When nothing waits to be announced, every change of a property has been   *)
(* told - unless another interface of the object was removed while it        *)
(* waited.                                                                   *)
ChangesTold == Quiet => heap.stale \subseteq lost \cup excused

(* A signal comes only from an interface the listener knows, and after the   *)
(* property changes that came before it.                                     *)
SignalsInOrder ==
  Running /\ spoke # NULL =>
    /\ heap.root # NULL /\ spoke[1] # Root => spoke \in heap.known \cup excused
    /\ spoke \notin heap.stale \ (lost \cup excused)

(* A cached introspection is never out of date, whatever has come and gone   *)
(* below - but that of the root when an object manager is attached.          *)
IntrospectFresh ==
  Running => \A p \in Live(heap) :
    LET xml == heap.object[p].introspect
        now == generate_introspection_xml(heap, p)
    IN  /\ p # Root => xml # Stub
        /\ xml \notin {NULL, Stub} =>
             xml.children = now.children /\ now.interfaces \ xml.interfaces \subseteq {ObjectManager}
             /\ xml.interfaces \subseteq now.interfaces
=============================================================================
