------------------------- MODULE GdbusObject_proofs -------------------------
(* The objects of gdbus, for any paths, interfaces and calls of the program: *)
(* the tree, the references and the cached introspections are kept, and the  *)
(* listener is told what it must know.                                       *)
(*                                                                           *)
(* Each operator of the model is first said of the objects it changes and    *)
(* of the others (Added, Removed, Processed, Relinked, Freed, ...), as a     *)
(* predicate of the heap before and after. The parts of the invariant (Tree, *)
(* Hung, Tells, Stale, Counted, Fresh) are then kept by these predicates,    *)
(* whatever operator they came from, and the calls put them together.        *)
EXTENDS GdbusObject, SequenceTheorems, FiniteSetTheorems, NaturalsInduction, WellFoundedInduction, TLAPS

(* The prefixes of a prefix of a path are prefixes of it.                    *)
LEMMA AboveAbove ==
  ASSUME NEW p \in Path, NEW q \in ToSet(Above[p])
  PROVE  /\ q \in Path /\ Above[q] \in Seq(Path) /\ Len(Above[q]) < Len(Above[p])
         /\ ToSet(Above[q]) \subseteq ToSet(Above[p])
<1>1. Above[p] \in Seq(Path)
  BY ObjectAssumption
<1>2. PICK i \in DOMAIN Above[p] : q = Above[p][i]
  BY DEF ToSet
<1>3. q \in Path
  BY <1>1, <1>2
<1>4. Above[q] = SubSeq(Above[p], i + 1, Len(Above[p])) /\ Above[q] \in Seq(Path)
  BY <1>2, <1>3, ObjectAssumption
<1>5. i \in 1 .. Len(Above[p]) /\ Len(Above[p]) \in Nat
  BY <1>1, <1>2
<1>6. Len(Above[q]) = Len(Above[p]) - i /\ \A k \in 1 .. (Len(Above[p]) - i) : Above[q][k] = Above[p][i + k]
  BY <1>1, <1>4, <1>5
<1>7. \A k \in DOMAIN Above[q] : i + k \in DOMAIN Above[p] /\ Above[q][k] = Above[p][i + k]
  <2>1. DOMAIN Above[q] = 1 .. (Len(Above[p]) - i) /\ DOMAIN Above[p] = 1 .. Len(Above[p])
    BY ONLY <1>1, <1>4, <1>6
  <2>2. ASSUME NEW k \in 1 .. (Len(Above[p]) - i) PROVE i + k \in 1 .. Len(Above[p])
    BY ONLY <1>5, <2>2
  <2> QED BY ONLY <1>6, <2>1, <2>2
<1>8. ToSet(Above[q]) \subseteq ToSet(Above[p])
  BY <1>7 DEF ToSet
<1> QED BY <1>3, <1>4, <1>5, <1>6, <1>8

(* No path is a prefix of itself.                                            *)
LEMMA NotAboveItself ==
  ASSUME NEW p \in Path
  PROVE  p \notin ToSet(Above[p])
<1>1. Len(Above[p]) \in Nat
  BY ObjectAssumption
<1> QED BY <1>1, AboveAbove

(* The root is above all others, and nothing is above it.                    *)
LEMMA RootAbove ==
  /\ ToSet(Above[Root]) = {}
  /\ \A p \in Path \ {Root} : Root \in ToSet(Above[p]) /\ Head(Above[p]) \in ToSet(Above[p])
<1>1. ToSet(Above[Root]) = {}
  BY ObjectAssumption DEF ToSet
<1>2. ASSUME NEW p \in Path \ {Root}
      PROVE  Root \in ToSet(Above[p]) /\ Head(Above[p]) \in ToSet(Above[p])
  <2>1. Above[p] \in Seq(Path) /\ Above[p] # <<>> /\ Last(Above[p]) = Root
    BY ObjectAssumption
  <2>2. Len(Above[p]) \in DOMAIN Above[p] /\ 1 \in DOMAIN Above[p] /\ Head(Above[p]) = Above[p][1]
    BY <2>1
  <2>3. Above[p][Len(Above[p])] = Root
    BY <2>1 DEF Last
  <2> QED BY <2>2, <2>3 DEF ToSet
<1> QED BY <1>1, <1>2

(* A nonempty set of numbers has a least one.                                *)
LEMMA LeastNumber ==
  ASSUME NEW I \in SUBSET Nat, I # {}
  PROVE  Min(I) \in I /\ \A y \in I : Min(I) <= y
<1>1. \E x \in I : \A y \in I : x <= y
  <2>1. IsWellFoundedOn(OpToRel(<, Nat), Nat)
    BY NatLessThanWellFounded
  <2>2. PICK x \in I : \A y \in I : <<y, x>> \notin OpToRel(<, Nat)
    BY <2>1, WFMin
  <2>3. \A y \in I : ~(y < x)
    BY <2>2 DEF OpToRel
  <2> QED BY <2>3
<1> QED BY <1>1 DEF Min

(* The next object above is one of the objects above, if there is any.       *)
LEMMA NearestAbove ==
  ASSUME NEW h, NEW p \in Path
  PROVE  /\ Nearest(h, p) # NULL => Nearest(h, p) \in Live(h) \cap ToSet(Above[p])
         /\ Live(h) \cap ToSet(Above[p]) # {} => Nearest(h, p) # NULL
<1>1. Above[p] \in Seq(Path) /\ NULL \notin Path
  BY ObjectAssumption
<1> DEFINE I == {k \in 1 .. Len(Above[p]) : h.object[Above[p][k]] # NULL}
<1> DEFINE least == SelectInSeq(Above[p], LAMBDA q : h.object[q] # NULL)
<1>2. least = IF I # {} THEN Min(I) ELSE 0
  BY DEF SelectInSeq
<1>3. Nearest(h, p) = IF least = 0 THEN NULL ELSE Above[p][least]
  BY DEF Nearest
<1>4. CASE I = {}
  <2>1. Nearest(h, p) = NULL
    BY <1>2, <1>3, <1>4
  <2>2. Live(h) \cap ToSet(Above[p]) = {}
    BY <1>1, <1>4 DEF ToSet, Live
  <2> QED BY <2>1, <2>2
<1>5. CASE I # {}
  <2>1. I \in SUBSET Nat
    BY <1>1
  <2>2. least \in I
    BY <1>2, <1>5, <2>1, LeastNumber
  <2> HIDE DEF least
  <2>3. Nearest(h, p) = Above[p][least] /\ least \in DOMAIN Above[p]
    BY <1>1, <1>3, <2>2
  <2> QED BY <1>1, <2>2, <2>3 DEF ToSet, Live
<1> QED BY <1>4, <1>5

(* It depends on nothing but which of them there are.                        *)
LEMMA NearestSame ==
  ASSUME NEW h, NEW h1, NEW p \in Path,
         \A q \in ToSet(Above[p]) : h.object[q] # NULL <=> h1.object[q] # NULL
  PROVE  Nearest(h, p) = Nearest(h1, p)
<1>1. Above[p] \in Seq(Path)
  BY ObjectAssumption
<1>2. \A k \in 1 .. Len(Above[p]) : h.object[Above[p][k]] # NULL <=> h1.object[Above[p][k]] # NULL
  BY <1>1 DEF ToSet
<1>3. {k \in 1 .. Len(Above[p]) : h.object[Above[p][k]] # NULL} = {k \in 1 .. Len(Above[p]) : h1.object[Above[p][k]] # NULL}
  BY <1>2
<1> DEFINE I == {k \in 1 .. Len(Above[p]) : h.object[Above[p][k]] # NULL}
<1>4. SelectInSeq(Above[p], LAMBDA q : h.object[q] # NULL) = IF I # {} THEN Min(I) ELSE 0
  BY DEF SelectInSeq
<1>5. SelectInSeq(Above[p], LAMBDA q : h1.object[q] # NULL) = IF I # {} THEN Min(I) ELSE 0
  BY <1>3 DEF SelectInSeq
<1> QED BY <1>4, <1>5 DEF Nearest
-----------------------------------------------------------------------------
(* The types of a heap, between any two changes of it.                       *)
Typed(h) ==
  /\ h \in HeapType /\ h.pending \subseteq Live(h)
  /\ \A p \in Live(h) : h.object[p].added \cup h.object[p].changed \subseteq h.object[p].interfaces

(* What leaves all objects but one as they are, and this one's place in the  *)
(* tree.                                                                     *)
Elsewhere(h, h1, p) == Live(h1) = Live(h) /\ \A q \in Path \ {p} : h1.object[q] = h.object[q]

(* What keeps the references of an object and its place in the tree.         *)
Placed(o, o1) == o1.refs = o.refs /\ o1.parent = o.parent /\ o1.objects = o.objects

(* What neither attaches nor detaches, and leaves no pointer behind.         *)
Same(h, h1) == h1.root = h.root /\ h1.dangling = h.dangling

(* Live objects are objects.                                                 *)
LEMMA ObjectTypes ==
  ASSUME NEW h, h \in HeapType, NEW p \in Live(h)
  PROVE  p \in Path /\ h.object[p] \in Object /\ h.object[p] # NULL
BY NullAssumption DEF HeapType, Live

(* An object changed in place.                                               *)
LEMMA OneObject ==
  ASSUME NEW h, h \in HeapType, NEW p \in Live(h), NEW o \in Object, NEW h1, h1.object = [h.object EXCEPT ![p] = o]
  PROVE  Elsewhere(h, h1, p) /\ h1.object[p] = o
BY NullAssumption DEF HeapType, Elsewhere, Live

(* add_interface, said of the one object; without a parent nothing waits.    *)
Added(h, h1, p, i) ==
  LET o == h.object[p]
      o1 == h1.object[p]
  IN  /\ Elsewhere(h, h1, p) /\ Placed(o, o1) /\ Same(h, h1)
      /\ h1.known = h.known /\ h1.stale = h.stale
      /\ o1.interfaces = o.interfaces \cup {i} /\ o1.introspect = o.introspect
      /\ o1.removed = o.removed /\ o1.changed = o.changed /\ o1.pending_prop = o.pending_prop
      /\ o.parent = NULL => o1.added = o.added /\ h1.pending = h.pending
      /\ o.parent # NULL => o1.added = o.added \cup {i} /\ h1.pending = h.pending \cup {p}

(* add_interface does what Added says.                                       *)
LEMMA Adds ==
  ASSUME NEW h, Typed(h), NEW p \in Live(h), NEW i \in Name
  PROVE  Typed(add_interface(h, p, i)) /\ Added(h, add_interface(h, p, i), p, i)
<1> DEFINE h1 == add_interface(h, p, i)
<1>1. p \in Path /\ h.object[p] \in Object /\ NULL \notin Object
  BY ObjectTypes, NullAssumption DEF Typed
<1> DEFINE o == h.object[p]
<1>2. PICK o1 \in Object :
        o1 = [o EXCEPT !.interfaces = @ \cup {i}, !.added = IF o.parent = NULL THEN @ ELSE @ \cup {i}]
  <2>1. [o EXCEPT !.interfaces = @ \cup {i}, !.added = IF o.parent = NULL THEN @ ELSE @ \cup {i}] \in Object
    BY <1>1 DEF Object
  <2> QED BY <2>1
<1>3. h \in HeapType /\ h.pending \subseteq Path
  BY DEF Typed, Live
<1>4. h1 \in HeapType /\ h1.object = [h.object EXCEPT ![p] = o1] /\ Same(h, h1) /\ h1.known = h.known
      /\ h1.stale = h.stale /\ h1.pending = IF o.parent = NULL THEN h.pending ELSE h.pending \cup {p}
  <2>1. CASE o.parent = NULL
    <3>1. o1 = [o EXCEPT !.interfaces = @ \cup {i}]
      BY <1>1, <1>2, <2>1 DEF Object
    <3>2. h1 = [h EXCEPT !.object[p].interfaces = @ \cup {i}]
      BY <2>1 DEF add_interface
    <3>3. h1 = [h EXCEPT !.object[p] = o1]
      BY <3>1, <3>2
    <3> HIDE DEF h1
    <3> QED BY <1>1, <1>3, <2>1, <3>3 DEF HeapType, Same
  <2>2. CASE o.parent # NULL
    <3>1. o1 = [o EXCEPT !.interfaces = @ \cup {i}, !.added = @ \cup {i}]
      BY <1>2, <2>2
    <3>2. h1 = [h EXCEPT !.object[p].interfaces = @ \cup {i}, !.object[p].added = @ \cup {i}, !.pending = @ \cup {p}]
      BY <1>1, <1>3, <2>2 DEF add_interface, add_pending, HeapType
    <3> HIDE DEF h1
    <3>3. h1 = [h EXCEPT !.object[p] = o1, !.pending = @ \cup {p}]
      BY <1>1, <1>3, <3>1, <3>2 DEF HeapType, Object
    <3> QED BY <1>1, <1>3, <2>2, <3>3 DEF HeapType, Same
  <2> QED BY <2>1, <2>2
<1> HIDE DEF h1
<1>5. Elsewhere(h, h1, p) /\ h1.object[p] = o1
  <2>1. PICK f : f = h1.object
    OBVIOUS
  <2>2. f = [h.object EXCEPT ![p] = o1] /\ h.object \in [Path -> Object \cup {NULL}]
    BY <1>3, <1>4, <2>1 DEF HeapType
  <2>3. f[p] = o1 /\ \A q \in Path \ {p} : f[q] = h.object[q]
    BY ONLY <1>1, <2>2
  <2>4. \A q \in Path : f[q] # NULL <=> h.object[q] # NULL
    BY ONLY <1>1, <2>3, o1 \in Object
  <2> QED BY ONLY <2>1, <2>3, <2>4 DEF Elsewhere, Live
<1>6. Placed(o, o1) /\ o1.interfaces = o.interfaces \cup {i} /\ o1.introspect = o.introspect
      /\ o1.removed = o.removed /\ o1.changed = o.changed /\ o1.pending_prop = o.pending_prop
      /\ o1.added = IF o.parent = NULL THEN o.added ELSE o.added \cup {i}
  BY <1>1, <1>2 DEF Object, Placed
<1>7. Added(h, h1, p, i)
  BY ONLY <1>4, <1>5, <1>6 DEF Added
<1>8. Typed(h1)
  BY <1>1, <1>4, <1>7 DEF Typed, Added, Elsewhere, Live
<1> QED BY <1>7, <1>8 DEF h1

(* remove_interface of an interface that is there.                           *)
Removed(h, h1, p, i) ==
  LET o == h.object[p]
      o1 == h1.object[p]
  IN  /\ Elsewhere(h, h1, p) /\ Placed(o, o1) /\ Same(h, h1)
      /\ h1.known = h.known /\ h1.stale = h.stale \ {<<p, i>>}
      /\ o1.interfaces = o.interfaces \ {i} /\ o1.introspect = o.introspect
      /\ o1.added = o.added \ {i} /\ o1.changed = o.changed \ {i} /\ ~o1.pending_prop
      /\ i \in o.added \/ o.parent = NULL => o1.removed = o.removed /\ h1.pending = h.pending
      /\ i \notin o.added /\ o.parent # NULL =>
           o1.removed = o.removed \cup {i} /\ h1.pending = h.pending \cup {p}

(* remove_interface does what Removed says.                                  *)
LEMMA Removes ==
  ASSUME NEW h, Typed(h), NEW p \in Live(h), NEW i \in Name, i \in h.object[p].interfaces
  PROVE  Typed(remove_interface(h, p, i)) /\ Removed(h, remove_interface(h, p, i), p, i)
<1> DEFINE h1 == remove_interface(h, p, i)
<1> DEFINE h0 == process_properties_from_interface(h, p, i)
<1> DEFINE hh == [h0 EXCEPT !.object[p].interfaces = @ \ {i}, !.stale = @ \ {<<p, i>>}]
<1>1. PICK o : o = h.object[p]
  OBVIOUS
<1>2. p \in Path /\ o \in Object /\ NULL \notin Object /\ h \in HeapType
  BY <1>1, ObjectTypes, NullAssumption DEF Typed
<1>3. PICK oa : oa = [o EXCEPT !.changed = @ \ {i}, !.pending_prop = FALSE]
  OBVIOUS
<1>4. PICK ob : ob = [oa EXCEPT !.interfaces = @ \ {i}]
  OBVIOUS
<1>5. oa \in Object /\ ob \in Object
  BY <1>2, <1>3, <1>4 DEF Object
<1>6. h0 \in HeapType /\ h0.object = [h.object EXCEPT ![p] = oa] /\ h0.stale \ {<<p, i>>} = h.stale \ {<<p, i>>}
      /\ h0.root = h.root /\ h0.pending = h.pending /\ h0.known = h.known /\ h0.dangling = h.dangling
  BY <1>1, <1>2, <1>3, <1>5 DEF process_properties_from_interface, HeapType
<1>7. h0.object[p] = oa /\ Elsewhere(h, h0, p)
  BY <1>1, <1>2, <1>5, <1>6 DEF HeapType, Elsewhere, Live
<1> HIDE DEF h0
<1>8. hh \in HeapType /\ hh.object = [h.object EXCEPT ![p] = ob] /\ hh.stale = h.stale \ {<<p, i>>}
      /\ hh.root = h.root /\ hh.pending = h.pending /\ hh.known = h.known /\ hh.dangling = h.dangling
  BY <1>2, <1>4, <1>5, <1>6, <1>7 DEF HeapType
<1> HIDE DEF hh
<1>9. hh.object[p] = ob /\ Elsewhere(h, hh, p)
  BY <1>1, <1>2, <1>5, <1>8, OneObject
<1> DEFINE Fields(k, x, P) ==
      k \in HeapType /\ k.object = [h.object EXCEPT ![p] = x] /\ Same(h, k) /\ k.known = h.known
      /\ k.stale = h.stale \ {<<p, i>>} /\ k.pending = P
<1>10. ASSUME NEW k, NEW o1 \in Object, NEW P \in {h.pending, h.pending \cup {p}}, Fields(k, o1, P),
              Placed(o, o1), o1.interfaces = o.interfaces \ {i}, o1.introspect = o.introspect,
              o1.added = o.added \ {i}, o1.changed = o.changed \ {i}, ~o1.pending_prop,
              i \in o.added \/ o.parent = NULL => o1.removed = o.removed /\ P = h.pending,
              i \notin o.added /\ o.parent # NULL => o1.removed = o.removed \cup {i} /\ P = h.pending \cup {p}
       PROVE  Typed(k) /\ Removed(h, k, p, i)
  <2>1. k.object = [h.object EXCEPT ![p] = o1]
    BY <1>10
  <2>2. Elsewhere(h, k, p) /\ k.object[p] = o1
    <3>1. o1 \in Object /\ p \in Live(h) /\ h \in HeapType
      BY <1>2, <1>10
    <3>2. PICK f : f = k.object
      OBVIOUS
    <3>3. f = [h.object EXCEPT ![p] = o1]
      BY <2>1, <3>2
    <3> QED BY ONLY <3>1, <3>2, <3>3, NullAssumption DEF HeapType, Elsewhere, Live
  <2>3. Removed(h, k, p, i)
    BY ONLY <1>1, <1>10, <2>2 DEF Removed
  <2>4. k.pending \subseteq Live(k)
    BY <1>10, <2>2 DEF Typed, Elsewhere
  <2>5. \A q \in Live(k) : k.object[q].added \cup k.object[q].changed \subseteq k.object[q].interfaces
    BY <1>1, <1>10, <2>2 DEF Typed, Elsewhere, Live
  <2>6. k \in HeapType
    BY <1>10
  <2> HIDE DEF Fields
  <2> QED BY ONLY <2>3, <2>4, <2>5, <2>6 DEF Typed
<1> HIDE DEF h1
<1>11. CASE i \in o.added
  <2>1. h1 = [hh EXCEPT !.object[p].added = @ \ {i}]
    BY <1>1, <1>11 DEF remove_interface, hh, h0, h1
  <2>2. PICK o1 : o1 = [ob EXCEPT !.added = @ \ {i}]
    OBVIOUS
  <2>3. o1 \in Object
    BY <1>5, <2>2 DEF Object
  <2>4. Fields(h1, o1, h.pending)
    BY <1>2, <1>8, <1>9, <2>1, <2>2, <2>3 DEF HeapType, Same
  <2>5. /\ Placed(o, o1) /\ o1.interfaces = o.interfaces \ {i} /\ o1.introspect = o.introspect
        /\ o1.added = o.added \ {i} /\ o1.changed = o.changed \ {i} /\ ~o1.pending_prop /\ o1.removed = o.removed
    BY <1>2, <1>3, <1>4, <1>5, <2>2 DEF Object, Placed
  <2> HIDE DEF Fields
  <2> QED BY <1>10, <1>11, <2>3, <2>4, <2>5 DEF h1
<1>12. CASE i \notin o.added /\ o.parent = NULL
  <2>1. h1 = hh
    BY <1>1, <1>12 DEF remove_interface, hh, h0, h1
  <2>2. Fields(h1, ob, h.pending)
    BY <1>2, <1>8, <1>9, <2>1 DEF HeapType, Same
  <2>3. /\ Placed(o, ob) /\ ob.interfaces = o.interfaces \ {i} /\ ob.introspect = o.introspect
        /\ ob.added = o.added \ {i} /\ ob.changed = o.changed \ {i} /\ ~ob.pending_prop /\ ob.removed = o.removed
    BY <1>2, <1>3, <1>4, <1>12 DEF Object, Placed
  <2> HIDE DEF Fields
  <2> QED BY <1>5, <1>10, <1>12, <2>2, <2>3 DEF h1
<1>13. CASE i \notin o.added /\ o.parent # NULL
  <2>1. h1 = add_pending([hh EXCEPT !.object[p].removed = @ \cup {i}], p)
    BY <1>1, <1>13 DEF remove_interface, hh, h0, h1
  <2>2. PICK o1 : o1 = [ob EXCEPT !.removed = @ \cup {i}]
    OBVIOUS
  <2>3. o1 \in Object
    BY <1>5, <2>2 DEF Object
  <2>4. Fields(h1, o1, h.pending \cup {p})
    BY <1>2, <1>8, <1>9, <2>1, <2>2, <2>3 DEF HeapType, Same, add_pending
  <2>5. /\ Placed(o, o1) /\ o1.interfaces = o.interfaces \ {i} /\ o1.introspect = o.introspect
        /\ o1.added = o.added \ {i} /\ o1.changed = o.changed \ {i} /\ ~o1.pending_prop /\ o1.removed = o.removed \cup {i}
    BY <1>2, <1>3, <1>4, <1>5, <1>13, <2>2 DEF Object, Placed
  <2> HIDE DEF Fields
  <2> QED BY <1>10, <1>13, <2>3, <2>4, <2>5 DEF h1
<1> QED BY <1>11, <1>12, <1>13

(* The part of a heap that announcing the changes of an object is about.     *)
Part(h, k, p, o, P, K, S) ==
  /\ k \in HeapType /\ k.object = [h.object EXCEPT ![p] = o] /\ Same(h, k)
  /\ k.pending = P /\ k.known = K /\ k.stale = S

(* In such a part one object has changed.                                    *)
LEMMA PartObject ==
  ASSUME NEW h, h \in HeapType, NEW p \in Live(h), NEW o \in Object, NEW k, NEW P, NEW K, NEW S,
         Part(h, k, p, o, P, K, S)
  PROVE  Elsewhere(h, k, p) /\ k.object[p] = o
<1>1. PICK f : f = k.object
  OBVIOUS
<1>2. f = [h.object EXCEPT ![p] = o]
  BY <1>1 DEF Part
<1> QED BY ONLY <1>1, <1>2, h \in HeapType, p \in Live(h), o \in Object, NullAssumption DEF HeapType, Elsewhere, Live

(* process_changes: without a listener the lists are kept.                   *)
Processed(h, h1, p) ==
  LET o == h.object[p]
      o1 == h1.object[p]
      told == h.root \notin {NULL, p}
  IN  /\ Elsewhere(h, h1, p) /\ Placed(o, o1) /\ Same(h, h1)
      /\ h1.pending = h.pending \ {p}
      /\ o1.interfaces = o.interfaces /\ o1.introspect = o.introspect
      /\ ~o1.pending_prop /\ o1.changed = IF o.pending_prop THEN {} ELSE o.changed
      /\ o1.added = IF told THEN {} ELSE o.added
      /\ o1.removed = IF told THEN {} ELSE o.removed
      /\ h1.known = IF told THEN (h.known \cup {p} \X o.added) \ ({p} \X o.removed) ELSE h.known
      /\ h1.stale = (IF told THEN h.stale \ ({p} \X o.added) ELSE h.stale)
                    \ (IF o.pending_prop THEN {p} \X o.changed ELSE {})

(* process_changes does what Processed says.                                 *)
LEMMA Processes ==
  ASSUME NEW h, Typed(h), NEW p \in Live(h)
  PROVE  Typed(process_changes(h, p)) /\ Processed(h, process_changes(h, p), p)
<1>1. PICK o : o = h.object[p]
  OBVIOUS
<1>2. p \in Path /\ o \in Object /\ h \in HeapType
  BY <1>1, ObjectTypes DEF Typed
<1>3. PICK h0 : h0 = [h EXCEPT !.pending = @ \ {p}]
  OBVIOUS
<1>4. Part(h, h0, p, o, h.pending \ {p}, h.known, h.stale)
  <2>1. h0.object = h.object /\ h.object = [h.object EXCEPT ![p] = o]
    BY <1>1, <1>2, <1>3 DEF HeapType
  <2>2. h0 \in HeapType
    BY <1>2, <1>3 DEF HeapType
  <2> QED BY <1>2, <1>3, <2>1, <2>2 DEF HeapType, Part, Same
<1>5. PICK told : told = (h.root \notin {NULL, p})
  OBVIOUS
<1>6. PICK ha : ha = emit_interfaces_added(h0, p)
  OBVIOUS
<1>7. PICK oa \in Object : oa = [o EXCEPT !.added = IF told THEN {} ELSE @]
  <2>1. [o EXCEPT !.added = IF told THEN {} ELSE @] \in Object
    BY <1>2 DEF Object
  <2> QED BY <2>1
<1>8. PICK Ka, Sa : Ka = (IF told THEN h.known \cup {p} \X o.added ELSE h.known)
                    /\ Sa = IF told THEN h.stale \ ({p} \X o.added) ELSE h.stale
  OBVIOUS
<1>9. Part(h, ha, p, oa, h.pending \ {p}, Ka, Sa)
  <2>1. h0.object[p] = o
    BY <1>2, <1>4, PartObject
  <2>2. CASE ~told
    <3>1. ha = h0
      BY <1>4, <1>5, <1>6, <2>2 DEF emit_interfaces_added, Part, Same
    <3>2. oa = o
      BY <1>2, <1>7, <2>2 DEF Object
    <3> QED BY <1>4, <1>8, <2>2, <3>1, <3>2
  <2>3. CASE told
    <3>1. ha = [h0 EXCEPT !.known = @ \cup {p} \X o.added, !.stale = @ \ ({p} \X o.added), !.object[p].added = {}]
      BY <1>4, <1>5, <1>6, <2>1, <2>3 DEF emit_interfaces_added, Part, Same
    <3>2. oa = [o EXCEPT !.added = {}]
      BY <1>7, <2>3
    <3>3. {p} \X o.added \subseteq Pair
      BY <1>2 DEF Object, Pair
    <3> QED BY <1>2, <1>4, <1>8, <2>1, <2>3, <3>1, <3>2, <3>3 DEF Part, HeapType, Same
  <2> QED BY <1>5, <2>2, <2>3
<1>10. ha.object[p] = oa /\ ha.object = [h.object EXCEPT ![p] = oa]
  <2>1. ha.object[p] = oa
    BY <1>2, <1>9, PartObject
  <2>2. ha.object = [h.object EXCEPT ![p] = oa]
    BY <1>9 DEF Part
  <2> QED BY <2>1, <2>2
<1>11. PICK hb : hb = IF h.object[p].pending_prop THEN process_property_changes(ha, p) ELSE ha
  OBVIOUS
<1>12. PICK ob \in Object : ob = [oa EXCEPT !.pending_prop = FALSE, !.changed = IF o.pending_prop THEN {} ELSE @]
  <2>1. [oa EXCEPT !.pending_prop = FALSE, !.changed = IF o.pending_prop THEN {} ELSE @] \in Object
    BY ONLY oa \in Object DEF Object
  <2> QED BY <2>1
<1>13. PICK Sb : Sb = Sa \ (IF o.pending_prop THEN {p} \X o.changed ELSE {})
  OBVIOUS
<1>14. oa.changed = o.changed /\ oa.pending_prop = o.pending_prop /\ oa.removed = o.removed
  BY <1>2, <1>7 DEF Object
<1>15. Part(h, hb, p, ob, h.pending \ {p}, Ka, Sb)
  <2>1. CASE o.pending_prop
    <3>1. hb = [ha EXCEPT !.object[p].pending_prop = FALSE, !.object[p].changed = {}, !.stale = @ \ ({p} \X o.changed)]
      BY <1>1, <1>10, <1>11, <1>14, <2>1 DEF process_property_changes
    <3>2. ob = [oa EXCEPT !.pending_prop = FALSE, !.changed = {}]
      BY <1>12, <2>1
    <3>3. Sb = Sa \ ({p} \X o.changed)
      BY <1>13, <2>1
    <3> QED BY <1>2, <1>9, <1>10, <3>1, <3>2, <3>3 DEF Part, HeapType, Same
  <2>2. CASE ~o.pending_prop
    <3>1. hb = ha
      BY <1>1, <1>11, <2>2
    <3>2. ob = oa
      BY <1>2, <1>7, <1>12, <1>14, <2>2 DEF Object
    <3>3. Sb = Sa
      BY <1>13, <2>2
    <3> QED BY <1>9, <3>1, <3>2, <3>3
  <2> QED BY <2>1, <2>2
<1>16. hb.object[p] = ob /\ hb.object = [h.object EXCEPT ![p] = ob]
  <2>1. hb.object[p] = ob
    BY <1>2, <1>15, PartObject
  <2>2. hb.object = [h.object EXCEPT ![p] = ob]
    BY <1>15 DEF Part
  <2> QED BY <2>1, <2>2
<1>17. PICK hc : hc = process_changes(h, p)
  OBVIOUS
<1>18. hc = emit_interfaces_removed(hb, p)
  BY <1>3, <1>6, <1>11, <1>17 DEF process_changes
<1>19. PICK oc \in Object : oc = [ob EXCEPT !.removed = IF told THEN {} ELSE @]
  <2>1. [ob EXCEPT !.removed = IF told THEN {} ELSE @] \in Object
    BY ONLY ob \in Object DEF Object
  <2> QED BY <2>1
<1>20. ob.removed = o.removed
  BY <1>2, <1>7, <1>12 DEF Object
<1>21. PICK Kc : Kc = IF told THEN Ka \ ({p} \X o.removed) ELSE Ka
  OBVIOUS
<1>22. Part(h, hc, p, oc, h.pending \ {p}, Kc, Sb)
  <2>1. CASE ~told
    <3>1. hc = hb
      BY <1>15, <1>5, <1>18, <2>1 DEF emit_interfaces_removed, Part, Same
    <3>2. oc = ob
      BY <1>12, <1>19, <2>1 DEF Object
    <3> QED BY <1>15, <1>21, <2>1, <3>1, <3>2
  <2>2. CASE told
    <3>1. hc = [hb EXCEPT !.known = @ \ ({p} \X o.removed), !.object[p].removed = {}]
      BY <1>15, <1>16, <1>5, <1>18, <1>20, <2>2 DEF emit_interfaces_removed, Part, Same
    <3>2. oc = [ob EXCEPT !.removed = {}]
      BY <1>19, <2>2
    <3> QED BY <1>2, <1>15, <1>16, <1>21, <2>2, <3>1, <3>2 DEF Part, HeapType, Same
  <2> QED BY <1>5, <2>1, <2>2
<1>23. Elsewhere(h, hc, p) /\ hc.object[p] = oc
  BY <1>2, <1>22, PartObject
<1>24. /\ Placed(o, oc) /\ oc.interfaces = o.interfaces /\ oc.introspect = o.introspect
       /\ ~oc.pending_prop /\ oc.changed = (IF o.pending_prop THEN {} ELSE o.changed)
       /\ oc.added = (IF told THEN {} ELSE o.added) /\ oc.removed = (IF told THEN {} ELSE o.removed)
  <2>1. Placed(o, oa) /\ oa.interfaces = o.interfaces /\ oa.introspect = o.introspect /\ oa.added = IF told THEN {} ELSE o.added
    BY <1>2, <1>7 DEF Object, Placed
  <2>2. Placed(oa, ob) /\ ob.interfaces = oa.interfaces /\ ob.introspect = oa.introspect /\ ob.added = oa.added
        /\ ~ob.pending_prop /\ ob.changed = IF o.pending_prop THEN {} ELSE oa.changed
    BY <1>7, <1>12 DEF Object, Placed
  <2>3. Placed(ob, oc) /\ oc.interfaces = ob.interfaces /\ oc.introspect = ob.introspect /\ oc.added = ob.added
        /\ oc.pending_prop = ob.pending_prop /\ oc.changed = ob.changed /\ oc.removed = IF told THEN {} ELSE ob.removed
    BY <1>12, <1>19 DEF Object, Placed
  <2> QED BY <1>14, <1>20, <2>1, <2>2, <2>3 DEF Placed
<1>25. Processed(h, hc, p)
  BY <1>1, <1>5, <1>8, <1>13, <1>21, <1>22, <1>23, <1>24 DEF Processed, Part
<1>26. Typed(hc)
  <2>1. hc.pending \subseteq Live(hc)
    BY <1>22, <1>23 DEF Typed, Part, Elsewhere
  <2>2. \A q \in Live(hc) : hc.object[q].added \cup hc.object[q].changed \subseteq hc.object[q].interfaces
    BY <1>1, <1>2, <1>23, <1>24 DEF Typed, Elsewhere, Live
  <2> QED BY <1>22, <2>1, <2>2 DEF Typed, Part
<1> QED BY <1>17, <1>25, <1>26

(* What one object's changes being announced does, said of that object, and  *)
(* the announcement of all objects in P.                                     *)
ToldAt(h, h1, p) ==
  LET o == h.object[p]
      o1 == h1.object[p]
      told == h.root \notin {NULL, p}
  IN  /\ Placed(o, o1) /\ o1.interfaces = o.interfaces /\ o1.introspect = o.introspect
      /\ ~o1.pending_prop /\ o1.changed = IF o.pending_prop THEN {} ELSE o.changed
      /\ o1.added = IF told THEN {} ELSE o.added
      /\ o1.removed = IF told THEN {} ELSE o.removed
      /\ \A i \in Name :
           /\ <<p, i>> \in h1.known <=>
                IF told THEN (<<p, i>> \in h.known \/ i \in o.added) /\ i \notin o.removed ELSE <<p, i>> \in h.known
           /\ <<p, i>> \in h1.stale <=>
                <<p, i>> \in h.stale /\ (told => i \notin o.added) /\ (o.pending_prop => i \notin o.changed)

(* An object of which nothing is announced.                                  *)
KeptAt(h, h1, p) ==
  /\ h1.object[p] = h.object[p]
  /\ \A i \in Name : /\ <<p, i>> \in h1.known <=> <<p, i>> \in h.known
                     /\ <<p, i>> \in h1.stale <=> <<p, i>> \in h.stale

(* The changes of the objects in P are announced, and of no other.           *)
Announced(h, h1, P) ==
  /\ Live(h1) = Live(h) /\ Same(h, h1) /\ h1.pending = h.pending \ P
  /\ \A p \in P : ToldAt(h, h1, p)
  /\ \A p \in Path \ P : KeptAt(h, h1, p)

(* process_changes announces one object, ...                                 *)
LEMMA ProcessTells ==
  ASSUME NEW h, Typed(h), NEW p \in Live(h), NEW h1, Processed(h, h1, p)
  PROVE  Announced(h, h1, {p})
<1>1. PICK o, o1, told : o = h.object[p] /\ o1 = h1.object[p] /\ told = (h.root \notin {NULL, p})
  OBVIOUS
<1>2. p \in Path
  BY ObjectTypes DEF Typed
<1>3. PICK A, R, C, K, K1, S, S1 :
        /\ A = o.added /\ R = o.removed /\ C = (IF o.pending_prop THEN o.changed ELSE {})
        /\ K = h.known /\ K1 = h1.known /\ S = h.stale /\ S1 = h1.stale
  OBVIOUS
<1>4. /\ K1 = IF told THEN (K \cup {p} \X A) \ ({p} \X R) ELSE K
      /\ S1 = (IF told THEN S \ ({p} \X A) ELSE S) \ ({p} \X C)
  <2>1. (IF o.pending_prop THEN {p} \X o.changed ELSE {}) = {p} \X C
    BY <1>3
  <2> QED BY <1>1, <1>3, <2>1 DEF Processed
<1>5. \A i \in Name :
        /\ <<p, i>> \in K1 <=> IF told THEN (<<p, i>> \in K \/ i \in A) /\ i \notin R ELSE <<p, i>> \in K
        /\ <<p, i>> \in S1 <=> <<p, i>> \in S /\ (told => i \notin A) /\ i \notin C
  <2>1. CASE told
    BY ONLY <1>4, <2>1
  <2>2. CASE ~told
    BY ONLY <1>4, <2>2
  <2> QED BY <1>1, <2>1, <2>2
<1>6. \A q \in Path \ {p}, i \in Name :
        (<<q, i>> \in K1 <=> <<q, i>> \in K) /\ (<<q, i>> \in S1 <=> <<q, i>> \in S)
  <2>1. CASE told
    BY ONLY <1>4, <2>1
  <2>2. CASE ~told
    BY ONLY <1>4, <2>2
  <2> QED BY <1>1, <2>1, <2>2
<1>7. ToldAt(h, h1, p)
  BY <1>1, <1>3, <1>5 DEF ToldAt, Processed
<1>8. \A q \in Path \ {p} : KeptAt(h, h1, q)
  BY <1>3, <1>6 DEF KeptAt, Processed, Elsewhere
<1> QED BY <1>1, <1>7, <1>8 DEF Announced, Processed, Elsewhere

(* ... and g_dbus_flush all that wait.                                       *)
LEMMA Flushes ==
  ASSUME NEW h, Typed(h)
  PROVE  Typed(g_dbus_flush(h)) /\ Announced(h, g_dbus_flush(h), h.pending)
<1> DEFINE Of(p) == IF p \in h.pending THEN process_changes(h, p) ELSE h
<1>1. PICK h1 : h1 = g_dbus_flush(h)
  OBVIOUS
<1>2. h \in HeapType /\ h.pending \subseteq Live(h) /\ Live(h) \subseteq Path /\ NULL \notin Path
  BY ObjectAssumption DEF Typed, Live
<1>3. \A p \in h.pending : Typed(Of(p)) /\ Announced(h, Of(p), {p})
  BY <1>2, Processes, ProcessTells
<1>4. \A p \in Path \ h.pending : Of(p) = h
  OBVIOUS
<1>5. \A p \in Path : Of(p) \in HeapType /\ Live(Of(p)) = Live(h)
  BY <1>2, <1>3, <1>4 DEF Typed, Announced
<1> HIDE DEF Of
<1>6. h1 = [h EXCEPT !.pending = {}, !.object = [p \in Path |-> Of(p).object[p]],
                     !.known = {pair \in Pair : pair \in Of(pair[1]).known},
                     !.stale = {pair \in Pair : pair \in Of(pair[1]).stale}]
  BY <1>1 DEF g_dbus_flush, Of
<1>7. PICK f, K, S : f = [p \in Path |-> Of(p).object[p]] /\ K = {pair \in Pair : pair \in Of(pair[1]).known}
                     /\ S = {pair \in Pair : pair \in Of(pair[1]).stale}
  OBVIOUS
<1>8. h1.object = f /\ h1.known = K /\ h1.stale = S /\ h1.pending = {} /\ Same(h, h1)
  BY <1>2, <1>6, <1>7 DEF HeapType, Same
<1>9. f \in [Path -> Object \cup {NULL}]
  BY <1>5, <1>7 DEF HeapType
<1>10. h1 \in HeapType
  <2>1. K \in SUBSET Pair /\ S \in SUBSET Pair
    BY <1>7
  <2>2. h1 = [h EXCEPT !.pending = {}, !.object = f, !.known = K, !.stale = S]
    BY <1>6, <1>7
  <2> QED BY <1>2, <1>9, <2>1, <2>2 DEF HeapType
<1>11. \A p \in Path : h1.object[p] = Of(p).object[p]
  BY <1>7, <1>8
<1>12. Live(h1) = Live(h)
  BY <1>5, <1>11 DEF Live
<1>13. \A p \in Path, i \in Name :
         /\ <<p, i>> \in h1.known <=> <<p, i>> \in Of(p).known
         /\ <<p, i>> \in h1.stale <=> <<p, i>> \in Of(p).stale
  BY <1>7, <1>8 DEF Pair
<1>14. ASSUME NEW p \in h.pending PROVE ToldAt(h, h1, p)
  <2>1. ToldAt(h, Of(p), p) /\ p \in Path
    BY <1>2, <1>3 DEF Announced
  <2>2. PICK k : k = Of(p)
    OBVIOUS
  <2>3. h1.object[p] = k.object[p]
    BY <1>11, <2>1, <2>2
  <2>4. \A i \in Name : (<<p, i>> \in h1.known <=> <<p, i>> \in k.known) /\ (<<p, i>> \in h1.stale <=> <<p, i>> \in k.stale)
    BY <1>13, <2>1, <2>2
  <2> QED BY <2>1, <2>2, <2>3, <2>4 DEF ToldAt
<1>15. ASSUME NEW p \in Path \ h.pending PROVE KeptAt(h, h1, p)
  BY <1>4, <1>11, <1>13 DEF KeptAt
<1>16. Announced(h, h1, h.pending)
  BY <1>8, <1>12, <1>14, <1>15 DEF Announced
<1>17. Typed(h1)
  <2>1. ASSUME NEW p \in Live(h1) PROVE h1.object[p].added \cup h1.object[p].changed \subseteq h1.object[p].interfaces
    <3>1. p \in Live(h) /\ p \in Path
      BY <1>2, <1>12
    <3>2. Typed(Of(p)) /\ p \in Live(Of(p))
      BY <1>3, <1>4, <1>5, <3>1
    <3> QED BY <1>11, <3>1, <3>2 DEF Typed
  <2> QED BY <1>8, <1>10, <2>1 DEF Typed
<1> QED BY <1>1, <1>16, <1>17

(* What an object announces, and what it counts.                             *)
Alike(o, o1) ==
  /\ o1.refs = o.refs /\ o1.interfaces = o.interfaces /\ o1.added = o.added /\ o1.removed = o.removed
  /\ o1.changed = o.changed /\ o1.pending_prop = o.pending_prop

(* What the listener, or the idle source, could tell apart.                  *)
Outward(h, h1) ==
  h1.root = h.root /\ h1.pending = h.pending /\ h1.known = h.known /\ h1.stale = h.stale

(* The objects on the way to p that are not yet in the list of the next one  *)
(* above.                                                                    *)
Linked(h, p) ==
  {c \in Live(h) \cap (ToSet(Above[p]) \cup {p}) :
     Nearest(h, c) # NULL /\ c \notin h.object[Nearest(h, c)].objects}

(* invalidate_parent_data, said of each object.                              *)
Relinked(h, h1, p) ==
  /\ Live(h1) = Live(h) /\ Outward(h, h1) /\ h1.dangling = h.dangling
  /\ \A q \in Live(h) :
       LET o == h.object[q]
           o1 == h1.object[q]
       IN  /\ Alike(o, o1)
           /\ o1.introspect = IF q \in ToSet(Above[p]) THEN NULL ELSE o.introspect
           /\ o1.objects = o.objects \cup {c \in Linked(h, p) : Nearest(h, c) = q}
           /\ o1.parent = IF q \in Linked(h, p) THEN Nearest(h, q) ELSE o.parent

(* invalidate_parent_data does what Relinked says.                           *)
LEMMA Invalidates ==
  ASSUME NEW h, Typed(h), NEW p \in Path
  PROVE  Typed(invalidate_parent_data(h, p)) /\ Relinked(h, invalidate_parent_data(h, p), p)
<1>1. PICK h1, L, A : h1 = invalidate_parent_data(h, p) /\ L = Linked(h, p) /\ A = ToSet(Above[p])
  OBVIOUS
<1>2. h \in HeapType /\ NULL \notin Object /\ Live(h) \subseteq Path
  BY NullAssumption DEF Typed, Live
<1> DEFINE New(q) == [h.object[q] EXCEPT
        !.introspect = IF q \in A THEN NULL ELSE @,
        !.objects = @ \cup {c \in L : Nearest(h, c) = q},
        !.parent = IF q \in L THEN Nearest(h, q) ELSE @]
<1>3. PICK f : f = [q \in Path |-> IF q \in Live(h) THEN New(q) ELSE NULL]
  OBVIOUS
<1>4. h1 = [h EXCEPT !.object = f]
  BY <1>1, <1>3 DEF invalidate_parent_data, Linked
<1>5. L \subseteq Path /\ \A c \in L : Nearest(h, c) \in Path
  BY <1>1, <1>2, NearestAbove DEF Linked
<1>6. ASSUME NEW q \in Live(h)
      PROVE  /\ New(q) \in Object /\ Alike(h.object[q], New(q))
             /\ New(q).introspect = (IF q \in A THEN NULL ELSE h.object[q].introspect)
             /\ New(q).objects = h.object[q].objects \cup {c \in L : Nearest(h, c) = q}
             /\ New(q).parent = IF q \in L THEN Nearest(h, q) ELSE h.object[q].parent
  <2>1. PICK o, C, x, y, z : o = h.object[q] /\ C = {c \in L : Nearest(h, c) = q}
          /\ x = (IF q \in A THEN NULL ELSE o.introspect) /\ y = (IF q \in L THEN Nearest(h, q) ELSE o.parent)
          /\ z = o.objects \cup C
    OBVIOUS
  <2>2. o \in Object
    BY <1>2, <2>1, ObjectTypes
  <2>3. x \in Xml \cup {NULL} /\ y \in Path \cup {NULL} /\ z \in SUBSET Path
    BY <1>5, <2>1, <2>2 DEF Object
  <2>4. New(q) = [o EXCEPT !.introspect = x, !.objects = z, !.parent = y]
    BY <2>1, <2>2 DEF Object
  <2> QED BY <2>1, <2>2, <2>3, <2>4 DEF Object, Alike
<1> HIDE DEF New
<1>7. f \in [Path -> Object \cup {NULL}] /\ \A q \in Live(h) : f[q] = New(q) /\ f[q] # NULL
  BY <1>2, <1>3, <1>6
<1>8. h1 \in HeapType /\ h1.object = f /\ Outward(h, h1) /\ h1.dangling = h.dangling
  BY <1>2, <1>4, <1>7 DEF HeapType, Outward
<1>9. Live(h1) = Live(h)
  BY <1>2, <1>3, <1>7, <1>8 DEF Live
<1>10. Relinked(h, h1, p)
  BY <1>1, <1>6, <1>7, <1>8, <1>9 DEF Relinked
<1>11. Typed(h1)
  BY <1>8, <1>9, <1>10 DEF Typed, Relinked, Alike, Outward
<1> QED BY <1>1, <1>10, <1>11

(* A new object: nothing is registered at it but Introspectable.             *)
Created(h, h1, p) ==
  /\ Live(h1) = Live(h) \cup {p} /\ h1.dangling = h.dangling
  /\ \A q \in Path \ {p} : h1.object[q] = h.object[q]
  /\ h1.object[p] = NewObject /\ Outward(h, h1)

(* An object is allocated.                                                   *)
LEMMA Creates ==
  ASSUME NEW h, Typed(h), NEW p \in Path, p \notin Live(h)
  PROVE  LET h1 == [h EXCEPT !.object[p] = NewObject] IN Typed(h1) /\ Created(h, h1, p)
<1>1. PICK h1 : h1 = [h EXCEPT !.object[p] = NewObject]
  OBVIOUS
<1>2. NewObject \in Object /\ NewObject # NULL /\ h \in HeapType
  <2>1. NewObject \in Object
    BY DEF NewObject, Object, Stub, Xml
  <2> QED BY <2>1, NullAssumption DEF Typed
<1>3. PICK f : f = [h.object EXCEPT ![p] = NewObject]
  OBVIOUS
<1>4. h1 \in HeapType /\ h1.object = f /\ Outward(h, h1) /\ h1.dangling = h.dangling
  BY <1>1, <1>2, <1>3 DEF HeapType, Outward
<1>5. f[p] = NewObject /\ \A q \in Path \ {p} : f[q] = h.object[q]
  BY <1>2, <1>3 DEF HeapType
<1>6. Created(h, h1, p)
  BY <1>2, <1>4, <1>5 DEF Created, Live
<1>7. Typed(h1)
  <2>1. NewObject.added \cup NewObject.changed \subseteq NewObject.interfaces
    BY DEF NewObject
  <2>2. \A q \in Live(h) : q \in Path /\ q # p
    BY DEF Live
  <2> QED BY <1>4, <1>6, <2>1, <2>2 DEF Typed, Created, Outward
<1> QED BY <1>1, <1>6, <1>7

(* An object is freed: what that does to those that remain.                  *)
Freed(h, h1, p) ==
  LET o == h.object[p]
      told == p \in h.pending /\ h.root \notin {NULL, p}
  IN  /\ Live(h1) = Live(h) \ {p} /\ h1.root = h.root /\ h1.pending = h.pending \ {p}
      /\ h1.dangling = (h.dangling \/ \E q \in Live(h1) : h1.object[q].parent = p \/ p \in h1.object[q].objects)
      /\ \A q \in Live(h1) :
           /\ Alike(h.object[q], h1.object[q]) /\ h1.object[q].introspect = h.object[q].introspect
           /\ h1.object[q].objects = IF q = o.parent THEN h.object[q].objects \ {p} ELSE h.object[q].objects
           /\ h1.object[q].parent = IF q \in o.objects THEN o.parent ELSE h.object[q].parent
      /\ \A q \in Path \ {p}, i \in Name :
           (<<q, i>> \in h1.known <=> <<q, i>> \in h.known) /\ (<<q, i>> \in h1.stale <=> <<q, i>> \in h.stale)
      /\ \A i \in Name :
           /\ <<p, i>> \in h1.known <=>
                IF told THEN (<<p, i>> \in h.known \/ i \in o.added) /\ i \notin o.removed ELSE <<p, i>> \in h.known
           /\ <<p, i>> \in h1.stale => <<p, i>> \in h.stale

(* generic_unregister does what Freed says, where the tree is sound.         *)
LEMMA Frees ==
  ASSUME NEW h, Typed(h), NEW p \in Live(h), h.object[p].parent \in Live(h) \cup {NULL},
         h.object[p].parent # p, h.object[p].objects \subseteq Live(h) \ {p}
  PROVE  Typed(generic_unregister(h, p)) /\ Freed(h, generic_unregister(h, p), p)
<1> DEFINE k1 == IF h.object[p].parent = NULL THEN h ELSE [h EXCEPT !.object[h.object[p].parent].objects = @ \ {p}]
<1> DEFINE k2 == IF p \in h.pending THEN process_changes(k1, p) ELSE k1
<1> DEFINE k3 == [k2 EXCEPT !.object = [q \in Path |->
               IF q \in h.object[p].objects THEN [@[q] EXCEPT !.parent = h.object[p].parent]
               ELSE IF q = p THEN NULL ELSE @[q]]]
<1>1. generic_unregister(h, p) =
        [k3 EXCEPT !.dangling = @ \/ \E q \in Live(k3) : k3.object[q].parent = p \/ p \in k3.object[q].objects]
  BY DEF generic_unregister
<1> HIDE DEF k3
<1>2. PICK o, parent, O : o = h.object[p] /\ parent = o.parent /\ O = o.objects
  OBVIOUS
<1>3. h \in HeapType /\ NULL \notin Object /\ NULL \notin Path /\ p \in Path /\ o \in Object /\ Live(h) \subseteq Path
  BY <1>2, NullAssumption, ObjectAssumption, ObjectTypes DEF Typed, Live
<1>4. PICK h1 : h1 = k1
  OBVIOUS
<1>5. h1 = IF parent = NULL THEN h ELSE [h EXCEPT !.object[parent].objects = @ \ {p}]
  BY <1>2, <1>4
<1>6. /\ Typed(h1) /\ Live(h1) = Live(h) /\ Outward(h, h1) /\ h1.dangling = h.dangling
      /\ \A q \in Live(h) :
           /\ Alike(h.object[q], h1.object[q]) /\ h1.object[q].introspect = h.object[q].introspect
           /\ h1.object[q].objects = IF q = parent THEN h.object[q].objects \ {p} ELSE h.object[q].objects
           /\ h1.object[q].parent = h.object[q].parent
  <2>1. CASE parent = NULL
    <3>1. h1 = h /\ \A q \in Live(h) : q # parent
      BY <1>3, <1>5, <2>1
    <3> QED BY <1>3, <3>1 DEF Outward, Alike, Typed
  <2>2. CASE parent # NULL
    <3>1. PICK op, op1 : op = h.object[parent] /\ op1 = [op EXCEPT !.objects = @ \ {p}]
      OBVIOUS
    <3>2. parent \in Live(h) /\ op \in Object
      BY <1>2, <1>3, <2>2, <3>1, ObjectTypes
    <3>3. op1 \in Object /\ Alike(op, op1) /\ op1.introspect = op.introspect /\ op1.objects = op.objects \ {p} /\ op1.parent = op.parent
      BY <3>1, <3>2 DEF Object, Alike
    <3>4. h1 = [h EXCEPT !.object[parent] = op1]
      BY <1>3, <1>5, <2>2, <3>1, <3>2
    <3>5. Part(h, h1, parent, op1, h.pending, h.known, h.stale)
      BY <1>3, <3>2, <3>3, <3>4 DEF Part, HeapType, Same
    <3>6. Elsewhere(h, h1, parent) /\ h1.object[parent] = op1
      BY <1>3, <3>2, <3>3, <3>5, PartObject
    <3>7. \A q \in Live(h) :
           /\ Alike(h.object[q], h1.object[q]) /\ h1.object[q].introspect = h.object[q].introspect
           /\ h1.object[q].objects = IF q = parent THEN h.object[q].objects \ {p} ELSE h.object[q].objects
           /\ h1.object[q].parent = h.object[q].parent
      BY <1>3, <3>1, <3>3, <3>6 DEF Elsewhere, Alike
    <3>8. Typed(h1)
      <4>1. h1 \in HeapType /\ h1.pending = h.pending /\ Live(h1) = Live(h)
        BY <3>5, <3>6 DEF Part, Elsewhere
      <4>2. \A q \in Live(h) : h1.object[q].added = h.object[q].added /\ h1.object[q].changed = h.object[q].changed
                               /\ h1.object[q].interfaces = h.object[q].interfaces
        BY <3>7 DEF Alike
      <4> QED BY ONLY <4>1, <4>2, Typed(h) DEF Typed
    <3> QED BY <3>5, <3>6, <3>7, <3>8 DEF Part, Same, Elsewhere, Outward
  <2> QED BY <2>1, <2>2
<1>7. PICK h2 : h2 = k2 /\ h2 = IF p \in h.pending THEN process_changes(h1, p) ELSE h1
  BY <1>4
<1> HIDE DEF k1, k2
<1>8. /\ Typed(h2) /\ Live(h2) = Live(h) /\ h2.root = h.root /\ h2.pending = h.pending \ {p} /\ h2.dangling = h.dangling
      /\ \A q \in Live(h) \ {p} : h2.object[q] = h1.object[q]
      /\ \A q \in Path \ {p}, i \in Name :
           (<<q, i>> \in h2.known <=> <<q, i>> \in h.known) /\ (<<q, i>> \in h2.stale <=> <<q, i>> \in h.stale)
      /\ \A i \in Name :
           /\ <<p, i>> \in h2.known <=>
                IF p \in h.pending /\ h.root \notin {NULL, p}
                THEN (<<p, i>> \in h.known \/ i \in o.added) /\ i \notin o.removed ELSE <<p, i>> \in h.known
           /\ <<p, i>> \in h2.stale => <<p, i>> \in h.stale
  <2>1. CASE p \notin h.pending
    <3>1. h2 = h1 /\ h.pending \ {p} = h.pending
      BY <1>7, <2>1
    <3> QED BY <1>6, <2>1, <3>1 DEF Outward
  <2>2. CASE p \in h.pending
    <3>1. h2 = process_changes(h1, p) /\ p \in Live(h1)
      BY <1>6, <1>7, <2>2
    <3>2. Typed(h2) /\ Announced(h1, h2, {p}) /\ Processed(h1, h2, p)
      BY <1>6, <3>1, Processes, ProcessTells
    <3>3. ToldAt(h1, h2, p) /\ \A q \in Path \ {p} : KeptAt(h1, h2, q)
      BY <3>2 DEF Announced
    <3>4. h1.object[p].added = o.added /\ h1.object[p].removed = o.removed
      BY <1>2, <1>6 DEF Alike
    <3>5. Live(h2) = Live(h) /\ h2.root = h.root /\ h2.pending = h.pending \ {p} /\ h2.dangling = h.dangling
      BY <1>6, <3>2 DEF Announced, Same, Outward
    <3>6. \A q \in Live(h) \ {p} : h2.object[q] = h1.object[q]
      BY <1>3, <3>3 DEF KeptAt
    <3>7. \A q \in Path \ {p}, i \in Name :
           (<<q, i>> \in h2.known <=> <<q, i>> \in h.known) /\ (<<q, i>> \in h2.stale <=> <<q, i>> \in h.stale)
      BY <1>6, <3>3 DEF KeptAt, Outward
    <3>8. \A i \in Name :
           /\ <<p, i>> \in h2.known <=>
                IF h.root \notin {NULL, p} THEN (<<p, i>> \in h.known \/ i \in o.added) /\ i \notin o.removed ELSE <<p, i>> \in h.known
           /\ <<p, i>> \in h2.stale => <<p, i>> \in h.stale
      BY <1>6, <3>3, <3>4 DEF ToldAt, Outward
    <3> QED BY <2>2, <3>2, <3>5, <3>6, <3>7, <3>8
  <2> QED BY <2>1, <2>2
<1> DEFINE New(q) == IF q \in O THEN [h2.object[q] EXCEPT !.parent = parent]
                     ELSE IF q = p THEN NULL ELSE h2.object[q]
<1>9. PICK f : f = [q \in Path |-> New(q)]
  OBVIOUS
<1>10. PICK h3 : h3 = k3
  OBVIOUS
<1>11. h3 = [h2 EXCEPT !.object = f]
  <2>1. f = [q \in Path |-> IF q \in h.object[p].objects THEN [k2.object[q] EXCEPT !.parent = h.object[p].parent]
                            ELSE IF q = p THEN NULL ELSE k2.object[q]]
    BY <1>2, <1>7, <1>9
  <2> QED BY <1>7, <1>10, <2>1 DEF k3
<1>12. O \subseteq Live(h) /\ p \notin O /\ parent \in Path \cup {NULL}
  BY <1>2, <1>3
<1>13. ASSUME NEW q \in Live(h), q # p
       PROVE  /\ New(q) \in Object /\ Alike(h2.object[q], New(q)) /\ New(q).introspect = h2.object[q].introspect
              /\ New(q).objects = h2.object[q].objects
              /\ New(q).parent = IF q \in O THEN parent ELSE h2.object[q].parent
  <2>1. h2.object[q] \in Object
    BY <1>8, ObjectTypes DEF Typed
  <2> QED BY <1>12, <1>13, <2>1 DEF Object, Alike
<1>14. New(p) = NULL /\ \A q \in Path \ Live(h) : New(q) = NULL
  <2>1. \A q \in Path \ Live(h) : h2.object[q] = NULL
    BY <1>8 DEF Live
  <2> QED BY <1>12, <2>1
<1> HIDE DEF New
<1>15. h2 \in HeapType
  BY <1>8 DEF Typed
<1>16. f \in [Path -> Object \cup {NULL}]
  BY <1>3, <1>9, <1>13, <1>14
<1>17. h3 \in HeapType /\ h3.object = f /\ Outward(h2, h3) /\ h3.dangling = h2.dangling
  BY <1>11, <1>15, <1>16 DEF HeapType, Outward
<1>18. Live(h3) = Live(h) \ {p}
  BY <1>3, <1>9, <1>13, <1>14, <1>17 DEF Live
<1>19. PICK b \in BOOLEAN : b = (h3.dangling \/ \E q \in Live(h3) : h3.object[q].parent = p \/ p \in h3.object[q].objects)
  OBVIOUS
<1>20. PICK h4 : h4 = generic_unregister(h, p)
  OBVIOUS
<1>21. h4 = [h3 EXCEPT !.dangling = b]
  <2>1. h4 = [h3 EXCEPT !.dangling = @ \/ \E q \in Live(h3) : h3.object[q].parent = p \/ p \in h3.object[q].objects]
    BY <1>1, <1>10, <1>20
  <2> QED BY <1>19, <2>1
<1>22. h4 \in HeapType /\ h4.object = f /\ Outward(h2, h4) /\ h4.dangling = b
  BY <1>17, <1>21 DEF HeapType, Outward
<1>23. Live(h4) = Live(h) \ {p}
  BY <1>17, <1>18, <1>22 DEF Live
<1>24. \A q \in Live(h4) :
           /\ Alike(h.object[q], h4.object[q]) /\ h4.object[q].introspect = h.object[q].introspect
           /\ h4.object[q].objects = IF q = parent THEN h.object[q].objects \ {p} ELSE h.object[q].objects
           /\ h4.object[q].parent = IF q \in O THEN parent ELSE h.object[q].parent
  <2> SUFFICES ASSUME NEW q \in Live(h4)
               PROVE  /\ Alike(h.object[q], h4.object[q]) /\ h4.object[q].introspect = h.object[q].introspect
                      /\ h4.object[q].objects = IF q = parent THEN h.object[q].objects \ {p} ELSE h.object[q].objects
                      /\ h4.object[q].parent = IF q \in O THEN parent ELSE h.object[q].parent
    OBVIOUS
  <2>1. q \in Live(h) /\ q # p /\ q \in Path
    BY <1>3, <1>23
  <2>2. h4.object[q] = New(q) /\ h2.object[q] = h1.object[q]
    BY <1>8, <1>9, <1>22, <2>1
  <2> QED BY <1>6, <1>13, <2>1, <2>2 DEF Alike
<1>25. b = (h.dangling \/ \E q \in Live(h4) : h4.object[q].parent = p \/ p \in h4.object[q].objects)
  BY <1>8, <1>17, <1>18, <1>19, <1>22, <1>23
<1>26. Freed(h, h4, p)
  BY <1>2, <1>8, <1>22, <1>23, <1>24, <1>25 DEF Freed, Outward
<1>27. Typed(h4)
  <2>1. h4.pending \subseteq Live(h4)
    BY <1>8, <1>22, <1>23 DEF Outward, Typed
  <2>2. \A q \in Live(h4) : h4.object[q].added \cup h4.object[q].changed \subseteq h4.object[q].interfaces
    BY <1>23, <1>24 DEF Typed, Alike
  <2> QED BY <1>22, <2>1, <2>2 DEF Typed
<1> QED BY <1>20, <1>26, <1>27
-----------------------------------------------------------------------------
(* The tree, but for the objects in m: N is the next object above.           *)
Above1(h) == [p \in Path |-> Nearest(h, p)]

(* Parents and lists agree with N, but for the objects in m.                 *)
Tree(h, m, N) ==
  \A q \in Live(h) :
    LET o == h.object[q]
    IN  /\ o.parent \in Live(h) \cup {NULL} /\ o.objects \subseteq Live(h)
        /\ o.parent # NULL => o.parent \in ToSet(Above[q])
        /\ \A c \in o.objects : q \in ToSet(Above[c])
        /\ q \notin m => o.parent = N[q]
        /\ o.objects \ m = {c \in Live(h) \ m : N[c] = q}

(* The tree depends on parents and lists alone.                              *)
LEMMA TreeSame ==
  ASSUME NEW h, NEW h1, NEW m, NEW N, Tree(h, m, N), Live(h1) = Live(h),
         \A q \in Live(h) : h1.object[q].parent = h.object[q].parent /\ h1.object[q].objects = h.object[q].objects
  PROVE  Tree(h1, m, N)
BY DEF Tree

(* It may be said with more exceptions.                                      *)
LEMMA TreeWeaker ==
  ASSUME NEW h, NEW m, NEW N, Tree(h, m, N), NEW m1, NEW N1, m \cap Live(h) \subseteq m1,
         \A c \in Live(h) \ m1 : N1[c] = N[c]
  PROVE  Tree(h, m1, N1)
<1> SUFFICES ASSUME NEW q \in Live(h)
             PROVE  /\ q \notin m1 => h.object[q].parent = N1[q]
                    /\ h.object[q].objects \ m1 = {c \in Live(h) \ m1 : N1[c] = q}
  BY DEF Tree
<1>1. PICK o : o = h.object[q]
  OBVIOUS
<1>2. o.objects \subseteq Live(h) /\ (q \notin m => o.parent = N[q]) /\ o.objects \ m = {c \in Live(h) \ m : N[c] = q}
  BY <1>1 DEF Tree
<1>3. PICK O : O = o.objects
  OBVIOUS
<1>4. \A c \in Live(h) \ m1 : c \in O <=> N[c] = q
  BY <1>2, <1>3
<1>5. O \ m1 = {c \in Live(h) \ m1 : N1[c] = q}
  BY <1>2, <1>3, <1>4
<1> QED BY <1>1, <1>2, <1>3, <1>5

(* A new object is not in the tree yet ...                                   *)
LEMMA TreeCreated ==
  ASSUME NEW h, NEW h1, NEW p \in Path, Created(h, h1, p), p \notin Live(h), NEW m, NEW N, Tree(h, m, N),
         \A c \in Path : N[c] \in Live(h) \cup {NULL}
  PROVE  /\ Tree(h1, m \cup {p}, N) /\ h1.object[p].parent = NULL
         /\ \A q \in Live(h1) : p \notin h1.object[q].objects
<1>1. Live(h1) = Live(h) \cup {p} /\ p # NULL /\ Live(h) \subseteq Path /\ h1.object[p].objects = {} /\ h1.object[p].parent = NULL
  BY ObjectAssumption DEF Created, NewObject, Live
<1>2. \A q \in Live(h) : h1.object[q] = h.object[q]
  BY <1>1 DEF Created
<1>3. ASSUME NEW q \in Live(h)
      PROVE  LET o == h1.object[q]
             IN  /\ o.parent \in Live(h1) \cup {NULL} /\ o.objects \subseteq Live(h)
                 /\ o.parent # NULL => o.parent \in ToSet(Above[q])
                 /\ \A c \in o.objects : q \in ToSet(Above[c])
                 /\ q \notin m \cup {p} => o.parent = N[q]
                 /\ o.objects \ (m \cup {p}) = {c \in Live(h1) \ (m \cup {p}) : N[c] = q}
  <2>1. PICK o, O : o = h.object[q] /\ O = o.objects
    OBVIOUS
  <2>2. O \subseteq Live(h) /\ O \ m = {c \in Live(h) \ m : N[c] = q}
    BY <2>1 DEF Tree
  <2>3. O \ (m \cup {p}) = {c \in Live(h1) \ (m \cup {p}) : N[c] = q}
    BY <1>1, <2>2
  <2> QED BY <1>1, <1>2, <2>1, <2>2, <2>3 DEF Tree
<1>4. {c \in Live(h1) \ (m \cup {p}) : N[c] = p} = {}
  BY <1>1
<1> QED BY <1>1, <1>3, <1>4 DEF Tree

(* ... until it has its parent, and is in the one list.                      *)
LEMMA TreeSettled ==
  ASSUME NEW h, NEW p \in Live(h), NEW m, p \notin m, NEW N, Tree(h, m \cup {p}, N), h.object[p].parent = N[p],
         \A q \in Live(h) : p \in h.object[q].objects <=> N[p] = q
  PROVE  Tree(h, m, N)
<1> SUFFICES ASSUME NEW q \in Live(h)
             PROVE  /\ q \notin m => h.object[q].parent = N[q]
                    /\ h.object[q].objects \ m = {c \in Live(h) \ m : N[c] = q}
  BY DEF Tree
<1>1. PICK O : O = h.object[q].objects
  OBVIOUS
<1>2. O \subseteq Live(h) /\ O \ (m \cup {p}) = {c \in Live(h) \ (m \cup {p}) : N[c] = q} /\ (p \in O <=> N[p] = q)
      /\ (q \notin m \cup {p} => h.object[q].parent = N[q])
  BY <1>1 DEF Tree
<1>3. O \ m = {c \in Live(h) \ m : N[c] = q}
  BY <1>2
<1> QED BY <1>1, <1>2, <1>3

(* invalidate_parent_data puts all on the way to p into their lists.         *)
LEMMA TreeRelinked ==
  ASSUME NEW h, NEW h1, NEW p \in Path, Relinked(h, h1, p), NEW m, NEW N, Tree(h, m, N),
         \A c \in Live(h) \cap (ToSet(Above[p]) \cup {p}) : N[c] = Nearest(h, c)
  PROVE  /\ Tree(h1, m, N)
         /\ \A q \in Live(h) : /\ h.object[q].objects \subseteq h1.object[q].objects
                               /\ h.object[q].parent # NULL => h1.object[q].parent # NULL
         /\ \A c \in Live(h) \cap (ToSet(Above[p]) \cup {p}) : N[c] # NULL =>
              /\ N[c] \in Live(h) /\ c \in h1.object[N[c]].objects
              /\ (\A q \in Live(h) : c \notin h.object[q].objects) =>
                   h1.object[c].parent = N[c] /\ \A q \in Live(h) : c \in h1.object[q].objects => q = N[c]
<1>1. PICK L, A : L = Linked(h, p) /\ A = Live(h) \cap (ToSet(Above[p]) \cup {p})
  OBVIOUS
<1>2. Live(h1) = Live(h) /\ Live(h) \subseteq Path /\ NULL \notin Path
  BY ObjectAssumption DEF Relinked, Live
<1>3. L \subseteq A /\ \A c \in A : c \in L <=> N[c] # NULL /\ c \notin h.object[N[c]].objects
  BY <1>1 DEF Linked
<1>4. \A c \in A : N[c] # NULL => N[c] \in Live(h) /\ N[c] \in ToSet(Above[c])
  BY <1>1, <1>2, NearestAbove
<1>5. \A c \in L : c \in m
  <2> SUFFICES ASSUME NEW c \in L, c \notin m PROVE FALSE
    OBVIOUS
  <2>1. c \in Live(h) /\ N[c] \in Live(h) /\ c \notin h.object[N[c]].objects
    BY <1>1, <1>3, <1>4
  <2>2. PICK n \in Live(h) : n = N[c]
    BY <2>1
  <2>3. h.object[n].objects \ m = {d \in Live(h) \ m : N[d] = n}
    BY DEF Tree
  <2> QED BY <2>1, <2>2, <2>3
<1>6. ASSUME NEW q \in Live(h)
      PROVE  /\ h1.object[q].objects = h.object[q].objects \cup {c \in L : N[c] = q}
             /\ h1.object[q].parent = IF q \in L THEN N[q] ELSE h.object[q].parent
  <2>1. {c \in L : Nearest(h, c) = q} = {c \in L : N[c] = q} /\ (q \in L => Nearest(h, q) = N[q])
    BY <1>1, <1>3
  <2> QED BY <1>1, <2>1 DEF Relinked
<1>7. ASSUME NEW q \in Live(h)
      PROVE  LET o == h1.object[q]
             IN  /\ o.parent \in Live(h) \cup {NULL} /\ o.objects \subseteq Live(h)
                 /\ o.parent # NULL => o.parent \in ToSet(Above[q])
                 /\ \A c \in o.objects : q \in ToSet(Above[c])
                 /\ q \notin m => o.parent = N[q]
                 /\ o.objects \ m = {c \in Live(h) \ m : N[c] = q}
  <2>1. PICK O, O1, x, x1 : O = h.object[q].objects /\ O1 = h1.object[q].objects /\ x = h.object[q].parent /\ x1 = h1.object[q].parent
    OBVIOUS
  <2>2. O1 = O \cup {c \in L : N[c] = q} /\ x1 = IF q \in L THEN N[q] ELSE x
    BY <1>6, <2>1
  <2>3. /\ x \in Live(h) \cup {NULL} /\ O \subseteq Live(h) /\ (x # NULL => x \in ToSet(Above[q]))
        /\ (\A c \in O : q \in ToSet(Above[c])) /\ (q \notin m => x = N[q]) /\ O \ m = {c \in Live(h) \ m : N[c] = q}
    BY <2>1 DEF Tree
  <2>4. O1 \ m = O \ m
    BY <1>5, <2>2
  <2>5. x1 \in Live(h) \cup {NULL} /\ (x1 # NULL => x1 \in ToSet(Above[q])) /\ (q \notin m => x1 = N[q])
    BY <1>3, <1>4, <1>5, <2>2, <2>3
  <2>6. O1 \subseteq Live(h) /\ \A c \in O1 : q \in ToSet(Above[c])
    BY <1>1, <1>3, <1>4, <2>2, <2>3
  <2> QED BY <2>1, <2>3, <2>4, <2>5, <2>6
<1>8. Tree(h1, m, N)
  BY <1>2, <1>7 DEF Tree
<1>9. \A q \in Live(h) : /\ h.object[q].objects \subseteq h1.object[q].objects
                         /\ h.object[q].parent # NULL => h1.object[q].parent # NULL
  BY <1>3, <1>6
<1>10. ASSUME NEW c \in A, N[c] # NULL
       PROVE  /\ N[c] \in Live(h) /\ c \in h1.object[N[c]].objects
              /\ (\A q \in Live(h) : c \notin h.object[q].objects) =>
                   h1.object[c].parent = N[c] /\ \A q \in Live(h) : c \in h1.object[q].objects => q = N[c]
  <2>1. PICK n \in Live(h) : n = N[c]
    BY <1>4, <1>10
  <2>2. c \in h1.object[n].objects
    BY <1>3, <1>6, <1>10, <2>1
  <2>3. ASSUME \A q \in Live(h) : c \notin h.object[q].objects
        PROVE  h1.object[c].parent = N[c] /\ \A q \in Live(h) : c \in h1.object[q].objects => q = N[c]
    <3>1. c \in L /\ c \in Live(h)
      BY <1>1, <1>3, <1>10, <2>1, <2>3
    <3> QED BY <1>6, <2>3, <3>1
  <2> QED BY <2>1, <2>2, <2>3
<1> QED BY <1>1, <1>8, <1>9, <1>10

(* The objects below one that is freed lose their place.                     *)
LEMMA TreeFreed ==
  ASSUME NEW h, NEW h1, NEW p \in Live(h), Freed(h, h1, p), ~h1.dangling, NEW m, NEW N, Tree(h, m, N),
         NEW m1, m \cap Live(h1) \subseteq m1, \A c \in Live(h1) \ m1 : N[c] # p
  PROVE  Tree(h1, m1, N)
<1>1. Live(h1) = Live(h) \ {p} /\ Live(h) \subseteq Path
  BY DEF Freed, Live
<1>2. PICK op, oO : op = h.object[p].parent /\ oO = h.object[p].objects
  OBVIOUS
<1>3. /\ op \in Live(h) \cup {NULL} /\ (op # NULL => op \in ToSet(Above[p])) /\ oO \subseteq Live(h)
      /\ (\A c \in oO : p \in ToSet(Above[c])) /\ oO \ m = {c \in Live(h) \ m : N[c] = p}
  BY <1>2 DEF Tree
<1>4. p \notin ToSet(Above[p]) /\ p # NULL
  BY <1>1, NotAboveItself, ObjectAssumption
<1>5. SUFFICES ASSUME NEW q \in Live(h1)
      PROVE  LET o == h1.object[q]
             IN  /\ o.parent \in Live(h1) \cup {NULL} /\ o.objects \subseteq Live(h1)
                 /\ o.parent # NULL => o.parent \in ToSet(Above[q])
                 /\ \A c \in o.objects : q \in ToSet(Above[c])
                 /\ q \notin m1 => o.parent = N[q]
                 /\ o.objects \ m1 = {c \in Live(h1) \ m1 : N[c] = q}
  BY DEF Tree
<1>6. PICK O, O1, x, x1 : O = h.object[q].objects /\ O1 = h1.object[q].objects /\ x = h.object[q].parent /\ x1 = h1.object[q].parent
  OBVIOUS
<1>7. q \in Live(h) /\ q # p /\ q \in Path
  BY <1>1
<1>8. /\ x \in Live(h) \cup {NULL} /\ O \subseteq Live(h) /\ (x # NULL => x \in ToSet(Above[q]))
      /\ (\A c \in O : q \in ToSet(Above[c])) /\ (q \notin m => x = N[q]) /\ O \ m = {c \in Live(h) \ m : N[c] = q}
  BY <1>6, <1>7 DEF Tree
<1>9. O1 = (IF q = op THEN O \ {p} ELSE O) /\ x1 = IF q \in oO THEN op ELSE x
  BY <1>2, <1>6 DEF Freed
<1>10. x1 # p /\ p \notin O1
  BY <1>6 DEF Freed
<1>11. q \in oO => ToSet(Above[p]) \subseteq ToSet(Above[q])
  BY <1>3, <1>7, AboveAbove
<1>12. x1 \in Live(h1) \cup {NULL} /\ (x1 # NULL => x1 \in ToSet(Above[q]))
  BY <1>1, <1>3, <1>8, <1>9, <1>10, <1>11
<1>13. q \notin m1 => x1 = N[q]
  <2> SUFFICES ASSUME q \notin m1 PROVE x1 = N[q]
    OBVIOUS
  <2>1. q \notin m /\ N[q] # p
    BY <1>5, <1>7
  <2>2. q \notin oO
    BY <1>3, <1>7, <2>1
  <2> QED BY <1>8, <1>9, <2>1, <2>2
<1>14. O1 \subseteq Live(h1) /\ \A c \in O1 : q \in ToSet(Above[c])
  BY <1>1, <1>8, <1>9, <1>10
<1>15. O1 \ m1 = {c \in Live(h1) \ m1 : N[c] = q}
  BY <1>1, <1>8, <1>9, <1>10
<1> QED BY <1>6, <1>12, <1>13, <1>14, <1>15

(* Where none has lost its place, no pointer to a freed object is left.      *)
LEMMA NoneDangles ==
  ASSUME NEW h, NEW h1, NEW p \in Live(h), Freed(h, h1, p), ~h.dangling, NEW N, Tree(h, {}, N)
  PROVE  ~h1.dangling
<1>1. Live(h1) = Live(h) \ {p} /\ p \in Path /\ p \notin ToSet(Above[p]) /\ p # NULL
  BY NotAboveItself, ObjectAssumption DEF Freed, Live
<1>2. PICK op, oO : op = h.object[p].parent /\ oO = h.object[p].objects
  OBVIOUS
<1>3. op = N[p] /\ (op # NULL => op \in ToSet(Above[p])) /\ oO = {c \in Live(h) : N[c] = p}
  BY <1>2 DEF Tree
<1> SUFFICES ASSUME NEW q \in Live(h1), h1.object[q].parent = p \/ p \in h1.object[q].objects PROVE FALSE
  BY DEF Freed
<1>4. PICK O, O1, x, x1 : O = h.object[q].objects /\ O1 = h1.object[q].objects /\ x = h.object[q].parent /\ x1 = h1.object[q].parent
  OBVIOUS
<1>5. q \in Live(h) /\ x = N[q] /\ O = {c \in Live(h) : N[c] = q}
  BY <1>1, <1>4 DEF Tree
<1>6. O1 = (IF q = op THEN O \ {p} ELSE O) /\ x1 = IF q \in oO THEN op ELSE x
  BY <1>2, <1>4 DEF Freed
<1>7. x1 # p
  BY <1>1, <1>3, <1>5, <1>6
<1>8. p \notin O1
  BY <1>1, <1>3, <1>5, <1>6
<1> QED BY <1>4, <1>7, <1>8

(* While there is an object manager, an object that has been announced has   *)
(* a parent, and so have the objects above it but for those that are in some *)
(* list (and so cannot be freed without leaving a pointer behind).           *)
InList(h, z) == \E w \in Live(h) : z \in h.object[w].objects
Hung(h, ex) ==
  h.root # NULL /\ Root \in Live(h) => \A d \in Live(h) \ {Root}, i \in Name : <<d, i>> \notin ex =>
    /\ h.object[d].parent # NULL
    /\ \A z \in (Live(h) \cap ToSet(Above[d])) \ {Root} : h.object[z].parent # NULL \/ InList(h, z)

(* Parents and lists may grow.                                               *)
LEMMA HungSame ==
  ASSUME NEW h, NEW h1, NEW ex, Hung(h, ex), Live(h1) = Live(h), h1.root = h.root,
         \A q \in Live(h) : /\ h.object[q].parent # NULL => h1.object[q].parent # NULL
                            /\ h.object[q].objects \subseteq h1.object[q].objects
  PROVE  Hung(h1, ex)
<1> SUFFICES ASSUME h.root # NULL, Root \in Live(h), NEW d \in Live(h) \ {Root}, NEW i \in Name, <<d, i>> \notin ex
             PROVE  /\ h1.object[d].parent # NULL
                    /\ \A z \in (Live(h) \cap ToSet(Above[d])) \ {Root} : h1.object[z].parent # NULL \/ InList(h1, z)
  BY DEF Hung
<1>1. /\ h.object[d].parent # NULL
      /\ \A z \in (Live(h) \cap ToSet(Above[d])) \ {Root} : h.object[z].parent # NULL \/ InList(h, z)
  BY DEF Hung
<1>2. \A z : InList(h, z) => InList(h1, z)
  BY DEF InList
<1> QED BY <1>1, <1>2

(* A new object, once it and those above it are linked.                      *)
LEMMA HungCreated ==
  ASSUME NEW h, NEW ex, Hung(h, ex), h.root # NULL => Root \in Live(h), NEW p \in Path \ Live(h),
         NEW h1, Created(h, h1, p), NEW h2, Relinked(h1, h2, p), NEW m, NEW N, Tree(h1, m, N),
         \A c \in Live(h1) \cap (ToSet(Above[p]) \cup {p}) : N[c] = Nearest(h1, c),
         \A q \in Live(h1) : p \notin h1.object[q].objects
  PROVE  Hung(h2, ex)
<1>1. Live(h1) = Live(h) \cup {p} /\ Live(h2) = Live(h1) /\ h1.root = h.root /\ h2.root = h1.root /\ Live(h1) \subseteq Path
  BY DEF Created, Relinked, Outward, Live
<1>2. /\ \A q \in Live(h1) : /\ h1.object[q].objects \subseteq h2.object[q].objects
                             /\ h1.object[q].parent # NULL => h2.object[q].parent # NULL
      /\ \A c \in Live(h1) \cap (ToSet(Above[p]) \cup {p}) : N[c] # NULL =>
           /\ N[c] \in Live(h1) /\ c \in h2.object[N[c]].objects
           /\ (\A q \in Live(h1) : c \notin h1.object[q].objects) =>
                   h2.object[c].parent = N[c]
  BY TreeRelinked
<1>3. \A q \in Live(h) : h1.object[q] = h.object[q]
  BY <1>1 DEF Created
<1>4. \A z : InList(h, z) => InList(h2, z)
  BY <1>1, <1>2, <1>3 DEF InList
<1> SUFFICES ASSUME h.root # NULL, NEW d \in Live(h1) \ {Root}, NEW i \in Name, <<d, i>> \notin ex
             PROVE  /\ h2.object[d].parent # NULL
                    /\ \A z \in (Live(h1) \cap ToSet(Above[d])) \ {Root} : h2.object[z].parent # NULL \/ InList(h2, z)
  BY <1>1 DEF Hung
<1>5. Root \in Live(h1)
  BY <1>1
<1>6. ASSUME NEW c \in Live(h1) \cap (ToSet(Above[p]) \cup {p}), c # Root PROVE N[c] # NULL
  <2>1. c \in Path \ {Root}
    BY <1>1, <1>6
  <2> QED BY <1>5, <2>1, RootAbove, NearestAbove
<1>7. p # Root => h2.object[p].parent # NULL /\ InList(h2, p)
  BY <1>1, <1>2, <1>6, ObjectAssumption DEF InList
<1>8. ASSUME NEW z \in (Live(h1) \cap ToSet(Above[d])) \ {Root} PROVE h2.object[z].parent # NULL \/ InList(h2, z)
  <2>1. CASE z = p
    BY <1>7, <2>1
  <2>2. CASE d = p
    <3>1. N[z] # NULL
      BY <1>6, <1>8, <2>2
    <3> QED BY <1>1, <1>2, <1>8, <2>2, <3>1 DEF InList
  <2>3. CASE z # p /\ d # p
    <3>1. h.object[z].parent # NULL \/ InList(h, z)
      BY <1>1, <1>8, <2>3 DEF Hung
    <3> QED BY <1>1, <1>2, <1>3, <1>4, <1>8, <2>3, <3>1
  <2> QED BY <2>1, <2>2, <2>3
<1>9. h2.object[d].parent # NULL
  <2>1. CASE d = p
    BY <1>7, <2>1
  <2>2. CASE d # p
    <3>1. h.object[d].parent # NULL
      BY <1>1, <2>2 DEF Hung
    <3> QED BY <1>1, <1>2, <1>3, <2>2, <3>1
  <2> QED BY <2>1, <2>2
<1> QED BY <1>8, <1>9

(* Whoever loses its parent for good was not announced.                      *)
LEMMA HungFreed ==
  ASSUME NEW h, NEW ex, Hung(h, ex), NEW p \in Live(h), NEW m, NEW N, Tree(h, m, N),
         NEW h1, Freed(h, h1, p), ~h1.dangling
  PROVE  Hung(h1, ex)
<1>1. Live(h1) = Live(h) \ {p} /\ h1.root = h.root /\ Live(h) \subseteq Path /\ p # NULL
  BY ObjectAssumption DEF Freed, Live
<1>2. PICK op, oO : op = h.object[p].parent /\ oO = h.object[p].objects
  OBVIOUS
<1>3. \A q \in Live(h1) : h1.object[q].parent = IF q \in oO THEN op ELSE h.object[q].parent
  BY <1>2 DEF Freed
<1>4. \A w \in Live(h1) : h.object[w].objects \ {p} \subseteq h1.object[w].objects
  BY DEF Freed
<1>5. op = NULL => ~InList(h, p)
  <2> SUFFICES ASSUME op = NULL, NEW w \in Live(h), p \in h.object[w].objects PROVE FALSE
    BY DEF InList
  <2>1. w # p
    BY <1>1, NotAboveItself DEF Tree
  <2>2. w \in Live(h1) /\ w # op
    BY <1>1, <2>1, ObjectAssumption
  <2>3. h1.object[w].objects = h.object[w].objects
    BY <1>2, <2>2 DEF Freed
  <2> QED BY <2>2, <2>3 DEF Freed
<1> SUFFICES ASSUME h.root # NULL, Root \in Live(h1), NEW d \in Live(h1) \ {Root}, NEW i \in Name, <<d, i>> \notin ex
             PROVE  /\ h1.object[d].parent # NULL
                    /\ \A z \in (Live(h1) \cap ToSet(Above[d])) \ {Root} : h1.object[z].parent # NULL \/ InList(h1, z)
  BY <1>1 DEF Hung
<1>6. /\ h.object[d].parent # NULL
      /\ \A z \in (Live(h) \cap ToSet(Above[d])) \ {Root} : h.object[z].parent # NULL \/ InList(h, z)
  BY <1>1 DEF Hung
<1>7. p \in ToSet(Above[d]) => op # NULL
  BY <1>1, <1>2, <1>5, <1>6
<1>8. \A q \in oO : p \in ToSet(Above[q])
  BY <1>2 DEF Tree
<1>9. h1.object[d].parent # NULL
  BY <1>3, <1>6, <1>7, <1>8
<1>10. ASSUME NEW z \in (Live(h1) \cap ToSet(Above[d])) \ {Root} PROVE h1.object[z].parent # NULL \/ InList(h1, z)
  <2>1. ToSet(Above[z]) \subseteq ToSet(Above[d])
    BY <1>1, <1>10, AboveAbove
  <2>2. z \in oO => op # NULL
    BY <1>7, <1>8, <2>1
  <2>3. CASE h.object[z].parent # NULL
    BY <1>3, <1>10, <2>2, <2>3
  <2>4. CASE InList(h, z)
    <3>1. PICK w \in Live(h) : z \in h.object[w].objects
      BY <2>4 DEF InList
    <3>2. CASE w = p
      BY <1>2, <1>3, <1>10, <2>2, <3>1, <3>2
    <3>3. CASE w # p
      BY <1>1, <1>4, <1>10, <3>1, <3>3 DEF InList
    <3> QED BY <3>2, <3>3
  <2>5. h.object[z].parent # NULL \/ InList(h, z)
    BY <1>1, <1>6, <1>10
  <2> QED BY <2>3, <2>4, <2>5
<1> QED BY <1>9, <1>10
-----------------------------------------------------------------------------
(* What has been announced, but for the pairs in ex.                         *)
TellsAt(h, p, i) ==
  /\ <<p, i>> \in h.known <=>
       /\ p \in Live(h) \ {Root}
       /\ i \in h.object[p].removed \/ i \in h.object[p].interfaces \ h.object[p].added
  /\ p \in Live(h) =>
       /\ i \in h.object[p].added \cup h.object[p].removed => p \in h.pending
       /\ ~(i \in h.object[p].removed /\ i \in h.object[p].interfaces)
Tells(h, ex) ==
  /\ h.root # NULL => \A p \in Path, i \in Name : <<p, i>> \notin ex => TellsAt(h, p, i)
  /\ Root \in Live(h) => h.object[Root].added = {} /\ h.object[Root].removed = {}

(* Which values have been told, but for those in ex, and for those in lo that *)
(* wait.                                                                     *)
StaleAt(h, p, i, ex, lo) ==
  /\ p \in Live(h) /\ i \in h.object[p].interfaces /\ i \in Propertied
  /\ \/ <<p, i>> \in ex
     \/ <<p, i>> \in lo /\ i \in h.object[p].changed
     \/ i \in h.object[p].changed /\ h.object[p].pending_prop
     \/ h.root # NULL /\ i \in h.object[p].added
Stale(h, ex, lo) ==
  /\ \A p \in Path, i \in Name : <<p, i>> \in h.stale => StaleAt(h, p, i, ex, lo)
  /\ \A p \in Live(h) : h.object[p].pending_prop => p \in h.pending

(* Announcing depends on the lists and the picture alone.                    *)
LEMMA TellsSame ==
  ASSUME NEW h, NEW h1, NEW ex, NEW lo, Live(h1) = Live(h), h1.root = h.root,
         h1.pending = h.pending, h1.known = h.known, h1.stale = h.stale,
         \A q \in Live(h) :
           /\ h1.object[q].interfaces = h.object[q].interfaces /\ h1.object[q].added = h.object[q].added
           /\ h1.object[q].removed = h.object[q].removed /\ h1.object[q].changed = h.object[q].changed
           /\ h1.object[q].pending_prop = h.object[q].pending_prop
  PROVE  (Tells(h, ex) => Tells(h1, ex)) /\ (Stale(h, ex, lo) => Stale(h1, ex, lo))
BY DEF Tells, TellsAt, Stale, StaleAt

(* More may be excused.                                                      *)
LEMMA TellsWeaker ==
  ASSUME NEW h, NEW ex, NEW lo, NEW ex1, NEW lo1, ex \subseteq ex1, lo \subseteq lo1
  PROVE  /\ Tells(h, ex) => Tells(h, ex1)
         /\ Stale(h, ex, lo) => Stale(h, ex1, lo1)
         /\ Hung(h, ex) => Hung(h, ex1)
BY DEF Tells, Stale, StaleAt, Hung

(* An interface added waits to be announced, unless it is in both lists.     *)
LEMMA TellsAdded ==
  ASSUME NEW h, Typed(h), NEW p \in Live(h), NEW i \in Name, NEW h1, Added(h, h1, p, i), i \notin h.object[p].interfaces,
         NEW ex, NEW lo, Tells(h, ex), Stale(h, ex, lo), NEW m, NEW N, Tree(h, m, N), Hung(h, ex),
         i \in h1.object[p].added /\ i \in h1.object[p].removed => <<p, i>> \in ex,
         h.root # NULL => Root \in Live(h)
  PROVE  Tells(h1, ex) /\ Stale(h1, ex, lo)
<1>1. p \in Path /\ Live(h1) = Live(h) /\ Live(h) \subseteq Path
  BY DEF Added, Elsewhere, Live
<1>2. PICK o, o1 : o = h.object[p] /\ o1 = h1.object[p]
  OBVIOUS
<1>3. p = Root => o.parent = NULL
  BY <1>2, RootAbove DEF Tree
<1>4. o.added \subseteq o.interfaces
  BY <1>2 DEF Typed
<1>5. \A q \in Path \ {p} : h1.object[q] = h.object[q]
  BY DEF Added, Elsewhere
<1>6. /\ o1.interfaces = o.interfaces \cup {i} /\ o1.removed = o.removed /\ o1.changed = o.changed /\ o1.pending_prop = o.pending_prop
      /\ o.parent = NULL => o1.added = o.added /\ h1.pending = h.pending
      /\ o.parent # NULL => o1.added = o.added \cup {i} /\ h1.pending = h.pending \cup {p}
      /\ h1.known = h.known /\ h1.stale = h.stale /\ h1.root = h.root
  BY <1>2 DEF Added, Same
<1>7. Root \in Live(h) => h.object[Root].added = {} /\ h.object[Root].removed = {}
  BY DEF Tells
<1>8. Root \in Live(h1) => h1.object[Root].added = {} /\ h1.object[Root].removed = {}
  <2>1. CASE p = Root
    BY <1>1, <1>2, <1>3, <1>6, <1>7, <2>1
  <2>2. CASE p # Root
    BY <1>1, <1>5, <1>7, <2>2
  <2> QED BY <2>1, <2>2
<1>9. ASSUME h1.root # NULL, NEW q \in Path, NEW j \in Name, <<q, j>> \notin ex PROVE TellsAt(h1, q, j)
  <2>1. TellsAt(h, q, j)
    BY <1>6, <1>9 DEF Tells
  <2>2. CASE q # p
    BY <1>1, <1>5, <1>6, <2>1, <2>2 DEF TellsAt
  <2>3. CASE q = p /\ j # i
    BY <1>1, <1>2, <1>6, <2>1, <2>3 DEF TellsAt
  <2>4. CASE q = p /\ j = i /\ p = Root
    BY <1>1, <1>2, <1>6, <1>7, <1>8, <2>1, <2>4 DEF TellsAt
  <2>5. CASE q = p /\ j = i /\ p # Root
    <3>1. o.parent # NULL
      BY <1>2, <1>6, <1>9, <2>5 DEF Hung
    <3>2. i \notin o1.removed
      BY <1>2, <1>6, <1>9, <2>5, <3>1
    <3> QED BY <1>1, <1>2, <1>4, <1>6, <2>1, <2>5, <3>1, <3>2 DEF TellsAt
  <2> QED BY <2>2, <2>3, <2>4, <2>5
<1>10. ASSUME NEW q \in Path, NEW j \in Name, <<q, j>> \in h1.stale PROVE StaleAt(h1, q, j, ex, lo)
  <2>1. StaleAt(h, q, j, ex, lo)
    BY <1>6, <1>10 DEF Stale
  <2>2. CASE q # p
    BY <1>1, <1>5, <1>6, <2>1, <2>2 DEF StaleAt
  <2>3. CASE q = p
    BY <1>1, <1>2, <1>6, <2>1, <2>3 DEF StaleAt
  <2> QED BY <2>2, <2>3
<1>11. \A q \in Live(h1) : h1.object[q].pending_prop => q \in h1.pending
  BY <1>1, <1>2, <1>5, <1>6 DEF Stale
<1> QED BY <1>8, <1>9, <1>10, <1>11 DEF Tells, Stale

(* One removed does too; the flag of the others that changed is lost.        *)
LEMMA TellsRemoved ==
  ASSUME NEW h, Typed(h), NEW p \in Live(h), NEW i \in Name, i \in h.object[p].interfaces, NEW h1, Removed(h, h1, p, i),
         NEW ex, NEW lo, Tells(h, ex), Stale(h, ex, lo), NEW m, NEW N, Tree(h, m, N), Hung(h, ex),
         NEW lo1, lo \subseteq lo1, \A j \in Name : <<p, j>> \in h.stale /\ j # i => <<p, j>> \in lo1,
         h.root # NULL => Root \in Live(h)
  PROVE  Tells(h1, ex) /\ Stale(h1, ex, lo1)
<1>1. p \in Path /\ Live(h1) = Live(h) /\ Live(h) \subseteq Path
  BY DEF Removed, Elsewhere, Live
<1>2. PICK o, o1 : o = h.object[p] /\ o1 = h1.object[p]
  OBVIOUS
<1>3. p = Root => o.parent = NULL
  BY <1>2, RootAbove DEF Tree
<1>4. o.added \subseteq o.interfaces
  BY <1>2 DEF Typed
<1>5. \A q \in Path \ {p} : h1.object[q] = h.object[q]
  BY DEF Removed, Elsewhere
<1>6. /\ o1.interfaces = o.interfaces \ {i} /\ o1.added = o.added \ {i} /\ o1.changed = o.changed \ {i} /\ ~o1.pending_prop
      /\ i \in o.added \/ o.parent = NULL => o1.removed = o.removed /\ h1.pending = h.pending
      /\ i \notin o.added /\ o.parent # NULL => o1.removed = o.removed \cup {i} /\ h1.pending = h.pending \cup {p}
      /\ h1.known = h.known /\ h1.stale = h.stale \ {<<p, i>>} /\ h1.root = h.root
  BY <1>2 DEF Removed, Same
<1>7. Root \in Live(h) => h.object[Root].added = {} /\ h.object[Root].removed = {}
  BY DEF Tells
<1>8. Root \in Live(h1) => h1.object[Root].added = {} /\ h1.object[Root].removed = {}
  <2>1. CASE p = Root
    BY <1>1, <1>2, <1>3, <1>6, <1>7, <2>1
  <2>2. CASE p # Root
    BY <1>1, <1>5, <1>7, <2>2
  <2> QED BY <2>1, <2>2
<1>9. ASSUME h1.root # NULL, NEW q \in Path, NEW j \in Name, <<q, j>> \notin ex PROVE TellsAt(h1, q, j)
  <2>1. TellsAt(h, q, j)
    BY <1>6, <1>9 DEF Tells
  <2>2. CASE q # p
    BY <1>1, <1>5, <1>6, <2>1, <2>2 DEF TellsAt
  <2>3. CASE q = p /\ j # i
    BY <1>1, <1>2, <1>6, <2>1, <2>3 DEF TellsAt
  <2>4. CASE q = p /\ j = i /\ p = Root
    BY <1>1, <1>2, <1>6, <1>7, <1>8, <2>1, <2>4 DEF TellsAt
  <2>5. CASE q = p /\ j = i /\ p # Root
    <3>1. o.parent # NULL
      BY <1>2, <1>6, <1>9, <2>5 DEF Hung
    <3> QED BY <1>1, <1>2, <1>4, <1>6, <2>1, <2>5, <3>1 DEF TellsAt
  <2> QED BY <2>2, <2>3, <2>4, <2>5
<1>10. ASSUME NEW q \in Path, NEW j \in Name, <<q, j>> \in h1.stale PROVE StaleAt(h1, q, j, ex, lo1)
  <2>1. StaleAt(h, q, j, ex, lo) /\ <<q, j>> \in h.stale /\ ~(q = p /\ j = i)
    BY <1>6, <1>10 DEF Stale
  <2>2. CASE q # p
    BY <1>1, <1>5, <1>6, <2>1, <2>2 DEF StaleAt
  <2>3. CASE q = p
    BY <1>1, <1>2, <1>6, <2>1, <2>3 DEF StaleAt
  <2> QED BY <2>2, <2>3
<1>11. \A q \in Live(h1) : h1.object[q].pending_prop => q \in h1.pending
  BY <1>1, <1>2, <1>5, <1>6 DEF Stale
<1> QED BY <1>8, <1>9, <1>10, <1>11 DEF Tells, Stale

(* What is announced becomes known, and its values told.                     *)
LEMMA TellsAnnounced ==
  ASSUME NEW h, Typed(h), NEW P \in SUBSET Live(h), NEW h1, Announced(h, h1, P),
         NEW ex, NEW lo, Tells(h, ex), Stale(h, ex, lo)
  PROVE  Tells(h1, ex) /\ Stale(h1, ex, lo)
<1>1. Live(h1) = Live(h) /\ h1.root = h.root /\ h1.pending = h.pending \ P /\ Live(h) \subseteq Path
  BY DEF Announced, Same, Live
<1>2. Root \in Live(h) => h.object[Root].added = {} /\ h.object[Root].removed = {}
  BY DEF Tells
<1>3. (\A p \in P : ToldAt(h, h1, p)) /\ (\A p \in Path \ P : KeptAt(h, h1, p)) /\ P \subseteq Path
  BY <1>1 DEF Announced
<1>4. Root \in Live(h1) => h1.object[Root].added = {} /\ h1.object[Root].removed = {}
  <2>1. CASE Root \in P
    BY <1>1, <1>2, <1>3, <2>1 DEF ToldAt
  <2>2. CASE Root \notin P
    BY <1>1, <1>2, <1>3, <2>2, ObjectAssumption DEF KeptAt
  <2> QED BY <2>1, <2>2
<1>5. ASSUME h1.root # NULL, NEW p \in Path, NEW i \in Name, <<p, i>> \notin ex PROVE TellsAt(h1, p, i)
  <2>1. TellsAt(h, p, i)
    BY <1>1, <1>5 DEF Tells
  <2>2. CASE p \notin P
    <3>1. KeptAt(h, h1, p)
      BY <1>3, <2>2
    <3> QED BY <1>1, <2>1, <2>2, <3>1 DEF TellsAt, KeptAt
  <2>3. CASE p \in P
    <3>1. ToldAt(h, h1, p) /\ p \in Live(h) /\ h.object[p].added \subseteq h.object[p].interfaces
      BY <1>3, <2>3 DEF Typed
    <3>2. CASE p = Root
      BY <1>1, <1>2, <1>4, <1>5, <2>1, <2>3, <3>1, <3>2 DEF TellsAt, ToldAt
    <3>3. CASE p # Root
      <4>1. h.root = Root
        BY <1>1, <1>5 DEF Typed, HeapType
      <4>2. PICK A, R, I : A = h.object[p].added /\ R = h.object[p].removed /\ I = h.object[p].interfaces
        OBVIOUS
      <4>3. /\ h1.object[p].added = {} /\ h1.object[p].removed = {} /\ h1.object[p].interfaces = I
            /\ <<p, i>> \in h1.known <=> (<<p, i>> \in h.known \/ i \in A) /\ i \notin R
        BY <1>1, <1>5, <3>1, <3>3, <4>1, <4>2 DEF ToldAt
      <4>4. (<<p, i>> \in h.known <=> i \in R \/ i \in I \ A) /\ ~(i \in R /\ i \in I) /\ A \subseteq I
        BY <2>1, <3>1, <3>3, <4>2 DEF TellsAt
      <4> QED BY <1>1, <3>1, <3>3, <4>3, <4>4 DEF TellsAt
    <3> QED BY <3>2, <3>3
  <2> QED BY <2>2, <2>3
<1>6. ASSUME NEW p \in Path, NEW i \in Name, <<p, i>> \in h1.stale PROVE StaleAt(h1, p, i, ex, lo)
  <2>1. CASE p \notin P
    <3>1. KeptAt(h, h1, p)
      BY <1>3, <2>1
    <3>2. StaleAt(h, p, i, ex, lo)
      BY <1>6, <3>1 DEF Stale, KeptAt
    <3> QED BY <1>1, <3>1, <3>2 DEF StaleAt, KeptAt
  <2>2. CASE p \in P
    <3>1. ToldAt(h, h1, p) /\ p \in Live(h)
      BY <1>3, <2>2
    <3>2. <<p, i>> \in h.stale /\ StaleAt(h, p, i, ex, lo)
      BY <1>6, <3>1 DEF Stale, ToldAt
    <3>3. h.root # NULL /\ i \in h.object[p].added => h.root \notin {NULL, p}
      <4>1. h.root \in {Root, NULL}
        BY DEF Typed, HeapType
      <4> QED BY <1>2, <3>1, <4>1
    <3> QED BY <1>1, <1>6, <3>1, <3>2, <3>3 DEF StaleAt, ToldAt
  <2> QED BY <2>1, <2>2
<1>7. \A q \in Live(h1) : h1.object[q].pending_prop => q \in h1.pending
  BY <1>1, <1>3 DEF Stale, ToldAt, KeptAt
<1> QED BY <1>4, <1>5, <1>6, <1>7 DEF Tells, Stale

(* A new object has nothing to announce.                                     *)
LEMMA TellsCreated ==
  ASSUME NEW h, NEW p \in Path \ Live(h), NEW h1, Created(h, h1, p), NEW ex, NEW lo, Tells(h, ex), Stale(h, ex, lo)
  PROVE  Tells(h1, ex) /\ Stale(h1, ex, lo)
<1>1. Live(h1) = Live(h) \cup {p} /\ h1.root = h.root /\ h1.pending = h.pending /\ h1.known = h.known /\ h1.stale = h.stale
      /\ (\A q \in Path \ {p} : h1.object[q] = h.object[q]) /\ Live(h) \subseteq Path
  BY DEF Created, Outward, Live
<1>2. PICK o : o = h1.object[p]
  OBVIOUS
<1>3. o.interfaces = {} /\ o.added = {} /\ o.removed = {} /\ ~o.pending_prop
  BY <1>2 DEF Created, NewObject
<1>4. ASSUME h1.root # NULL, NEW q \in Path, NEW i \in Name, <<q, i>> \notin ex PROVE TellsAt(h1, q, i)
  <2>1. TellsAt(h, q, i)
    BY <1>1, <1>4 DEF Tells
  <2> QED BY <1>1, <1>2, <1>3, <2>1 DEF TellsAt
<1>5. ASSUME NEW q \in Path, NEW i \in Name, <<q, i>> \in h1.stale PROVE StaleAt(h1, q, i, ex, lo)
  <2>1. StaleAt(h, q, i, ex, lo)
    BY <1>1, <1>5 DEF Stale
  <2> QED BY <1>1, <2>1 DEF StaleAt
<1>6. Root \in Live(h1) => h1.object[Root].added = {} /\ h1.object[Root].removed = {}
  BY <1>1, <1>2, <1>3 DEF Tells
<1>7. \A q \in Live(h1) : h1.object[q].pending_prop => q \in h1.pending
  BY <1>1, <1>2, <1>3 DEF Stale
<1> QED BY <1>4, <1>5, <1>6, <1>7 DEF Tells, Stale

(* One that is freed has nothing registered any more, and announces that     *)
(* first.                                                                    *)
LEMMA TellsFreed ==
  ASSUME NEW h, Typed(h), NEW p \in Live(h), h.object[p].interfaces = {}, NEW h1, Freed(h, h1, p),
         NEW ex, NEW lo, Tells(h, ex), Stale(h, ex, lo)
  PROVE  Tells(h1, ex) /\ Stale(h1, ex, lo)
<1>1. Live(h1) = Live(h) \ {p} /\ h1.root = h.root /\ h1.pending = h.pending \ {p} /\ Live(h) \subseteq Path
      /\ \A q \in Live(h1) : Alike(h.object[q], h1.object[q])
  BY DEF Freed, Live
<1>2. PICK o : o = h.object[p]
  OBVIOUS
<1>3. o.interfaces = {} /\ o.added = {}
  BY <1>2 DEF Typed
<1>4. \A q \in Path \ {p}, i \in Name : (<<q, i>> \in h1.known <=> <<q, i>> \in h.known) /\ (<<q, i>> \in h1.stale <=> <<q, i>> \in h.stale)
  BY DEF Freed
<1>5. \A i \in Name :
           /\ <<p, i>> \in h1.known <=>
                IF p \in h.pending /\ h.root \notin {NULL, p}
                THEN (<<p, i>> \in h.known \/ i \in o.added) /\ i \notin o.removed ELSE <<p, i>> \in h.known
           /\ <<p, i>> \in h1.stale => <<p, i>> \in h.stale
  BY <1>2 DEF Freed
<1>6. h.root \in {Root, NULL}
  BY DEF Typed, HeapType
<1>7. ASSUME h1.root # NULL, NEW q \in Path, NEW i \in Name, <<q, i>> \notin ex PROVE TellsAt(h1, q, i)
  <2>1. TellsAt(h, q, i)
    BY <1>1, <1>7 DEF Tells
  <2>2. CASE q # p
    BY <1>1, <1>4, <2>1, <2>2 DEF TellsAt, Alike
  <2>3. CASE q = p
    <3>1. <<p, i>> \notin h1.known
      BY <1>1, <1>2, <1>3, <1>5, <1>6, <1>7, <2>1, <2>3 DEF TellsAt
    <3> QED BY <1>1, <2>3, <3>1 DEF TellsAt
  <2> QED BY <2>2, <2>3
<1>8. ASSUME NEW q \in Path, NEW i \in Name, <<q, i>> \in h1.stale PROVE StaleAt(h1, q, i, ex, lo)
  <2>1. StaleAt(h, q, i, ex, lo)
    BY <1>1, <1>4, <1>5, <1>8 DEF Stale
  <2>2. q # p
    BY <1>2, <1>3, <2>1 DEF StaleAt
  <2> QED BY <1>1, <2>1, <2>2 DEF StaleAt, Alike
<1>9. Root \in Live(h1) => h1.object[Root].added = {} /\ h1.object[Root].removed = {}
  BY <1>1 DEF Tells, Alike
<1>10. \A q \in Live(h1) : h1.object[q].pending_prop => q \in h1.pending
  BY <1>1 DEF Stale, Alike
<1> QED BY <1>7, <1>8, <1>9, <1>10 DEF Tells, Stale
-----------------------------------------------------------------------------
(* References: one for each interface of the program, and the object manager; *)
(* one more for the objects in r.                                            *)
Counters == Interface \cup {ObjectManager}
Counted(h, r) ==
  \A q \in Live(h) :
    h.object[q].refs = Cardinality(h.object[q].interfaces \cap Counters) + IF q \in r THEN 1 ELSE 0

(* What counts as a reference is finite.                                     *)
LEMMA CountersFinite == IsFiniteSet(Counters)
BY FS_AddElement, ObjectAssumption DEF Counters

(* References depend on interfaces alone.                                    *)
LEMMA CountedSame ==
  ASSUME NEW h, NEW h1, NEW r, Counted(h, r), Live(h1) \subseteq Live(h),
         \A q \in Live(h1) : h1.object[q].interfaces = h.object[q].interfaces /\ h1.object[q].refs = h.object[q].refs
  PROVE  Counted(h1, r)
BY DEF Counted

(* The reference taken before an interface is added is the one for it, ...   *)
LEMMA CountedAdded ==
  ASSUME NEW h, Typed(h), NEW p \in Live(h), NEW i \in Name, NEW h1, Added(h, h1, p, i), i \notin h.object[p].interfaces
  PROVE  /\ i \in Counters /\ Counted(h, {p}) => Counted(h1, {})
         /\ \A r : i \notin Counters /\ Counted(h, r) => Counted(h1, r)
<1>1. PICK I, I1 : I = h.object[p].interfaces /\ I1 = I \cup {i}
  OBVIOUS
<1>2. h1.object[p].interfaces = I1 /\ h1.object[p].refs = h.object[p].refs /\ Live(h1) = Live(h)
      /\ \A q \in Live(h) : q # p => h1.object[q] = h.object[q]
  BY <1>1 DEF Added, Placed, Elsewhere, Live
<1>3. CASE i \in Counters
  <2>1. I1 \cap Counters = (I \cap Counters) \cup {i} /\ i \notin I \cap Counters
    BY <1>1, <1>3
  <2>2. IsFiniteSet(I \cap Counters)
    BY CountersFinite, FS_Subset
  <2>3. Cardinality(I1 \cap Counters) = Cardinality(I \cap Counters) + 1
    BY <2>1, <2>2, FS_AddElement
  <2>4. PICK n \in Nat : n = Cardinality(I \cap Counters)
    BY <2>2, FS_CardinalityType
  <2>5. ASSUME Counted(h, {p}), NEW q \in Live(h1)
        PROVE  h1.object[q].refs = Cardinality(h1.object[q].interfaces \cap Counters) + IF q \in {} THEN 1 ELSE 0
    <3>1. CASE q = p
      <4>1. h.object[p].refs = n + 1
        BY <1>1, <2>4, <2>5 DEF Counted
      <4>2. Cardinality(h1.object[q].interfaces \cap Counters) = n + 1
        BY <1>2, <2>3, <2>4, <3>1
      <4>3. h1.object[q].refs = n + 1
        BY <1>2, <3>1, <4>1
      <4>4. (n + 1) + (IF q \in {} THEN 1 ELSE 0) = n + 1
        OBVIOUS
      <4> QED BY ONLY <4>2, <4>3, <4>4
    <3>2. CASE q # p
      <4>1. q \in {p} <=> q \in {}
        BY <3>2
      <4> QED BY <1>2, <2>5, <3>2, <4>1 DEF Counted
    <3> QED BY <3>1, <3>2
  <2> QED BY <1>3, <2>5 DEF Counted
<1>4. CASE i \notin Counters
  <2>1. I1 \cap Counters = I \cap Counters
    BY <1>1, <1>4
  <2> QED BY <1>1, <1>2, <1>4, <2>1 DEF Counted
<1> QED BY <1>3, <1>4

(* ... and the one left when it is removed is too many.                      *)
LEMMA CountedRemoved ==
  ASSUME NEW h, Typed(h), NEW p \in Live(h), NEW i \in Name, NEW h1, Removed(h, h1, p, i), i \in h.object[p].interfaces
  PROVE  /\ i \in Counters /\ Counted(h, {}) => Counted(h1, {p})
         /\ \A r : i \notin Counters /\ Counted(h, r) => Counted(h1, r)
<1>1. PICK I, I1 : I = h.object[p].interfaces /\ I1 = I \ {i}
  OBVIOUS
<1>2. h1.object[p].interfaces = I1 /\ h1.object[p].refs = h.object[p].refs /\ Live(h1) = Live(h)
      /\ \A q \in Live(h) : q # p => h1.object[q] = h.object[q]
  BY <1>1 DEF Removed, Placed, Elsewhere, Live
<1>3. CASE i \in Counters
  <2>1. I1 \cap Counters = (I \cap Counters) \ {i} /\ i \in I \cap Counters
    BY <1>1, <1>3
  <2>2. IsFiniteSet(I \cap Counters)
    BY CountersFinite, FS_Subset
  <2>3. Cardinality(I1 \cap Counters) = Cardinality(I \cap Counters) - 1
    BY <2>1, <2>2, FS_RemoveElement
  <2>4. PICK n \in Nat : n = Cardinality(I \cap Counters)
    BY <2>2, FS_CardinalityType
  <2>5. ASSUME Counted(h, {}), NEW q \in Live(h1)
        PROVE  h1.object[q].refs = Cardinality(h1.object[q].interfaces \cap Counters) + IF q \in {p} THEN 1 ELSE 0
    <3>1. CASE q = p
      <4>1. h.object[p].refs = n + 0
        BY <1>1, <2>4, <2>5 DEF Counted
      <4>2. Cardinality(h1.object[q].interfaces \cap Counters) = n - 1
        BY <1>2, <2>3, <2>4, <3>1
      <4>3. h1.object[q].refs = n + 0
        BY <1>2, <3>1, <4>1
      <4>4. (n - 1) + (IF q \in {p} THEN 1 ELSE 0) = n + 0
        BY <3>1
      <4> QED BY ONLY <4>2, <4>3, <4>4
    <3>2. CASE q # p
      <4>1. q \in {p} <=> q \in {}
        BY <3>2
      <4> QED BY <1>2, <2>5, <3>2, <4>1 DEF Counted
    <3> QED BY <3>1, <3>2
  <2> QED BY <1>3, <2>5 DEF Counted
<1>4. CASE i \notin Counters
  <2>1. I1 \cap Counters = I \cap Counters
    BY <1>1, <1>4
  <2> QED BY <1>1, <1>2, <1>4, <2>1 DEF Counted
<1> QED BY <1>3, <1>4
-----------------------------------------------------------------------------
(* Introspection: what it would tell now.                                    *)
FreshAt(h, q) ==
  LET xml == h.object[q].introspect
      now == generate_introspection_xml(h, q)
  IN  /\ q # Root => xml # Stub
      /\ xml \notin {NULL, Stub} =>
           xml.children = now.children /\ now.interfaces \ xml.interfaces \subseteq {ObjectManager}
           /\ xml.interfaces \subseteq now.interfaces

(* All but the objects in x are fresh, and have Introspectable.              *)
Fresh(h, x) == \A q \in Live(h) \ x : FreshAt(h, q) /\ Introspectable \in h.object[q].interfaces

(* The nodes below an object that is not above p are the same with p and     *)
(* without.                                                                  *)
LEMMA ListSame ==
  ASSUME NEW h, NEW h1, NEW p \in Path, Live(h) \ {p} = Live(h1) \ {p}, NEW q \in Path, q \notin ToSet(Above[p])
  PROVE  list_registered(h, q) = list_registered(h1, q)
<1>1. ASSUME NEW c \in Path \ {Root}, Head(Above[c]) = q
      PROVE  c # p /\ c \notin ToSet(Above[p])
  <2>1. q \in ToSet(Above[c])
    BY <1>1, RootAbove
  <2> QED BY <2>1, AboveAbove
<1>2. \A c \in Path \ {Root} : Head(Above[c]) = q =>
        ((\E w \in Live(h) : c = w \/ c \in ToSet(Above[w])) <=> (\E w \in Live(h1) : c = w \/ c \in ToSet(Above[w])))
  BY <1>1
<1> QED BY <1>2 DEF list_registered

(* A cached introspection depends on what is there.                          *)
LEMMA FreshElsewhere ==
  ASSUME NEW h, NEW h1, NEW x, Fresh(h, x), Live(h1) = Live(h),
         \A q \in Live(h) \ x : h1.object[q].interfaces = h.object[q].interfaces
                                /\ h1.object[q].introspect = h.object[q].introspect
  PROVE  Fresh(h1, x)
<1>1. \A q : list_registered(h1, q) = list_registered(h, q)
  BY DEF list_registered
<1> QED BY <1>1 DEF Fresh, FreshAt, generate_introspection_xml

(* When an object comes or goes, those above it are reset.                   *)
LEMMA FreshChanged ==
  ASSUME NEW h, NEW h1, NEW p \in Path, Fresh(h, {p}), Live(h) \ {p} = Live(h1) \ {p},
         \A q \in Live(h) \ {p} :
           /\ h1.object[q].interfaces = h.object[q].interfaces
           /\ h1.object[q].introspect = IF q \in ToSet(Above[p]) THEN NULL ELSE h.object[q].introspect
  PROVE  Fresh(h1, {p})
<1> SUFFICES ASSUME NEW q \in Live(h) \ {p} PROVE FreshAt(h1, q)
  BY DEF Fresh
<1>1. q \in Path /\ FreshAt(h, q)
  BY DEF Fresh, Live
<1>2. CASE q \in ToSet(Above[p])
  BY <1>2, NullAssumption DEF FreshAt, Stub, Xml
<1>3. CASE q \notin ToSet(Above[p])
  <2>1. list_registered(h1, q) = list_registered(h, q)
    BY <1>1, <1>3, ListSame
  <2>2. h1.object[q].interfaces = h.object[q].interfaces /\ h1.object[q].introspect = h.object[q].introspect
    BY <1>3
  <2> QED BY <1>1, <2>1, <2>2 DEF FreshAt, generate_introspection_xml
<1> QED BY <1>2, <1>3

(* One that is reset is fresh.                                               *)
LEMMA FreshReset ==
  ASSUME NEW h, NEW h1, NEW p, Fresh(h, {p}), Live(h1) = Live(h),
         \A q \in Live(h) \ {p} : h1.object[q] = h.object[q],
         p \in Live(h) => h1.object[p].introspect = NULL /\ Introspectable \in h1.object[p].interfaces
  PROVE  Fresh(h1, {})
<1>1. Fresh(h1, {p})
  BY FreshElsewhere
<1>2. p \in Live(h) => FreshAt(h1, p)
  BY NullAssumption DEF FreshAt, Stub, Xml
<1> QED BY <1>1, <1>2 DEF Fresh
-----------------------------------------------------------------------------
(* All of it, but for what an operation is in the course of changing.        *)
Sound(h, m, N, ex, lo) == Typed(h) /\ Tree(h, m, N) /\ Hung(h, ex) /\ Tells(h, ex) /\ Stale(h, ex, lo)

(* The root is there while there is an object manager, ...                   *)
Rooted(h) == h.root # NULL => Root \in Live(h)

(* ... and is the only object with its interface, which it has just then.    *)
Managed(h, b) == \A q \in Live(h) : ObjectManager \in h.object[q].interfaces <=> q = Root /\ b

(* add_interface keeps it all.                                               *)
LEMMA SoundAdded ==
  ASSUME NEW h, NEW m, NEW N, NEW ex, NEW lo, Sound(h, m, N, ex, lo), Rooted(h),
         NEW p \in Live(h), NEW i \in Name, i \notin h.object[p].interfaces, NEW h1, h1 = add_interface(h, p, i),
         i \in h1.object[p].added /\ i \in h1.object[p].removed => <<p, i>> \in ex
  PROVE  Sound(h1, m, N, ex, lo) /\ Rooted(h1) /\ Added(h, h1, p, i)
<1>1. Typed(h) /\ Tree(h, m, N) /\ Hung(h, ex) /\ Tells(h, ex) /\ Stale(h, ex, lo)
  BY DEF Sound
<1>2. Typed(h1) /\ Added(h, h1, p, i)
  BY <1>1, Adds
<1>3. Live(h1) = Live(h) /\ h1.root = h.root /\ Live(h) \subseteq Path
      /\ \A q \in Live(h) : h1.object[q].parent = h.object[q].parent /\ h1.object[q].objects = h.object[q].objects
  BY <1>2 DEF Added, Elsewhere, Placed, Same, Live
<1>4. Tells(h1, ex) /\ Stale(h1, ex, lo)
  BY <1>1, <1>2, TellsAdded DEF Rooted
<1>5. Tree(h1, m, N)
  BY <1>1, <1>3, TreeSame
<1>6. Hung(h1, ex)
  BY <1>1, <1>3, HungSame
<1> QED BY <1>2, <1>3, <1>4, <1>5, <1>6 DEF Sound, Rooted

(* An interface is taken from an object, if it is there.                     *)
Taken(h, h1, p, i) ==
  /\ Live(h1) = Live(h) /\ Same(h, h1) /\ h1.known = h.known /\ h1.stale \subseteq h.stale
  /\ \A q \in Path \ {p} : h1.object[q] = h.object[q]
  /\ Placed(h.object[p], h1.object[p]) /\ h1.object[p].interfaces = h.object[p].interfaces \ {i}

(* remove_interface keeps it all.                                            *)
LEMMA SoundRemoved ==
  ASSUME NEW h, NEW m, NEW N, NEW ex, NEW lo, Sound(h, m, N, ex, lo), Rooted(h),
         NEW p \in Live(h), NEW i \in Name, NEW h1, h1 = remove_interface(h, p, i),
         NEW lo1, lo \subseteq lo1, \A j \in Name : <<p, j>> \in h.stale /\ j # i => <<p, j>> \in lo1
  PROVE  Sound(h1, m, N, ex, lo1) /\ Rooted(h1) /\ Taken(h, h1, p, i)
<1>1. Typed(h) /\ Tree(h, m, N) /\ Hung(h, ex) /\ Tells(h, ex) /\ Stale(h, ex, lo)
  BY DEF Sound
<1>2. CASE i \notin h.object[p].interfaces
  <2>1. i \notin h.object[p].added
    BY <1>1, <1>2 DEF Typed
  <2>2. i \notin h.object[p].interfaces \ h.object[p].added
    BY <1>2
  <2>3. h1 = h
    BY <1>2, <2>1, <2>2 DEF remove_interface
  <2>4. h.object[p].interfaces \ {i} = h.object[p].interfaces
    BY <1>2
  <2>5. Stale(h, ex, lo1)
    BY <1>1 DEF Stale, StaleAt
  <2> QED BY <1>1, <2>3, <2>4, <2>5 DEF Sound, Taken, Placed, Same
<1>3. CASE i \in h.object[p].interfaces
  <2>1. Typed(h1) /\ Removed(h, h1, p, i)
    BY <1>1, <1>3, Removes
  <2>2. Taken(h, h1, p, i)
    BY <2>1 DEF Removed, Taken, Elsewhere
  <2>3. Live(h1) = Live(h) /\ h1.root = h.root /\ Live(h) \subseteq Path
        /\ \A q \in Live(h) : h1.object[q].parent = h.object[q].parent /\ h1.object[q].objects = h.object[q].objects
    BY <2>2 DEF Taken, Placed, Same, Live
  <2>4. Tells(h1, ex) /\ Stale(h1, ex, lo1)
    BY <1>1, <1>3, <2>1, TellsRemoved DEF Rooted
  <2>5. Tree(h1, m, N)
    BY <1>1, <2>3, TreeSame
  <2>6. Hung(h1, ex)
    BY <1>1, <2>3, HungSame
  <2> QED BY <2>1, <2>2, <2>3, <2>4, <2>5, <2>6 DEF Sound, Rooted
<1> QED BY <1>2, <1>3

(* An object comes or goes that is not above c.                              *)
LEMMA NearestApart ==
  ASSUME NEW h, NEW h1, NEW p \in Path, Live(h) \ {p} = Live(h1) \ {p}, NEW c \in Path, p \notin ToSet(Above[c])
  PROVE  Nearest(h, c) = Nearest(h1, c)
<1>1. \A q \in ToSet(Above[c]) : q \in Path /\ q # p
  BY AboveAbove
<1>2. \A q \in Path : q # p => (h.object[q] # NULL <=> h1.object[q] # NULL)
  BY DEF Live
<1> QED BY <1>1, <1>2, NearestSame

(* A reference to an object that has to be made.                             *)
Referred(h, h1, p) ==
  /\ Live(h1) = Live(h) \cup {p} /\ Same(h, h1) /\ h1.known = h.known /\ h1.stale = h.stale
  /\ \A q \in Live(h) : Alike(h.object[q], h1.object[q])
  /\ h1.object[p].interfaces = {Introspectable} /\ h1.object[p].refs = 1 /\ h1.object[p].removed = {}
  /\ h1.object[p].changed = {} /\ h1.object[p].introspect = Stub

(* object_path_ref of an object that is not there.                           *)
LEMMA Refers ==
  ASSUME NEW h, NEW m, NEW ex, NEW lo, Sound(h, m, Above1(h), ex, lo), Rooted(h), Counted(h, {}), Fresh(h, {}),
         NEW p \in Path \ Live(h), p \notin m, NEW h1, h1 = object_path_ref(h, p)
  PROVE  /\ Sound(h1, m, Above1(h), ex, lo) /\ Rooted(h1) /\ Counted(h1, {p}) /\ Fresh(h1, {p})
         /\ Referred(h, h1, p)
<1>1. PICK N : N = Above1(h)
  OBVIOUS
<1>2. Typed(h) /\ Tree(h, m, N) /\ Hung(h, ex) /\ Tells(h, ex) /\ Stale(h, ex, lo)
  BY <1>1 DEF Sound
<1>3. PICK k1 : k1 = [h EXCEPT !.object[p] = NewObject]
  OBVIOUS
<1>4. Typed(k1) /\ Created(h, k1, p)
  BY <1>2, <1>3, Creates
<1>5. Live(k1) = Live(h) \cup {p} /\ Live(k1) \subseteq Path /\ Live(h) \subseteq Path /\ k1.root = h.root
      /\ \A q \in Live(h) : k1.object[q] = h.object[q]
  BY <1>4 DEF Created, Outward, Live
<1>6. \A c \in Path : N[c] = Nearest(h, c) /\ N[c] \in Live(h) \cup {NULL}
  BY <1>1, NearestAbove DEF Above1
<1>7. Tree(k1, m \cup {p}, N) /\ k1.object[p].parent = NULL /\ \A q \in Live(k1) : p \notin k1.object[q].objects
  BY <1>2, <1>4, <1>6, TreeCreated
<1>8. Tells(k1, ex) /\ Stale(k1, ex, lo)
  BY <1>2, <1>4, TellsCreated
<1>9. ASSUME NEW c \in Live(k1) \cap (ToSet(Above[p]) \cup {p}) PROVE N[c] = Nearest(k1, c)
  <2>1. p \notin ToSet(Above[c]) /\ c \in Path
    BY <1>5, <1>9, AboveAbove, NotAboveItself
  <2>2. Live(h) \ {p} = Live(k1) \ {p}
    BY <1>5
  <2> QED BY <1>6, <2>1, <2>2, NearestApart
<1>10. PICK k2 : k2 = invalidate_parent_data(k1, p)
  OBVIOUS
<1>11. Typed(k2) /\ Relinked(k1, k2, p)
  BY <1>4, <1>10, Invalidates
<1>12. Live(k2) = Live(k1) /\ k2.root = k1.root /\ \A q \in Live(k1) : Alike(k1.object[q], k2.object[q])
  BY <1>11 DEF Relinked, Outward
<1>13. /\ Tree(k2, m \cup {p}, N)
       /\ \A c \in Live(k1) \cap (ToSet(Above[p]) \cup {p}) : N[c] # NULL =>
              /\ N[c] \in Live(k1) /\ c \in k2.object[N[c]].objects
              /\ (\A q \in Live(k1) : c \notin k1.object[q].objects) =>
                   k2.object[c].parent = N[c] /\ \A q \in Live(k1) : c \in k2.object[q].objects => q = N[c]
  BY <1>7, <1>9, <1>11, TreeRelinked
<1>14. Hung(k2, ex)
  BY <1>2, <1>4, <1>7, <1>9, <1>11, HungCreated DEF Rooted
<1>15. k2.object[p].parent = N[p] /\ \A q \in Live(k2) : p \in k2.object[q].objects <=> N[p] = q
  <2>1. CASE N[p] # NULL
    BY <1>5, <1>7, <1>12, <1>13, <2>1
  <2>2. CASE N[p] = NULL
    <3>1. p \notin Linked(k1, p)
      BY <1>5, <1>9, <2>2 DEF Linked
    <3>2. k2.object[p].parent = NULL
      BY <1>5, <1>7, <1>11, <3>1 DEF Relinked
    <3>3. ASSUME NEW q \in Live(k1) PROVE p \notin k2.object[q].objects
      BY <1>7, <1>11, <3>1 DEF Relinked
    <3> QED BY <1>5, <1>12, <2>2, <3>2, <3>3, ObjectAssumption
  <2> QED BY <2>1, <2>2
<1>16. Tree(k2, m, N)
  BY <1>5, <1>12, <1>13, <1>15, TreeSettled
<1>17. Tells(k2, ex) /\ Stale(k2, ex, lo)
  BY <1>8, <1>11, TellsSame DEF Relinked, Outward, Alike
<1>18. Sound(k2, m, N, ex, lo) /\ Rooted(k2)
  BY <1>5, <1>11, <1>12, <1>14, <1>16, <1>17 DEF Sound, Rooted
<1>19. /\ k2.object[p].interfaces = {} /\ k2.object[p].refs = 1 /\ k2.object[p].removed = {} /\ k2.object[p].changed = {}
       /\ k2.object[p].introspect = Stub
       /\ k2.known = h.known /\ k2.stale = h.stale /\ Same(h, k2) /\ \A q \in Live(h) : Alike(h.object[q], k2.object[q])
  <2>1. k1.object[p] = NewObject /\ Outward(h, k1) /\ k1.dangling = h.dangling
    BY <1>4 DEF Created
  <2>2. Alike(NewObject, k2.object[p])
    BY <1>5, <1>12, <2>1
  <2>3. Outward(k1, k2) /\ k2.dangling = k1.dangling
    BY <1>11 DEF Relinked
  <2>4. k2.object[p].introspect = Stub
    BY <1>5, <1>11, <2>1, NotAboveItself DEF Relinked, NewObject
  <2> QED BY <1>5, <1>12, <2>1, <2>2, <2>3, <2>4 DEF Alike, NewObject, Outward, Same
<1>20. Counted(k2, {p})
  <2>1. ASSUME NEW q \in Live(k2)
        PROVE  k2.object[q].refs = Cardinality(k2.object[q].interfaces \cap Counters) + IF q \in {p} THEN 1 ELSE 0
    <3>1. CASE q = p
      <4>1. {} \cap Counters = {} /\ Cardinality({}) = 0
        BY FS_EmptySet
      <4>2. k2.object[q].interfaces \cap Counters = {}
        BY <1>19, <3>1, <4>1
      <4>3. 0 + (IF q \in {p} THEN 1 ELSE 0) = 1
        BY <3>1
      <4> QED BY <1>19, <3>1, <4>1, <4>2, <4>3
    <3>2. CASE q # p
      <4>1. q \in Live(h) /\ (q \in {p} <=> q \in {})
        BY <1>5, <1>12, <2>1, <3>2
      <4> QED BY <1>19, <4>1 DEF Counted, Alike
    <3> QED BY <3>1, <3>2
  <2> QED BY <2>1 DEF Counted
<1>21. Fresh(k2, {p})
  <2>1. Fresh(h, {p}) /\ Live(h) \ {p} = Live(k2) \ {p}
    BY <1>5, <1>12 DEF Fresh
  <2>2. ASSUME NEW q \in Live(h) \ {p}
        PROVE  /\ k2.object[q].interfaces = h.object[q].interfaces
               /\ k2.object[q].introspect = IF q \in ToSet(Above[p]) THEN NULL ELSE h.object[q].introspect
    <3>1. k1.object[q] = h.object[q] /\ q \in Live(k1)
      BY <1>5
    <3> QED BY <1>11, <3>1 DEF Relinked, Alike
  <2> QED BY <2>1, <2>2, FreshChanged
<1>22. h1 = add_interface(k2, p, Introspectable)
  BY <1>3, <1>10 DEF object_path_ref
<1>23. Introspectable \in Name /\ Introspectable \notin Counters /\ p \in Live(k2)
  BY <1>5, <1>12, ObjectAssumption DEF Name, Counters
<1>24. Added(k2, h1, p, Introspectable)
  BY <1>11, <1>22, <1>23, Adds
<1>25. h1.object[p].removed = {} /\ Introspectable \notin k2.object[p].interfaces
  BY <1>19, <1>24 DEF Added
<1>26. Sound(h1, m, N, ex, lo) /\ Rooted(h1)
  BY <1>18, <1>22, <1>23, <1>25, SoundAdded
<1>27. Counted(h1, {p})
  BY <1>11, <1>20, <1>23, <1>24, <1>25, CountedAdded
<1>28. Live(h1) = Live(k2) /\ Same(k2, h1) /\ h1.known = k2.known /\ h1.stale = k2.stale
       /\ \A q \in Path \ {p} : h1.object[q] = k2.object[q]
  BY <1>24 DEF Added, Elsewhere
<1>29. Fresh(h1, {p})
  <2>1. \A q \in Live(k2) \ {p} : h1.object[q] = k2.object[q]
    BY <1>5, <1>12, <1>28
  <2> QED BY <1>21, <1>28, <2>1, FreshElsewhere
<1>30. Referred(h, h1, p)
  <2>1. h1.object[p].interfaces = {Introspectable} /\ h1.object[p].refs = 1 /\ h1.object[p].changed = {}
        /\ h1.object[p].introspect = Stub
    BY <1>19, <1>24 DEF Added, Placed
  <2>2. \A q \in Live(h) : Alike(h.object[q], h1.object[q])
    BY <1>5, <1>19, <1>28
  <2> QED BY <1>5, <1>12, <1>19, <1>25, <1>28, <2>1, <2>2 DEF Referred, Same
<1> QED BY <1>1, <1>26, <1>27, <1>29, <1>30

(* Nothing but the number of references and the cached introspection.        *)
Kept(o, n, x) == [o EXCEPT !.refs = n, !.introspect = x]
Put(h, p, o) == [h EXCEPT !.object = [@ EXCEPT ![p] = o]]

(* An object is replaced, the rest is kept.                                  *)
Inward(h, h1, p, o1) == Elsewhere(h, h1, p) /\ h1.object[p] = o1 /\ Outward(h, h1) /\ h1.dangling = h.dangling

(* What Kept comes to.                                                       *)
KeptAs(o, o1, n, x) ==
  /\ o1 \in Object /\ o1.refs = n /\ o1.introspect = x /\ o1.interfaces = o.interfaces /\ o1.added = o.added
  /\ o1.removed = o.removed /\ o1.changed = o.changed /\ o1.pending_prop = o.pending_prop
  /\ o1.parent = o.parent /\ o1.objects = o.objects

(* Such a change, taken apart, ...                                           *)
LEMMA PutInward ==
  ASSUME NEW h, h \in HeapType, NEW p \in Live(h), NEW n \in Nat, NEW x \in Xml \cup {NULL},
         NEW o1, o1 = Kept(h.object[p], n, x), NEW h1, h1 = Put(h, p, o1)
  PROVE  h1 \in HeapType /\ Inward(h, h1, p, o1) /\ KeptAs(h.object[p], o1, n, x)
<1>1. PICK o : o = h.object[p]
  OBVIOUS
<1>2. o \in Object /\ p \in Path
  BY <1>1, ObjectTypes
<1>3. KeptAs(o, o1, n, x)
  BY <1>1, <1>2 DEF Object, Kept, KeptAs
<1>4. o1 \in Object
  BY <1>3 DEF KeptAs
<1>5. PICK f : f = [h.object EXCEPT ![p] = o1]
  OBVIOUS
<1>6. h1 \in HeapType /\ h1.object = f /\ Outward(h, h1) /\ h1.dangling = h.dangling
  <2>1. f \in [Path -> Object \cup {NULL}]
    BY <1>2, <1>4, <1>5 DEF HeapType
  <2>2. h1 = [h EXCEPT !.object = f]
    BY <1>5 DEF Put
  <2> QED BY <2>1, <2>2 DEF HeapType, Outward
<1>7. Elsewhere(h, h1, p) /\ h1.object[p] = o1
  BY ONLY <1>2, <1>4, <1>5, <1>6, h \in HeapType, p \in Live(h), NullAssumption DEF HeapType, Elsewhere, Live
<1> QED BY <1>1, <1>3, <1>6, <1>7 DEF Inward

(* ... keeps it all.                                                         *)
LEMMA SoundInward ==
  ASSUME NEW h, NEW m, NEW N, NEW ex, NEW lo, Sound(h, m, N, ex, lo), NEW p \in Live(h),
         NEW n \in Nat, NEW x \in Xml \cup {NULL}, NEW o1, o1 = Kept(h.object[p], n, x),
         NEW h1, h1 = Put(h, p, o1)
  PROVE  Sound(h1, m, N, ex, lo) /\ Inward(h, h1, p, o1) /\ KeptAs(h.object[p], o1, n, x)
<1>1. Typed(h) /\ Tree(h, m, N) /\ Hung(h, ex) /\ Tells(h, ex) /\ Stale(h, ex, lo) /\ Live(h) \subseteq Path
  BY DEF Sound, Live
<1>2. h1 \in HeapType /\ Inward(h, h1, p, o1) /\ KeptAs(h.object[p], o1, n, x)
  BY <1>1, PutInward DEF Typed
<1>3. Outward(h, h1) /\ h1.dangling = h.dangling /\ Elsewhere(h, h1, p) /\ h1.object[p] = o1
  BY <1>2 DEF Inward
<1>4. \A q \in Live(h) :
           /\ h1.object[q].interfaces = h.object[q].interfaces /\ h1.object[q].added = h.object[q].added
           /\ h1.object[q].removed = h.object[q].removed /\ h1.object[q].changed = h.object[q].changed
           /\ h1.object[q].pending_prop = h.object[q].pending_prop
           /\ h1.object[q].parent = h.object[q].parent /\ h1.object[q].objects = h.object[q].objects
  BY <1>1, <1>2, <1>3 DEF Elsewhere, KeptAs
<1>5. Live(h1) = Live(h)
  BY <1>3 DEF Elsewhere
<1>6. Tells(h1, ex) /\ Stale(h1, ex, lo)
  <2>1. h1.root = h.root /\ h1.pending = h.pending /\ h1.known = h.known /\ h1.stale = h.stale
    BY <1>3 DEF Outward
  <2> QED BY ONLY <1>1, <1>4, <1>5, <2>1, TellsSame
<1>7. Tree(h1, m, N)
  BY <1>1, <1>4, <1>5, TreeSame
<1>8. Hung(h1, ex)
  <2>1. h1.root = h.root /\ \A q \in Live(h) : /\ h.object[q].parent # NULL => h1.object[q].parent # NULL
                                               /\ h.object[q].objects \subseteq h1.object[q].objects
    BY <1>3, <1>4 DEF Outward
  <2> QED BY ONLY <1>1, <1>5, <2>1, HungSame
<1>9. Typed(h1)
  <2>1. h1.pending = h.pending
    BY <1>3 DEF Outward
  <2> QED BY ONLY <1>1, <1>2, <1>4, <1>5, <2>1 DEF Typed
<1> QED BY <1>2, <1>6, <1>7, <1>8, <1>9 DEF Sound

(* The last reference goes: nothing is registered at the object any more.    *)
LEMMA NothingLeft ==
  ASSUME NEW h, Typed(h), NEW p \in Live(h), Counted(h, {p}), ~(h.object[p].refs > 1), NEW ex, NEW lo, Stale(h, ex, lo)
  PROVE  /\ h.object[p].interfaces \cap Counters = {}
         /\ h.object[p].interfaces \ {Introspectable, Properties} = {}
         /\ \A j \in Name : <<p, j>> \notin h.stale
<1>1. PICK I : I = h.object[p].interfaces
  OBVIOUS
<1>2. IsFiniteSet(I \cap Counters) /\ p \in Path /\ h.object[p] \in Object
  BY CountersFinite, FS_Subset, ObjectTypes DEF Typed
<1>3. PICK n \in Nat : n = Cardinality(I \cap Counters)
  BY <1>2, FS_CardinalityType
<1>4. h.object[p].refs = n + 1
  <2>1. h.object[p].refs = n + IF p \in {p} THEN 1 ELSE 0
    BY <1>1, <1>3 DEF Counted
  <2> QED BY <2>1
<1>5. n = 0
  BY <1>3, <1>4
<1>6. I \cap Counters = {}
  BY <1>2, <1>3, <1>5, FS_EmptySet
<1>7. I \subseteq Name
  BY <1>1, <1>2 DEF Object
<1>8. I \ {Introspectable, Properties} = {}
  BY <1>6, <1>7 DEF Name, Counters
<1>9. ASSUME NEW j \in Name, <<p, j>> \in h.stale PROVE FALSE
  <2>1. j \in I /\ j \in Propertied
    BY <1>1, <1>2, <1>9 DEF Stale, StaleAt
  <2> QED BY <1>6, <2>1, ObjectAssumption DEF Counters
<1> QED BY <1>1, <1>6, <1>8, <1>9

(* An object is dropped, and no other changes what it announces.             *)
Dropped(h, h1, p) ==
  Live(h1) = Live(h) \ {p} /\ h1.root = h.root /\ \A q \in Live(h1) : Alike(h.object[q], h1.object[q])

(* object_path_unref of the last reference.                                  *)
LEMMA Drops ==
  ASSUME NEW h, NEW m, NEW N, NEW ex, NEW lo, Sound(h, m, N, ex, lo), Rooted(h), NEW p \in Live(h),
         \A c \in Live(h) \cap (ToSet(Above[p]) \cup {p}) : N[c] = Nearest(h, c),
         Counted(h, {p}), Fresh(h, {p}), ~h.dangling, ~(h.object[p].refs > 1), NEW h1, h1 = object_path_unref(h, p)
  PROVE  /\ Typed(h1) /\ Counted(h1, {}) /\ Fresh(h1, {}) /\ Dropped(h, h1, p)
         /\ m = {} => ~h1.dangling
         /\ \A m1 : ~h1.dangling /\ m \cap Live(h1) \subseteq m1 /\ (\A c \in Live(h1) \ m1 : N[c] # p)
              => Sound(h1, m1, N, ex, lo)
<1>1. Typed(h) /\ Stale(h, ex, lo) /\ p \in Path
  BY ObjectTypes DEF Sound, Typed
<1>2. PICK o0 : o0 = Kept(h.object[p], 0, h.object[p].introspect)
  OBVIOUS
<1>3. PICK k0 : k0 = Put(h, p, o0)
  OBVIOUS
<1>4. PICK k1, k2, k3 : k1 = remove_interface(k0, p, Introspectable) /\ k2 = remove_interface(k1, p, Properties)
                        /\ k3 = invalidate_parent_data(k2, p)
  OBVIOUS
<1>5. h1 = generic_unregister(k3, p)
  <2>1. h.object[p] \in Object /\ h \in HeapType
    BY <1>1, ObjectTypes DEF Typed
  <2>2. o0 = [h.object[p] EXCEPT !.refs = 0]
    BY <1>2, <2>1 DEF Object, Kept
  <2>3. k0 = [h EXCEPT !.object[p].refs = 0]
    BY <1>3, <2>2 DEF Put
  <2> QED BY <1>4, <2>3 DEF object_path_unref
<1>6. /\ h.object[p].interfaces \cap Counters = {}
      /\ h.object[p].interfaces \ {Introspectable, Properties} = {}
      /\ \A j \in Name : <<p, j>> \notin h.stale
  BY <1>1, NothingLeft
<1>7. /\ Sound(k0, m, N, ex, lo) /\ Inward(h, k0, p, o0) /\ o0.refs = 0 /\ o0.interfaces = h.object[p].interfaces
  <2>1. h.object[p].introspect \in Xml \cup {NULL} /\ 0 \in Nat
    BY <1>1, ObjectTypes DEF Typed, Object
  <2> QED BY ONLY <1>2, <1>3, <2>1, SoundInward, Sound(h, m, N, ex, lo), p \in Live(h) DEF KeptAs
<1>8. Live(k0) = Live(h) /\ k0.object[p] = o0 /\ Outward(h, k0) /\ k0.dangling = h.dangling
      /\ \A q \in Path \ {p} : k0.object[q] = h.object[q]
  BY <1>7 DEF Inward, Elsewhere
<1>9. Introspectable \in Name /\ Properties \in Name /\ Rooted(k0) /\ Live(h) \subseteq Path
  BY <1>8 DEF Name, Rooted, Outward, Live
<1>10. Sound(k1, m, N, ex, lo) /\ Rooted(k1) /\ Taken(k0, k1, p, Introspectable)
  BY <1>4, <1>6, <1>7, <1>8, <1>9, SoundRemoved DEF Outward
<1>11. k1.stale \subseteq k0.stale /\ Live(k1) = Live(k0)
  BY <1>10 DEF Taken
<1>12. Sound(k2, m, N, ex, lo) /\ Rooted(k2) /\ Taken(k1, k2, p, Properties)
  BY <1>4, <1>6, <1>8, <1>9, <1>10, <1>11, SoundRemoved DEF Outward
<1>13. /\ Live(k2) = Live(h) /\ k2.root = h.root /\ k2.dangling = h.dangling /\ k2.object[p].interfaces = {}
       /\ k2.object[p].refs = 0 /\ \A q \in Path \ {p} : k2.object[q] = h.object[q]
  <2>1. k2.object[p].interfaces = (o0.interfaces \ {Introspectable}) \ {Properties} /\ k2.object[p].refs = 0
    BY <1>7, <1>8, <1>10, <1>12 DEF Taken, Placed
  <2>2. k2.object[p].interfaces = {}
    BY <1>6, <1>7, <2>1
  <2> QED BY <1>8, <1>10, <1>12, <2>1, <2>2 DEF Taken, Same, Outward
<1>14. Typed(k3) /\ Relinked(k2, k3, p)
  BY <1>1, <1>4, <1>12, Invalidates DEF Sound
<1>15. Live(k3) = Live(h) /\ k3.root = h.root /\ k3.dangling = h.dangling
       /\ \A q \in Live(h) : Alike(k2.object[q], k3.object[q])
  BY <1>13, <1>14 DEF Relinked, Outward
<1>16. \A c \in Live(k2) \cap (ToSet(Above[p]) \cup {p}) : N[c] = Nearest(k2, c)
  <2> SUFFICES ASSUME NEW c \in Live(h) \cap (ToSet(Above[p]) \cup {p}) PROVE Nearest(h, c) = Nearest(k2, c)
    BY <1>13
  <2>1. c \in Path /\ p \notin ToSet(Above[c])
    BY <1>1, <1>9, AboveAbove, NotAboveItself
  <2> QED BY <1>1, <1>13, <2>1, NearestApart
<1>17. Tree(k2, m, N) /\ Hung(k2, ex) /\ Tells(k2, ex) /\ Stale(k2, ex, lo)
  BY <1>12 DEF Sound
<1>18. /\ Tree(k3, m, N)
       /\ \A q \in Live(k2) : /\ k2.object[q].objects \subseteq k3.object[q].objects
                              /\ k2.object[q].parent # NULL => k3.object[q].parent # NULL
  BY <1>1, <1>14, <1>16, <1>17, TreeRelinked
<1>19. Hung(k3, ex)
  <2>1. Live(k3) = Live(k2) /\ k3.root = k2.root
    BY <1>13, <1>15
  <2>2. \A q \in Live(k2) : /\ k2.object[q].parent # NULL => k3.object[q].parent # NULL
                            /\ k2.object[q].objects \subseteq k3.object[q].objects
    BY <1>18
  <2>3. Hung(k2, ex)
    BY <1>17
  <2> QED BY ONLY <2>1, <2>2, <2>3, HungSame
<1>20. Tells(k3, ex) /\ Stale(k3, ex, lo)
  BY <1>14, <1>17, TellsSame DEF Relinked, Outward, Alike
<1>21. k3.object[p].interfaces = {}
  BY <1>13, <1>15 DEF Alike
<1>22. k3.object[p].parent \in Live(k3) \cup {NULL} /\ k3.object[p].parent # p /\ k3.object[p].objects \subseteq Live(k3) \ {p}
  <2>1. /\ k3.object[p].parent \in Live(k3) \cup {NULL} /\ k3.object[p].objects \subseteq Live(k3)
        /\ k3.object[p].parent # NULL => k3.object[p].parent \in ToSet(Above[p])
        /\ \A c \in k3.object[p].objects : p \in ToSet(Above[c])
    BY <1>15, <1>18 DEF Tree
  <2> QED BY <1>1, <2>1, NotAboveItself, ObjectAssumption
<1>23. Typed(h1) /\ Freed(k3, h1, p)
  BY <1>5, <1>14, <1>15, <1>22, Frees
<1>24. Dropped(h, h1, p)
  <2>1. Live(h1) = Live(k3) \ {p} /\ h1.root = k3.root /\ \A q \in Live(h1) : Alike(k3.object[q], h1.object[q])
    BY <1>23 DEF Freed
  <2>2. \A q \in Live(h1) : Alike(h.object[q], k3.object[q])
    BY <1>9, <1>13, <1>15, <2>1
  <2> QED BY <1>15, <2>1, <2>2 DEF Dropped, Alike
<1>25. Counted(h1, {})
  <2>1. ASSUME NEW q \in Live(h1)
        PROVE  h1.object[q].refs = Cardinality(h1.object[q].interfaces \cap Counters) + IF q \in {} THEN 1 ELSE 0
    <3>1. q \in Live(h) /\ q # p /\ Alike(h.object[q], h1.object[q])
      BY <1>24 DEF Dropped
    <3>2. q \in {p} <=> q \in {}
      BY <3>1
    <3> QED BY <3>1, <3>2 DEF Counted, Alike
  <2> QED BY <2>1 DEF Counted
<1>26. Fresh(h1, {})
  <2>1. ASSUME NEW q \in Live(h) \ {p}
        PROVE  /\ h1.object[q].interfaces = h.object[q].interfaces
               /\ h1.object[q].introspect = IF q \in ToSet(Above[p]) THEN NULL ELSE h.object[q].introspect
    <3>1. q \in Live(h1) /\ q \in Live(k2) /\ k2.object[q] = h.object[q]
      BY <1>9, <1>13, <1>24 DEF Dropped
    <3>2. k3.object[q].introspect = (IF q \in ToSet(Above[p]) THEN NULL ELSE k2.object[q].introspect)
      BY <1>14, <3>1 DEF Relinked
    <3>3. h1.object[q].introspect = k3.object[q].introspect
      BY <1>23, <3>1 DEF Freed
    <3> QED BY <1>24, <3>1, <3>2, <3>3 DEF Dropped, Alike
  <2>2. Live(h) \ {p} = Live(h1) \ {p} /\ p \notin Live(h1)
    BY <1>24 DEF Dropped
  <2>3. Fresh(h1, {p})
    BY <1>1, <2>1, <2>2, FreshChanged
  <2> QED BY <2>2, <2>3 DEF Fresh
<1>27. Tells(h1, ex) /\ Stale(h1, ex, lo)
  BY <1>14, <1>15, <1>20, <1>21, <1>23, TellsFreed
<1>28. ~h1.dangling => Hung(h1, ex)
  BY <1>15, <1>18, <1>19, <1>23, HungFreed
<1>29. m = {} => ~h1.dangling
  BY <1>15, <1>18, <1>23, NoneDangles
<1>30. ASSUME NEW m1, ~h1.dangling, m \cap Live(h1) \subseteq m1, \A c \in Live(h1) \ m1 : N[c] # p
       PROVE  Sound(h1, m1, N, ex, lo)
  <2>1. Tree(h1, m1, N)
    BY <1>15, <1>18, <1>23, <1>30, TreeFreed
  <2> QED BY <1>23, <1>27, <1>28, <1>30, <2>1 DEF Sound
<1> QED BY <1>23, <1>24, <1>25, <1>26, <1>29, <1>30
-----------------------------------------------------------------------------
(* The inductive invariant.                                                  *)
Held(h) == \A q \in Live(h) : h.object[q].refs # 0

(* A changed property waits under the flag of its object, or the flag was    *)
(* lost.                                                                     *)
Waits(h, l) == \A q \in Live(h) : \A i \in h.object[q].changed : h.object[q].pending_prop \/ <<q, i>> \in l
IInv ==
  /\ Typed(heap) /\ Counted(heap, {}) /\ Held(heap) /\ Waits(heap, lost)
  /\ excused \subseteq Pair /\ lost \subseteq Pair /\ misplaced \subseteq Path /\ spoke \in Pair \cup {NULL}
  /\ heap.dangling => misplaced # {}
  /\ ~heap.dangling =>
       /\ Sound(heap, misplaced, Above1(heap), excused, lost) /\ Fresh(heap, {})
       /\ Managed(heap, heap.root # NULL) /\ Rooted(heap) /\ misplaced \subseteq Live(heap)

(* What each operation comes to: h is the heap after it, and lost becomes    *)
(* what is still waiting of l.                                               *)
Moved(h) == {p \in Live(heap) \cap Live(h) : p \in misplaced \/ Nearest(h, p) # Nearest(heap, p)}
Excused(h) == excused \cup Reregistered(h) \cup Early(h) \cup Unannounced(h)
Done(h, l) ==
  /\ Typed(h) /\ Counted(h, {}) /\ Held(h) /\ Waits(h, l)
  /\ h.dangling => misplaced # {}
  /\ ~h.dangling =>
       /\ Sound(h, Moved(h), Above1(heap), Excused(h), l) /\ Fresh(h, {})
       /\ Managed(h, h.root # NULL) /\ Rooted(h)
       /\ \A c \in Live(h) \ Live(heap) : Nearest(h, c) = Nearest(heap, c)

(* An object that is gone, and of which nothing is known, needs no excuse.   *)
LEMMA SoundFiltered ==
  ASSUME NEW h, NEW m, NEW N, NEW ex, NEW lo, Sound(h, m, N, ex, lo), NEW ex1, NEW lo1,
         \A p \in Path, i \in Name : <<p, i>> \in ex =>
           \/ <<p, i>> \in ex1
           \/ p \notin Live(h) /\ <<p, i>> \notin h.known,
         \A p \in Live(h), i \in Name : <<p, i>> \in lo /\ i \in h.object[p].changed => <<p, i>> \in lo1
  PROVE  Sound(h, m, N, ex1, lo1)
<1>1. Typed(h) /\ Tree(h, m, N) /\ Hung(h, ex) /\ Tells(h, ex) /\ Stale(h, ex, lo) /\ Live(h) \subseteq Path
  BY DEF Sound, Live
<1>2. Hung(h, ex1)
  BY <1>1 DEF Hung
<1>3. Tells(h, ex1)
  <2>1. ASSUME h.root # NULL, NEW p \in Path, NEW i \in Name, <<p, i>> \notin ex1 PROVE TellsAt(h, p, i)
    <3>1. CASE <<p, i>> \notin ex
      BY <1>1, <2>1, <3>1 DEF Tells
    <3>2. CASE p \notin Live(h) /\ <<p, i>> \notin h.known
      BY <3>2 DEF TellsAt
    <3> QED BY <2>1, <3>1, <3>2
  <2> QED BY <1>1, <2>1 DEF Tells
<1>4. Stale(h, ex1, lo1)
  <2>1. ASSUME NEW p \in Path, NEW i \in Name, <<p, i>> \in h.stale PROVE StaleAt(h, p, i, ex1, lo1)
    <3>1. StaleAt(h, p, i, ex, lo)
      BY <1>1, <2>1 DEF Stale
    <3> QED BY <3>1 DEF StaleAt
  <2> QED BY <1>1, <2>1 DEF Stale
<1> QED BY <1>1, <1>2, <1>3, <1>4 DEF Sound

(* What is done leads to the invariant: the history takes over what is       *)
(* excused.                                                                  *)
LEMMA Settles ==
  ASSUME IInv, Running, NEW h, SetHeap(h), NEW l, Done(h, l), l \subseteq Pair, spoke' \in Pair \cup {NULL},
         lost' = {pair \in l : pair[1] \in Live(h) /\ pair[2] \in h.object[pair[1]].changed}
  PROVE  IInv'
<1>1. heap' = h /\ ~heap.dangling /\ misplaced \subseteq Live(heap) /\ Typed(heap)
  BY DEF SetHeap, Running, IInv
<1>2. Typed(heap') /\ Counted(heap', {}) /\ Held(heap') /\ Live(heap) \subseteq Path /\ Live(h) \subseteq Path
  BY <1>1 DEF Done, Live
<1>3. excused' = {pair \in Excused(h) : pair[1] \in Live(h) \/ pair \in h.known}
  BY DEF SetHeap, Excused
<1>4. excused' \subseteq Pair
  <2>1. Reregistered(h) \subseteq Pair
    <3>1. \A p \in Live(h) : {p} \X (h.object[p].added \cap h.object[p].removed) \subseteq Pair
      <4> SUFFICES ASSUME NEW p \in Live(h) PROVE {p} \X (h.object[p].added \cap h.object[p].removed) \subseteq Pair
        OBVIOUS
      <4>1. p \in Path /\ h.object[p] \in Object
        BY <1>1, <1>2, ObjectTypes DEF Typed
      <4> QED BY <4>1 DEF Object, Pair
    <3> QED BY <3>1 DEF Reregistered
  <2>2. Early(h) \subseteq Pair
    BY <1>2, ObjectAssumption DEF Early, Pair
  <2>3. Unannounced(h) \subseteq Pair
    <3>1. \A p \in Live(h) : {p} \X h.object[p].added \subseteq Pair
      <4> SUFFICES ASSUME NEW p \in Live(h) PROVE {p} \X h.object[p].added \subseteq Pair
        OBVIOUS
      <4>1. p \in Path /\ h.object[p] \in Object
        BY <1>1, <1>2, ObjectTypes DEF Typed
      <4> QED BY <4>1 DEF Object, Pair
    <3> QED BY <3>1 DEF Unannounced
  <2> QED BY <1>3, <2>1, <2>2, <2>3 DEF Excused, IInv
<1>5. lost' \subseteq Pair
  OBVIOUS
<1>6. Waits(heap', lost')
  <2> SUFFICES ASSUME NEW q \in Live(h), NEW i \in h.object[q].changed, ~h.object[q].pending_prop PROVE <<q, i>> \in lost'
    BY <1>1 DEF Waits
  <2>1. <<q, i>> \in l
    BY DEF Done, Waits
  <2> QED BY <2>1
<1>7. misplaced' = IF h.dangling THEN misplaced ELSE Moved(h)
  BY DEF SetHeap, Moved
<1>8. misplaced' \subseteq Path
  BY <1>1, <1>2, <1>7 DEF Moved
<1>9. h.dangling => misplaced' # {}
  BY <1>7 DEF Done
<1>10. ASSUME ~h.dangling
      PROVE  /\ Sound(h, misplaced', Above1(h), excused', lost')
             /\ misplaced' \subseteq Live(h)
  <2>1. misplaced' = Moved(h) /\ misplaced' \subseteq Live(h)
    BY <1>7, <1>10 DEF Moved
  <2>2. Sound(h, misplaced', Above1(heap), Excused(h), l)
        /\ \A c \in Live(h) \ Live(heap) : Nearest(h, c) = Nearest(heap, c)
    BY <1>10, <2>1 DEF Done
  <2>3. Sound(h, misplaced', Above1(heap), excused', lost')
    <3>1. ASSUME NEW p \in Path, NEW i \in Name, <<p, i>> \in Excused(h)
          PROVE  <<p, i>> \in excused' \/ (p \notin Live(h) /\ <<p, i>> \notin h.known)
      BY <1>3, <3>1
    <3>2. ASSUME NEW p \in Live(h), NEW i \in Name, <<p, i>> \in l /\ i \in h.object[p].changed
          PROVE  <<p, i>> \in lost'
      BY <3>2
    <3> QED BY <2>2, <3>1, <3>2, SoundFiltered
  <2>4. Tree(h, misplaced', Above1(heap))
    BY <2>3 DEF Sound
  <2>5. \A c \in Live(h) \ misplaced' : Above1(h)[c] = Above1(heap)[c]
    BY <1>2, <2>1, <2>2 DEF Moved, Above1
  <2>6. Tree(h, misplaced', Above1(h))
    BY <2>4, <2>5, TreeWeaker
  <2> QED BY <2>1, <2>3, <2>6 DEF Sound
<1>11. ~h.dangling => Fresh(h, {}) /\ Managed(h, h.root # NULL) /\ Rooted(h)
  BY DEF Done
<1> QED BY <1>1, <1>2, <1>4, <1>5, <1>6, <1>8, <1>9, <1>10, <1>11 DEF IInv
-----------------------------------------------------------------------------
(* A reference more, or one fewer.                                           *)
LEMMA CountedMore ==
  ASSUME NEW h, NEW p \in Live(h), NEW h1, NEW o1, Inward(h, h1, p, o1), o1.interfaces = h.object[p].interfaces,
         Live(h) \subseteq Path
  PROVE  /\ Counted(h, {}) /\ o1.refs = h.object[p].refs + 1 => Counted(h1, {p})
         /\ Counted(h, {p}) /\ o1.refs = h.object[p].refs - 1 => Counted(h1, {})
         /\ \A r : Counted(h, r) /\ o1.refs = h.object[p].refs => Counted(h1, r)
<1>1. PICK n \in Nat : n = Cardinality(o1.interfaces \cap Counters)
  BY CountersFinite, FS_Subset, FS_CardinalityType
<1>2. Live(h1) = Live(h) /\ h1.object[p] = o1 /\ \A q \in Live(h) : q # p => h1.object[q] = h.object[q]
  BY DEF Inward, Elsewhere
<1>3. ASSUME Counted(h, {}), o1.refs = h.object[p].refs + 1, NEW q \in Live(h)
      PROVE  h1.object[q].refs = Cardinality(h1.object[q].interfaces \cap Counters) + IF q \in {p} THEN 1 ELSE 0
  <2>1. CASE q = p
    <3>1. h.object[p].refs = n + 0 /\ (IF q \in {p} THEN 1 ELSE 0) = 1
      BY <1>1, <1>3, <2>1 DEF Counted
    <3>2. o1.refs = n + 1
      BY <1>3, <3>1
    <3>3. h1.object[q].refs = o1.refs /\ Cardinality(h1.object[q].interfaces \cap Counters) = n
      BY <1>1, <1>2, <2>1
    <3> QED BY ONLY <3>1, <3>2, <3>3, n \in Nat
  <2>2. CASE q # p
    <3>1. q \in {p} <=> q \in {}
      BY <2>2
    <3> QED BY <1>2, <1>3, <2>2, <3>1 DEF Counted
  <2> QED BY <2>1, <2>2
<1>4. ASSUME Counted(h, {p}), o1.refs = h.object[p].refs - 1, NEW q \in Live(h)
      PROVE  h1.object[q].refs = Cardinality(h1.object[q].interfaces \cap Counters) + IF q \in {} THEN 1 ELSE 0
  <2>1. CASE q = p
    <3>1. h.object[p].refs = n + IF p \in {p} THEN 1 ELSE 0
      BY <1>1, <1>4, <2>1 DEF Counted
    <3>2. o1.refs = n /\ n + (IF q \in {} THEN 1 ELSE 0) = n
      BY <1>4, <3>1
    <3> QED BY <1>1, <1>2, <2>1, <3>2
  <2>2. CASE q # p
    <3>1. q \in {p} <=> q \in {}
      BY <2>2
    <3> QED BY <1>2, <1>4, <2>2, <3>1 DEF Counted
  <2> QED BY <2>1, <2>2
<1>5. ASSUME NEW r, Counted(h, r), o1.refs = h.object[p].refs PROVE Counted(h1, r)
  BY <1>2, <1>5, CountedSame
<1> QED BY <1>2, <1>3, <1>4, <1>5 DEF Counted

(* One reference more, as an operator, so that provers can tell it from the  *)
(* rest.                                                                     *)
RefAgain(h, p) == [h EXCEPT !.object[p].refs = @ + 1]

(* object_path_ref, whether the object is there or not.                      *)
Again(h1, p, ex) ==
  /\ Sound(h1, misplaced, Above1(heap), ex, lost) /\ Rooted(h1) /\ Counted(h1, {p}) /\ Fresh(h1, {p})
  /\ Waits(h1, lost) /\ Managed(h1, heap.root # NULL)
  /\ Live(h1) = Live(heap) \cup {p} /\ h1.root = heap.root /\ ~h1.dangling
  /\ Introspectable \in h1.object[p].interfaces
  /\ \A q \in Live(heap) : q # p => h1.object[q].refs = heap.object[q].refs
  /\ p \notin Live(heap) => h1.object[p].refs = 1 /\ h1.object[p].interfaces = {Introspectable}
                            /\ h1.object[p].introspect = Stub
  /\ p \in Live(heap) => heap.object[p].refs \in Nat \ {0} /\ h1.object[p].refs = heap.object[p].refs + 1
                         /\ h1.object[p].introspect = heap.object[p].introspect
                         /\ h1.object[p].interfaces = heap.object[p].interfaces
                         /\ h1 = RefAgain(heap, p)

(* object_path_ref does what Again says.                                     *)
LEMMA Reference ==
  ASSUME IInv, Running, NEW p \in Path, NEW ex, excused \subseteq ex, NEW h1, h1 = object_path_ref(heap, p)
  PROVE  Again(h1, p, ex)
<1>1. /\ Sound(heap, misplaced, Above1(heap), excused, lost) /\ Fresh(heap, {}) /\ Managed(heap, heap.root # NULL)
      /\ Rooted(heap) /\ misplaced \subseteq Live(heap) /\ Counted(heap, {}) /\ Held(heap) /\ Waits(heap, lost)
      /\ Typed(heap) /\ Live(heap) \subseteq Path /\ ~heap.dangling
  BY DEF IInv, Running, Live
<1>2. Sound(heap, misplaced, Above1(heap), ex, lost)
  BY <1>1, TellsWeaker DEF Sound
<1>3. CASE p \notin Live(heap)
  <2>1. /\ Sound(h1, misplaced, Above1(heap), ex, lost) /\ Rooted(h1) /\ Counted(h1, {p}) /\ Fresh(h1, {p})
        /\ Referred(heap, h1, p)
    <3>1. p \in Path \ Live(heap) /\ p \notin misplaced
      BY <1>1, <1>3
    <3>2. h1 = object_path_ref(heap, p)
      OBVIOUS
    <3>3. Sound(heap, misplaced, Above1(heap), ex, lost) /\ Rooted(heap) /\ Counted(heap, {}) /\ Fresh(heap, {})
      BY <1>1, <1>2
    <3> QED BY ONLY <3>1, <3>2, <3>3, Refers
  <2>2. /\ Live(h1) = Live(heap) \cup {p} /\ h1.root = heap.root /\ ~h1.dangling /\ h1.object[p].interfaces = {Introspectable}
        /\ h1.object[p].refs = 1 /\ h1.object[p].changed = {} /\ h1.object[p].introspect = Stub
        /\ \A q \in Live(heap) : Alike(heap.object[q], h1.object[q])
    BY <1>1, <2>1 DEF Referred, Same
  <2>3. Waits(h1, lost)
    BY <1>1, <2>2 DEF Waits, Alike
  <2>4. Managed(h1, heap.root # NULL)
    <3>1. ObjectManager # Introspectable /\ (p = Root => heap.root = NULL)
      BY <1>1, <1>3, ObjectAssumption DEF Rooted
    <3>2. ASSUME NEW q \in Live(heap) PROVE h1.object[q].interfaces = heap.object[q].interfaces
      BY <2>2 DEF Alike
    <3>3. ASSUME NEW q \in Live(h1) PROVE ObjectManager \in h1.object[q].interfaces <=> q = Root /\ heap.root # NULL
      <4>1. CASE q = p
        BY <2>2, <3>1, <4>1
      <4>2. CASE q # p
        BY <1>1, <2>2, <3>2, <3>3, <4>2 DEF Managed
      <4> QED BY <4>1, <4>2
    <3> QED BY <3>3 DEF Managed
  <2> QED BY <1>3, <2>1, <2>2, <2>3, <2>4 DEF Alike, Again
<1>4. CASE p \in Live(heap)
  <2>1. PICK o : o = heap.object[p]
    OBVIOUS
  <2>2. o \in Object /\ heap \in HeapType /\ o.refs \in Nat \ {0} /\ o.introspect \in Xml \cup {NULL}
    BY <1>1, <1>4, <2>1, ObjectTypes DEF Typed, Object, Held
  <2>3. PICK o1 : o1 = Kept(o, o.refs + 1, o.introspect)
    OBVIOUS
  <2>4. h1 = RefAgain(heap, p)
    BY <1>4 DEF object_path_ref, RefAgain
  <2>5. h1 = Put(heap, p, o1)
    <3>1. o1 = [o EXCEPT !.refs = @ + 1]
      BY <2>2, <2>3 DEF Object, Kept
    <3> QED BY <2>1, <2>4, <3>1 DEF Put, RefAgain
  <2>6. /\ Sound(h1, misplaced, Above1(heap), ex, lost) /\ Inward(heap, h1, p, o1)
        /\ o1.refs = o.refs + 1 /\ o1.interfaces = o.interfaces /\ o1.introspect = o.introspect
        /\ o1.changed = o.changed /\ o1.pending_prop = o.pending_prop
    <3>1. o.refs + 1 \in Nat
      BY <2>2
    <3> QED BY <1>2, <1>4, <2>1, <2>2, <2>3, <2>5, <3>1, SoundInward DEF KeptAs
  <2>7. Live(h1) = Live(heap) /\ h1.object[p] = o1 /\ h1.root = heap.root /\ ~h1.dangling
        /\ \A q \in Live(heap) : q # p => h1.object[q] = heap.object[q]
    BY <1>1, <2>6 DEF Inward, Elsewhere, Outward
  <2>8. Counted(h1, {p})
    BY <1>1, <1>4, <2>1, <2>6, CountedMore
  <2>9. Fresh(h1, {p})
    <3>1. Fresh(heap, {p})
      BY <1>1 DEF Fresh
    <3> QED BY <2>7, <3>1, FreshElsewhere
  <2>10. Waits(h1, lost)
    BY <1>1, <2>1, <2>6, <2>7 DEF Waits
  <2>11. Managed(h1, heap.root # NULL)
    BY <1>1, <2>1, <2>6, <2>7 DEF Managed
  <2>12. Introspectable \in o.interfaces
    BY <1>1, <1>4, <2>1 DEF Fresh
  <2>13. Rooted(h1) /\ Live(h1) = Live(heap) \cup {p}
    BY <1>1, <1>4, <2>7 DEF Rooted
  <2> QED BY <1>4, <2>1, <2>2, <2>4, <2>6, <2>7, <2>8, <2>9, <2>10, <2>11, <2>12, <2>13 DEF Again
<1> QED BY <1>3, <1>4

(* Where the live objects are the same, so are those above.                  *)
LEMMA NearestLive ==
  ASSUME NEW h, NEW h1, Live(h) = Live(h1), NEW c \in Path
  PROVE  Nearest(h, c) = Nearest(h1, c)
<1>1. \A q \in ToSet(Above[c]) : q \in Path
  BY AboveAbove
<1>2. \A q \in Path : h.object[q] # NULL <=> h1.object[q] # NULL
  BY DEF Live
<1> QED BY <1>1, <1>2, NearestSame

(* Paths that lost their place are only left out of what is said.            *)
LEMMA SoundMoved ==
  ASSUME NEW h, NEW N, NEW ex, NEW lo, Sound(h, misplaced, N, ex, lo), misplaced \subseteq Live(heap)
  PROVE  Sound(h, Moved(h), N, ex, lo)
<1>1. misplaced \cap Live(h) \subseteq Moved(h)
  BY DEF Moved
<1>2. Tree(h, misplaced, N)
  BY DEF Sound
<1>3. Tree(h, Moved(h), N)
  BY <1>1, <1>2, TreeWeaker
<1> QED BY <1>3 DEF Sound

(* A call that is refused, or finds nothing to do.                           *)
LEMMA NothingDone ==
  ASSUME IInv, Running, NEW l, lost \subseteq l
  PROVE  Done(heap, l)
<1>1. /\ Sound(heap, misplaced, Above1(heap), excused, lost) /\ Fresh(heap, {}) /\ Managed(heap, heap.root # NULL)
      /\ Rooted(heap) /\ misplaced \subseteq Live(heap) /\ Counted(heap, {}) /\ Held(heap) /\ Waits(heap, lost)
      /\ Typed(heap) /\ Live(heap) \subseteq Path /\ ~heap.dangling
  BY DEF IInv, Running, Live
<1>2. Sound(heap, misplaced, Above1(heap), Excused(heap), l)
  BY <1>1, TellsWeaker DEF Sound, Excused
<1>3. Sound(heap, Moved(heap), Above1(heap), Excused(heap), l)
  BY <1>1, <1>2, SoundMoved
<1>4. Waits(heap, l)
  BY <1>1 DEF Waits
<1> QED BY <1>1, <1>3, <1>4 DEF Done

(* g_dbus_register_interface: refused, ...                                   *)
LEMMA RegisterRefused ==
  ASSUME IInv, Running, NEW p \in Path, NEW h1, h1 = object_path_ref(heap, p), NEW h, h = object_path_unref(h1, p)
  PROVE  Done(h, lost)
<1>1. /\ Sound(heap, misplaced, Above1(heap), excused, lost) /\ Fresh(heap, {}) /\ Managed(heap, heap.root # NULL)
      /\ Rooted(heap) /\ misplaced \subseteq Live(heap) /\ Held(heap) /\ Waits(heap, lost)
      /\ Typed(heap) /\ Live(heap) \subseteq Path /\ ~heap.dangling
  BY DEF IInv, Running, Live
<1>2. PICK N, E : N = Above1(heap) /\ E = Excused(h)
  OBVIOUS
<1>3. /\ Sound(h1, misplaced, N, E, lost) /\ Rooted(h1) /\ Counted(h1, {p}) /\ Fresh(h1, {p})
      /\ Waits(h1, lost) /\ Managed(h1, heap.root # NULL)
      /\ Live(h1) = Live(heap) \cup {p} /\ h1.root = heap.root /\ ~h1.dangling
      /\ \A q \in Live(heap) : q # p => h1.object[q].refs = heap.object[q].refs
      /\ p \notin Live(heap) => h1.object[p].refs = 1
      /\ p \in Live(heap) => heap.object[p].refs \in Nat \ {0} /\ h1.object[p].refs = heap.object[p].refs + 1
                             /\ h1 = RefAgain(heap, p)
  <2>1. excused \subseteq E
    BY <1>2 DEF Excused
  <2>2. Again(h1, p, E)
    BY <2>1, Reference
  <2> QED BY <1>2, <2>2 DEF Again
<1>4. CASE p \in Live(heap)
  <2>1. PICK o : o = heap.object[p]
    OBVIOUS
  <2>2. o \in Object /\ heap \in HeapType /\ o.refs \in Nat \ {0}
    BY <1>1, <1>3, <1>4, <2>1, ObjectTypes DEF Typed
  <2>3. h1.object[p].refs > 1
    BY <1>3, <1>4, <2>1, <2>2
  <2>4. h = [h1 EXCEPT !.object[p].refs = @ - 1]
    BY <2>3 DEF object_path_unref
  <2>5. PICK o1 : o1 = [o EXCEPT !.refs = @ + 1]
    OBVIOUS
  <2>6. [o1 EXCEPT !.refs = @ - 1] = o
    <3>1. o1.refs = o.refs + 1
      BY <2>2, <2>5 DEF Object
    <3>2. o1.refs - 1 = o.refs
      BY ONLY <2>2, <3>1
    <3>3. [o1 EXCEPT !.refs = o.refs] = o
      BY <2>2, <2>5 DEF Object
    <3> QED BY <3>2, <3>3
  <2>7. PICK f : f = [heap.object EXCEPT ![p] = o1]
    OBVIOUS
  <2>8. h1 = [heap EXCEPT !.object = f]
    <3>1. h1 = RefAgain(heap, p)
      BY <1>3, <1>4
    <3> QED BY ONLY <2>1, <2>5, <2>7, <3>1 DEF RefAgain
  <2>9. f[p] = o1 /\ [f EXCEPT ![p] = o] = heap.object
    BY <1>1, <1>4, <2>1, <2>2, <2>7 DEF HeapType
  <2>10. h1.object = f
    BY <2>2, <2>8 DEF HeapType
  <2>11. h = [h1 EXCEPT !.object = heap.object]
    BY <2>4, <2>6, <2>9, <2>10
  <2>12. h = heap
    BY <2>2, <2>8, <2>11 DEF HeapType
  <2> QED BY <2>12, NothingDone
<1>5. CASE p \notin Live(heap)
  <2>1. p \in Live(h1) /\ ~(h1.object[p].refs > 1)
    BY <1>3, <1>5
  <2>2. \A c \in Path : N[c] = Nearest(heap, c) /\ N[c] \in Live(heap) \cup {NULL}
    BY <1>2, NearestAbove DEF Above1
  <2>3. \A c \in Live(h1) \cap (ToSet(Above[p]) \cup {p}) : N[c] = Nearest(h1, c)
    <3> SUFFICES ASSUME NEW c \in Live(h1) \cap (ToSet(Above[p]) \cup {p}) PROVE N[c] = Nearest(h1, c)
      OBVIOUS
    <3>1. c \in Path /\ p \notin ToSet(Above[c])
      BY <1>1, <1>3, AboveAbove, NotAboveItself
    <3>2. Live(heap) \ {p} = Live(h1) \ {p}
      BY <1>3
    <3> QED BY <2>2, <3>1, <3>2, NearestApart
  <2>4. /\ Typed(h) /\ Counted(h, {}) /\ Fresh(h, {}) /\ Dropped(h1, h, p)
        /\ misplaced = {} => ~h.dangling
        /\ \A m1 : ~h.dangling /\ misplaced \cap Live(h) \subseteq m1 /\ (\A c \in Live(h) \ m1 : N[c] # p)
              => Sound(h, m1, N, E, lost)
    <3>1. /\ Sound(h1, misplaced, N, E, lost) /\ Rooted(h1) /\ Counted(h1, {p}) /\ Fresh(h1, {p}) /\ ~h1.dangling
          /\ h = object_path_unref(h1, p)
      BY <1>3
    <3> QED BY ONLY <2>1, <2>3, <3>1, Drops
  <2>5. Live(h) = Live(heap) /\ h.root = heap.root /\ \A q \in Live(h) : Alike(h1.object[q], h.object[q]) /\ q # p
    BY <1>1, <1>3, <1>5, <2>4 DEF Dropped
  <2>6. ~h.dangling => Sound(h, misplaced, N, E, lost)
    <3>1. \A c \in Live(h) \ misplaced : N[c] # p
      BY <1>1, <1>5, <2>2, <2>5, ObjectAssumption
    <3>2. misplaced \cap Live(h) \subseteq misplaced
      OBVIOUS
    <3> QED BY ONLY <2>4, <3>1, <3>2
  <2>7. ~h.dangling => Sound(h, Moved(h), N, E, lost)
    BY <1>1, <2>6, SoundMoved
  <2>8. Held(h) /\ Waits(h, lost)
    BY <1>1, <1>3, <2>5 DEF Held, Waits, Alike
  <2>9. Rooted(h)
    BY <1>1, <2>5 DEF Rooted
  <2>10. Managed(h, h.root # NULL)
    <3>1. Live(h) \subseteq Live(h1) /\ \A q \in Live(h) : h.object[q].interfaces = h1.object[q].interfaces
      BY <1>3, <2>5 DEF Alike
    <3> QED BY <1>3, <2>5, <3>1 DEF Managed
  <2> QED BY <1>2, <2>4, <2>5, <2>7, <2>8, <2>9, <2>10 DEF Done
<1> QED BY <1>4, <1>5

(* ... and done.                                                             *)
LEMMA RegisterDone ==
  ASSUME IInv, Running, NEW p \in Path, NEW i \in Interface, NEW h1, h1 = object_path_ref(heap, p),
         i \notin h1.object[p].interfaces, NEW h2, h2 = add_interface(h1, p, i),
         NEW h3, h3 = IF i \notin Propertied \/ Properties \in h2.object[p].interfaces THEN h2
                      ELSE add_interface(h2, p, Properties),
         NEW h, h = [h3 EXCEPT !.object[p].introspect = NULL]
  PROVE  Done(h, lost)
<1>1. /\ Managed(heap, heap.root # NULL) /\ misplaced \subseteq Live(heap) /\ Held(heap) /\ Waits(heap, lost)
      /\ Typed(heap) /\ Live(heap) \subseteq Path /\ ~heap.dangling
  BY DEF IInv, Running, Live
<1>2. PICK N, E : N = Above1(heap) /\ E = Excused(h)
  OBVIOUS
<1>3. /\ Sound(h1, misplaced, N, E, lost) /\ Rooted(h1) /\ Counted(h1, {p}) /\ Fresh(h1, {p})
      /\ Waits(h1, lost) /\ Managed(h1, heap.root # NULL)
      /\ Live(h1) = Live(heap) \cup {p} /\ h1.root = heap.root /\ ~h1.dangling
      /\ Introspectable \in h1.object[p].interfaces
      /\ \A q \in Live(heap) : q # p => h1.object[q].refs = heap.object[q].refs
      /\ p \notin Live(heap) => h1.object[p].refs = 1
      /\ p \in Live(heap) => heap.object[p].refs \in Nat \ {0} /\ h1.object[p].refs = heap.object[p].refs + 1
  <2>1. excused \subseteq E
    BY <1>2 DEF Excused
  <2>2. Again(h1, p, E)
    BY <2>1, Reference
  <2> QED BY <1>2, <2>2 DEF Again
<1>4. p \in Live(h1) /\ i \in Name /\ Properties \in Name /\ i \in Counters /\ Properties \notin Counters
      /\ i # Introspectable /\ i # ObjectManager /\ i # Properties /\ Properties # ObjectManager /\ Live(h1) \subseteq Path
  BY <1>1, <1>3, ObjectAssumption DEF Name, Counters
<1>5. Typed(h1) /\ Typed(h2) /\ Added(h1, h2, p, i)
  BY <1>3, <1>4, Adds DEF Sound
<1>6. Live(h2) = Live(h1) /\ p \in Live(h2)
  BY <1>4, <1>5 DEF Added, Elsewhere
<1>7. PICK o1, o2, o3 : o1 = h1.object[p] /\ o2 = h2.object[p] /\ o3 = h3.object[p]
  OBVIOUS
<1>8. /\ Typed(h3) /\ Live(h3) = Live(h1) /\ Same(h1, h3) /\ \A q \in Path \ {p} : h3.object[q] = h1.object[q]
      /\ o2.removed = o3.removed /\ o2.added \subseteq o3.added /\ o3.refs = o1.refs
      /\ o3.interfaces \in {o1.interfaces \cup {i}, o1.interfaces \cup {i, Properties}}
      /\ o3.changed = o1.changed /\ o3.pending_prop = o1.pending_prop
  <2>1. o2.interfaces = o1.interfaces \cup {i} /\ o2.refs = o1.refs /\ o2.changed = o1.changed
        /\ o2.pending_prop = o1.pending_prop
    BY ONLY <1>5, <1>7 DEF Added, Placed
  <2>2. Live(h2) = Live(h1) /\ Same(h1, h2) /\ \A q \in Path \ {p} : h2.object[q] = h1.object[q]
    BY ONLY <1>5 DEF Added, Elsewhere
  <2>3. CASE h3 = h2
    <3>1. o3 = o2
      BY ONLY <1>7, <2>3
    <3> QED BY ONLY <1>5, <2>1, <2>2, <2>3, <3>1
  <2>4. CASE h3 = add_interface(h2, p, Properties)
    <3>1. Typed(h3) /\ Added(h2, h3, p, Properties)
      BY <1>4, <1>5, <1>6, <2>4, Adds
    <3>2. o3.interfaces = o2.interfaces \cup {Properties}
      BY ONLY <1>7, <3>1 DEF Added
    <3>3. o3.interfaces = o1.interfaces \cup {i, Properties}
      BY ONLY <2>1, <3>2
    <3>4. o2.removed = o3.removed /\ o2.added \subseteq o3.added /\ o3.refs = o2.refs /\ o3.changed = o2.changed
          /\ o3.pending_prop = o2.pending_prop
      BY ONLY <1>7, <3>1 DEF Added, Placed
    <3>5. Live(h3) = Live(h2) /\ Same(h1, h3) /\ \A q \in Path \ {p} : h3.object[q] = h2.object[q]
      BY ONLY <2>2, <3>1 DEF Added, Elsewhere, Same
    <3> QED BY ONLY <2>1, <2>2, <3>1, <3>3, <3>4, <3>5
  <2> QED BY <2>3, <2>4
<1>9. PICK o4 : o4 = Kept(o3, o3.refs, NULL)
  OBVIOUS
<1>10. o3 \in Object /\ h3 \in HeapType /\ p \in Live(h3) /\ o3.refs \in Nat
  <2>1. h3 \in HeapType /\ p \in Live(h3)
    BY ONLY <1>4, <1>8 DEF Typed
  <2>2. o3 \in Object
    BY ONLY <1>7, <2>1, ObjectTypes
  <2> QED BY ONLY <2>1, <2>2 DEF Object
<1>11. h = Put(h3, p, o4)
  <2>1. o4 = [o3 EXCEPT !.introspect = NULL]
    BY <1>9, <1>10 DEF Object, Kept
  <2> QED BY <1>7, <2>1 DEF Put
<1>12. Inward(h3, h, p, o4) /\ KeptAs(o3, o4, o3.refs, NULL)
  <2>1. NULL \in Xml \cup {NULL}
    OBVIOUS
  <2>2. o4 = Kept(h3.object[p], o3.refs, NULL)
    BY <1>7, <1>9
  <2>3. Inward(h3, h, p, o4) /\ KeptAs(h3.object[p], o4, o3.refs, NULL)
    BY ONLY <1>10, <1>11, <2>1, <2>2, PutInward
  <2> QED BY <1>7, <2>3
<1>13. h.object[p] = o4 /\ Live(h) = Live(h1) /\ h.root = heap.root /\ ~h.dangling
       /\ \A q \in Path \ {p} : h.object[q] = h1.object[q]
  BY ONLY <1>3, <1>8, <1>12 DEF Inward, Elsewhere, Outward, Same
<1>14. /\ \A q \in Live(h1) : q # p => h.object[q] = h1.object[q]
       /\ h.object[p].refs = o1.refs /\ h.object[p].changed = o1.changed /\ h.object[p].pending_prop = o1.pending_prop
       /\ h.object[p].interfaces = o3.interfaces
  BY <1>4, <1>8, <1>12, <1>13 DEF KeptAs
<1>15. \A j \in h3.object[p].added : j \in h3.object[p].removed => <<p, j>> \in E
  <2>1. ASSUME NEW j \in o4.added \cap o4.removed PROVE <<p, j>> \in Reregistered(h)
    <3>1. p \in Live(h) /\ <<p, j>> \in {p} \X (h.object[p].added \cap h.object[p].removed)
      BY <1>4, <1>13
    <3> QED BY <3>1 DEF Reregistered
  <2> QED BY <1>2, <1>7, <1>12, <2>1 DEF KeptAs, Excused
<1>16. Sound(h2, misplaced, N, E, lost) /\ Rooted(h2)
  <2>1. i \in h2.object[p].added /\ i \in h2.object[p].removed => <<p, i>> \in E
    BY <1>7, <1>8, <1>15
  <2> QED BY <1>3, <1>4, <2>1, SoundAdded
<1>17. Sound(h3, misplaced, N, E, lost)
  <2>1. CASE h3 = h2
    BY <1>16, <2>1
  <2>2. CASE Properties \notin h2.object[p].interfaces /\ h3 = add_interface(h2, p, Properties)
    <3>1. Properties \in h3.object[p].added /\ Properties \in h3.object[p].removed => <<p, Properties>> \in E
      BY <1>15
    <3> QED BY <1>4, <1>6, <1>16, <2>2, <3>1, SoundAdded
  <2> QED BY <2>1, <2>2
<1>18. Sound(h, misplaced, N, E, lost)
  <2>1. NULL \in Xml \cup {NULL}
    OBVIOUS
  <2>2. o4 = Kept(h3.object[p], o3.refs, NULL)
    BY <1>7, <1>9
  <2> QED BY ONLY <1>10, <1>11, <1>17, <2>1, <2>2, SoundInward
<1>19. Sound(h, Moved(h), N, E, lost)
  BY <1>1, <1>18, SoundMoved
<1>20. Counted(h, {})
  <2>1. Counted(h2, {})
    BY <1>3, <1>4, <1>5, CountedAdded
  <2>2. Counted(h3, {})
    <3>1. CASE h3 = h2
      BY <2>1, <3>1
    <3>2. CASE Properties \notin h2.object[p].interfaces /\ h3 = add_interface(h2, p, Properties)
      <4>1. Added(h2, h3, p, Properties)
        BY <1>4, <1>5, <1>6, <3>2, Adds
      <4> QED BY <1>4, <1>5, <1>6, <2>1, <3>2, <4>1, CountedAdded
    <3> QED BY <3>1, <3>2
  <2>3. Live(h3) = Live(h) /\ \A q \in Live(h) : h.object[q].interfaces = h3.object[q].interfaces /\ h.object[q].refs = h3.object[q].refs
    <3>1. Live(h3) = Live(h)
      BY <1>8, <1>13
    <3>2. ASSUME NEW q \in Live(h1)
          PROVE  h.object[q].interfaces = h3.object[q].interfaces /\ h.object[q].refs = h3.object[q].refs
      <4>1. CASE q = p
        <5>1. h.object[p].refs = o3.refs /\ h.object[p].interfaces = o3.interfaces
          BY ONLY <1>8, <1>14
        <5> QED BY ONLY <1>7, <4>1, <5>1
      <4>2. CASE q # p
        BY ONLY <1>4, <1>8, <1>14, <3>2, <4>2
      <4> QED BY <4>1, <4>2
    <3>3. Live(h) = Live(h1)
      BY <1>13
    <3> QED BY ONLY <3>1, <3>2, <3>3
  <2> QED BY ONLY <2>2, <2>3, CountedSame
<1>21. Held(h)
  <2>1. ASSUME NEW q \in Live(h1) PROVE h.object[q].refs # 0
    <3>1. CASE q = p
      <4>1. h1.object[p].refs # 0
        BY <1>3
      <4>2. h.object[p].refs = o1.refs
        BY ONLY <1>14
      <4> QED BY ONLY <1>7, <3>1, <4>1, <4>2
    <3>2. CASE q # p
      <4>1. h.object[q].refs = h1.object[q].refs
        BY ONLY <1>14, <3>2
      <4>2. q \in Live(heap) /\ h1.object[q].refs = heap.object[q].refs
        BY ONLY <1>3, <3>2
      <4>3. heap.object[q].refs # 0
        BY ONLY <1>1, <4>2 DEF Held
      <4> QED BY ONLY <4>1, <4>2, <4>3
    <3> QED BY <3>1, <3>2
  <2>2. Live(h) = Live(h1)
    BY ONLY <1>13
  <2> QED BY ONLY <2>1, <2>2 DEF Held
<1>22. Waits(h, lost)
  <2>1. Live(h) = Live(h1) /\ Waits(h1, lost)
    BY <1>3, <1>13
  <2>2. ASSUME NEW q \in Live(h1)
        PROVE  h.object[q].changed = h1.object[q].changed /\ h.object[q].pending_prop = h1.object[q].pending_prop
    <3>1. CASE q = p
      <4>1. h.object[p].changed = o1.changed /\ h.object[p].pending_prop = o1.pending_prop
        BY ONLY <1>14
      <4> QED BY ONLY <1>7, <3>1, <4>1
    <3>2. CASE q # p
      BY ONLY <1>14, <2>2, <3>2
    <3> QED BY <3>1, <3>2
  <2> QED BY ONLY <2>1, <2>2 DEF Waits
<1>23. Fresh(h, {})
  <2>1. o4.interfaces = o3.interfaces /\ o4.introspect = NULL
    BY <1>12 DEF KeptAs
  <2>2. Introspectable \in o4.interfaces
    BY <1>3, <1>7, <1>8, <2>1
  <2>3. \A q \in Live(h1) \ {p} : h.object[q] = h1.object[q]
    BY <1>4, <1>13
  <2>4. Fresh(h1, {p}) /\ Live(h) = Live(h1) /\ h.object[p] = o4
    BY <1>3, <1>13
  <2>5. p \in Live(h1) => h.object[p].introspect = NULL /\ Introspectable \in h.object[p].interfaces
    BY ONLY <2>1, <2>2, <2>4
  <2> QED BY ONLY <2>3, <2>4, <2>5, FreshReset
<1>24. Managed(h, h.root # NULL)
  <2>1. ObjectManager \in o4.interfaces <=> ObjectManager \in h1.object[p].interfaces
    BY ONLY <1>4, <1>7, <1>8, <1>12 DEF KeptAs
  <2>2. \A q \in Live(h1) : q # p => h.object[q] = h1.object[q]
    BY <1>4, <1>13
  <2>3. ASSUME NEW q \in Live(h1) PROVE ObjectManager \in h.object[q].interfaces <=> ObjectManager \in h1.object[q].interfaces
    <3>1. CASE q = p
      BY <1>13, <2>1, <3>1
    <3>2. CASE q # p
      BY <2>2, <3>2
    <3> QED BY <3>1, <3>2
  <2>4. Managed(h1, heap.root # NULL)
    BY <1>3
  <2> QED BY ONLY <1>13, <2>3, <2>4 DEF Managed
<1>25. Rooted(h)
  BY <1>3, <1>13 DEF Rooted
<1>26. \A c \in Live(h) \ Live(heap) : Nearest(h, c) = Nearest(heap, c)
  <2> SUFFICES ASSUME NEW c \in Live(h) \ Live(heap) PROVE Nearest(h, c) = Nearest(heap, c)
    OBVIOUS
  <2>1. c = p /\ p \notin ToSet(Above[p]) /\ Live(h) \ {p} = Live(heap) \ {p}
    BY <1>3, <1>13, NotAboveItself
  <2> QED BY <2>1, NearestApart
<1>27. Typed(h)
  BY <1>19 DEF Sound
<1> QED BY <1>2, <1>13, <1>19, <1>20, <1>21, <1>22, <1>23, <1>24, <1>25, <1>26, <1>27 DEF Done

(* Together.                                                                 *)
LEMMA RegisterSound ==
  ASSUME IInv, Running, NEW p \in Path, NEW i \in Interface, NEW h, h = g_dbus_register_interface(heap, p, i)
  PROVE  Done(h, lost)
<1>1. PICK h1 : h1 = object_path_ref(heap, p)
  OBVIOUS
<1>2. CASE i \in h1.object[p].interfaces \cup Experimental
  <2>1. h = object_path_unref(h1, p)
    BY <1>1, <1>2 DEF g_dbus_register_interface
  <2> QED BY <1>1, <2>1, RegisterRefused
<1>3. CASE i \notin h1.object[p].interfaces \cup Experimental
  <2>1. PICK h2 : h2 = add_interface(h1, p, i)
    OBVIOUS
  <2>2. PICK h3 : h3 = IF i \notin Propertied \/ Properties \in h2.object[p].interfaces THEN h2
                       ELSE add_interface(h2, p, Properties)
    OBVIOUS
  <2>3. h = [h3 EXCEPT !.object[p].introspect = NULL]
    BY <1>1, <1>3, <2>1, <2>2 DEF g_dbus_register_interface
  <2> QED BY <1>1, <1>3, <2>1, <2>2, <2>3, RegisterDone
<1> QED BY <1>2, <1>3

(* g_dbus_unregister_interface, of the program or of the object manager.     *)
Gone(h, p, i, ex) ==
  /\ Typed(h) /\ Counted(h, {}) /\ Held(h) /\ Waits(h, lost \cup {p} \X Name) /\ h.root = heap.root
  /\ h.dangling => misplaced # {}
  /\ ~h.dangling => Sound(h, Moved(h), Above1(heap), ex, lost \cup {p} \X Name)
  /\ Fresh(h, {}) /\ Live(h) \subseteq Live(heap) /\ Live(heap) \ {p} \subseteq Live(h)
  /\ \A q \in Live(h) : q # p => h.object[q].interfaces = heap.object[q].interfaces
  /\ p \in Live(h) => h.object[p].interfaces = heap.object[p].interfaces \ {i}
  /\ p \notin Live(h) => heap.object[p].interfaces \cap Counters \subseteq {i}

(* It does what Gone says.                                                   *)
LEMMA Unregisters ==
  ASSUME IInv, Running, NEW p \in Live(heap), NEW i \in Counters, i \in heap.object[p].interfaces,
         NEW ex, excused \subseteq ex, NEW h, h = g_dbus_unregister_interface(heap, p, i)
  PROVE  Gone(h, p, i, ex)
<1>1. /\ Sound(heap, misplaced, Above1(heap), excused, lost) /\ Fresh(heap, {}) /\ Counted(heap, {})
      /\ Rooted(heap) /\ misplaced \subseteq Live(heap) /\ Held(heap) /\ Waits(heap, lost)
      /\ Typed(heap) /\ Live(heap) \subseteq Path /\ ~heap.dangling /\ p \in Path
  BY DEF IInv, Running, Live
<1>2. PICK N, l : N = Above1(heap) /\ l = lost \cup {p} \X Name
  OBVIOUS
<1>3. i \in Name /\ i # Introspectable /\ lost \subseteq l /\ \A j \in Name : <<p, j>> \in l
  BY <1>2, ObjectAssumption DEF Counters, Name
<1>4. Sound(heap, misplaced, N, ex, lost)
  BY <1>1, <1>2, TellsWeaker DEF Sound
<1>5. PICK k : k = remove_interface(heap, p, i)
  OBVIOUS
<1>6. Sound(k, misplaced, N, ex, l) /\ Rooted(k) /\ Taken(heap, k, p, i)
  BY <1>1, <1>3, <1>4, <1>5, SoundRemoved
<1>7. Typed(k) /\ Removed(heap, k, p, i)
  BY <1>1, <1>3, <1>5, Removes
<1>8. Counted(k, {p})
  BY <1>1, <1>3, <1>7, CountedRemoved
<1>9. PICK o, ok : o = heap.object[p] /\ ok = k.object[p]
  OBVIOUS
<1>10. Live(k) = Live(heap) /\ k.root = heap.root /\ ~k.dangling /\ (\A q \in Path \ {p} : k.object[q] = heap.object[q])
       /\ ok.interfaces = o.interfaces \ {i} /\ ok.refs = o.refs
  BY <1>1, <1>6, <1>9 DEF Taken, Placed, Same
<1>11. ok \in Object /\ ok.refs \in Nat \ {0} /\ k \in HeapType /\ p \in Live(k)
  BY <1>1, <1>7, <1>9, <1>10, ObjectTypes DEF Typed, Object, Held
<1>12. PICK o1 : o1 = Kept(ok, ok.refs, NULL)
  OBVIOUS
<1>13. PICK k1 : k1 = [k EXCEPT !.object[p].introspect = NULL]
  OBVIOUS
<1>14. k1 = Put(k, p, o1)
  <2>1. o1 = [ok EXCEPT !.introspect = NULL]
    BY <1>11, <1>12 DEF Object, Kept
  <2> QED BY <1>9, <1>13, <2>1 DEF Put
<1>15. Sound(k1, misplaced, N, ex, l) /\ Inward(k, k1, p, o1) /\ KeptAs(ok, o1, ok.refs, NULL)
  <2>1. NULL \in Xml \cup {NULL} /\ ok.refs \in Nat
    BY <1>11
  <2>2. o1 = Kept(k.object[p], ok.refs, NULL)
    BY <1>9, <1>12
  <2>3. Sound(k1, misplaced, N, ex, l) /\ Inward(k, k1, p, o1) /\ KeptAs(k.object[p], o1, ok.refs, NULL)
    BY ONLY <1>6, <1>11, <1>14, <2>1, <2>2, SoundInward
  <2> QED BY <1>9, <2>3
<1>16. /\ Live(k1) = Live(heap) /\ k1.object[p] = o1 /\ k1.root = heap.root /\ ~k1.dangling
       /\ \A q \in Live(heap) : q # p => k1.object[q] = heap.object[q]
       /\ o1.interfaces = o.interfaces \ {i} /\ o1.refs = o.refs /\ o1.introspect = NULL
  BY <1>1, <1>10, <1>15 DEF Inward, Elsewhere, Outward, KeptAs
<1>17. Counted(k1, {p})
  <2>1. ok = k.object[p] /\ Live(k) \subseteq Path
    BY <1>1, <1>9, <1>10
  <2>2. o1.refs = ok.refs /\ o1.interfaces = ok.interfaces
    BY <1>15 DEF KeptAs
  <2> QED BY <1>8, <1>11, <1>15, <2>1, <2>2, CountedMore
<1>18. Fresh(k1, {p})
  <2>1. Fresh(heap, {p})
    BY <1>1 DEF Fresh
  <2> QED BY <1>16, <2>1, FreshElsewhere
<1>19. h = object_path_unref(k1, p)
  BY <1>5, <1>13 DEF g_dbus_unregister_interface
<1>20. CASE k1.object[p].refs > 1
  <2>1. h = [k1 EXCEPT !.object[p].refs = @ - 1]
    BY <1>19, <1>20 DEF object_path_unref
  <2>2. PICK o2 : o2 = Kept(o1, o1.refs - 1, NULL)
    OBVIOUS
  <2>3. o1 \in Object /\ o1.refs \in Nat /\ o1.refs > 1 /\ o1.refs - 1 \in Nat \ {0} /\ p \in Live(k1)
    BY <1>11, <1>15, <1>16, <1>20 DEF KeptAs, Object
  <2>4. h = Put(k1, p, o2)
    <3>1. o2 = [o1 EXCEPT !.refs = @ - 1]
      BY <1>16, <2>2, <2>3 DEF Object, Kept
    <3> QED BY <1>16, <2>1, <3>1 DEF Put
  <2>5. Sound(h, misplaced, N, ex, l) /\ Inward(k1, h, p, o2) /\ KeptAs(o1, o2, o1.refs - 1, NULL)
    <3>1. NULL \in Xml \cup {NULL} /\ o1.refs - 1 \in Nat
      BY <2>3
    <3>2. o2 = Kept(k1.object[p], o1.refs - 1, NULL)
      BY <1>16, <2>2
    <3>3. Sound(h, misplaced, N, ex, l) /\ Inward(k1, h, p, o2) /\ KeptAs(k1.object[p], o2, o1.refs - 1, NULL)
      BY ONLY <1>15, <2>3, <2>4, <3>1, <3>2, SoundInward
    <3> QED BY <1>16, <3>3
  <2>6. /\ Live(h) = Live(heap) /\ h.object[p] = o2 /\ h.root = heap.root /\ ~h.dangling
        /\ \A q \in Live(heap) : q # p => h.object[q] = heap.object[q]
        /\ o2.interfaces = o.interfaces \ {i} /\ o2.refs = o1.refs - 1 /\ o2.introspect = NULL
    BY <1>1, <1>16, <2>5 DEF Inward, Elsewhere, Outward, KeptAs
  <2>7. Counted(h, {})
    <3>1. o1 = k1.object[p] /\ o2.interfaces = o1.interfaces /\ Live(k1) \subseteq Path
      BY <1>1, <1>16, <2>5 DEF KeptAs
    <3> QED BY <1>17, <2>3, <2>5, <2>6, <3>1, CountedMore
  <2>8. Held(h)
    <3>1. \A q \in Live(heap) : h.object[q].refs # 0
      BY <1>1, <2>3, <2>6 DEF Held
    <3> QED BY <2>6, <3>1 DEF Held
  <2>9. Waits(h, l)
    <3>1. o2 \in Object
      BY <2>5 DEF KeptAs
    <3>2. o2.changed \subseteq Name
      BY <3>1 DEF Object
    <3>3. Waits(heap, lost) /\ lost \subseteq l /\ \A j \in Name : <<p, j>> \in l
      BY <1>1, <1>3
    <3> QED BY ONLY <2>6, <3>2, <3>3 DEF Waits
  <2>10. Fresh(h, {})
    <3>1. Introspectable \in o2.interfaces
      BY <1>1, <1>3, <1>9, <2>6 DEF Fresh
    <3>2. Fresh(heap, {p})
      BY <1>1 DEF Fresh
    <3> QED BY ONLY <2>6, <3>1, <3>2, FreshReset
  <2>11. Sound(h, Moved(h), N, ex, l)
    BY <1>1, <2>5, SoundMoved
  <2>12. Typed(h)
    BY <2>5 DEF Sound
  <2>13. \A q \in Live(h) : q # p => h.object[q].interfaces = heap.object[q].interfaces
    BY <2>6
  <2> QED BY ONLY <1>2, <1>9, <2>6, <2>7, <2>8, <2>9, <2>10, <2>11, <2>12, <2>13, p \in Live(heap) DEF Gone
<1>21. CASE ~(k1.object[p].refs > 1)
  <2>1. p \in Live(k1) /\ Rooted(k1)
    BY <1>1, <1>16 DEF Rooted
  <2>2. \A c \in Path : N[c] = Nearest(heap, c) /\ N[c] \in Live(heap) \cup {NULL}
    BY <1>2, NearestAbove DEF Above1
  <2>3. \A c \in Live(k1) \cap (ToSet(Above[p]) \cup {p}) : N[c] = Nearest(k1, c)
    BY <1>1, <1>16, <2>2, NearestLive
  <2>4. /\ Typed(h) /\ Counted(h, {}) /\ Fresh(h, {}) /\ Dropped(k1, h, p)
        /\ misplaced = {} => ~h.dangling
        /\ \A m1 : ~h.dangling /\ misplaced \cap Live(h) \subseteq m1 /\ (\A c \in Live(h) \ m1 : N[c] # p)
              => Sound(h, m1, N, ex, l)
    <3>1. Sound(k1, misplaced, N, ex, l) /\ ~k1.dangling
      BY <1>15, <1>16
    <3> QED BY ONLY <1>17, <1>18, <1>19, <1>21, <2>1, <2>3, <3>1, Drops
  <2>5. Live(h) = Live(heap) \ {p} /\ h.root = heap.root /\ \A q \in Live(h) : Alike(heap.object[q], h.object[q]) /\ q # p
    BY <1>16, <2>4 DEF Dropped
  <2>6. ~h.dangling => Sound(h, Moved(h), N, ex, l)
    <3>1. misplaced \cap Live(h) \subseteq Moved(h)
      BY <2>5 DEF Moved
    <3>2. ASSUME NEW c \in Live(h) \ Moved(h) PROVE N[c] # p
      <4>1. c \in Path /\ N[c] = Nearest(h, c)
        BY <1>1, <2>2, <2>5, <3>2 DEF Moved
      <4>2. Nearest(h, c) \in Live(h) \cup {NULL}
        BY <4>1, NearestAbove
      <4> QED BY <1>1, <2>5, <4>1, <4>2, ObjectAssumption
    <3> QED BY <2>4, <3>1, <3>2
  <2>7. Held(h) /\ Waits(h, l)
    <3>1. Held(heap) /\ Waits(heap, lost) /\ lost \subseteq l
      BY <1>1, <1>3
    <3> QED BY ONLY <2>5, <3>1 DEF Held, Waits, Alike
  <2>8. o.interfaces \cap Counters \subseteq {i}
    <3>1. Typed(k1) /\ Stale(k1, ex, l)
      BY <1>15 DEF Sound
    <3>2. k1.object[p].interfaces \cap Counters = {}
      BY ONLY <1>17, <1>21, <2>1, <3>1, NothingLeft
    <3>3. (o.interfaces \ {i}) \cap Counters = {}
      BY <1>16, <3>2
    <3> QED BY <3>3
  <2>9. \A q \in Live(h) : q # p => h.object[q].interfaces = heap.object[q].interfaces
    BY <2>5 DEF Alike
  <2> QED BY ONLY <1>2, <1>9, <2>4, <2>5, <2>6, <2>7, <2>8, <2>9, p \in Live(heap) DEF Gone
<1> QED BY <1>20, <1>21

(* g_dbus_unregister_interface by the program.                               *)
LEMMA UnregisterSound ==
  ASSUME IInv, Running, NEW p \in Path, NEW i \in Interface, NEW h, h = g_dbus_unregister_interface(heap, p, i),
         NEW l, l = lost \cup {p} \X Name
  PROVE  Done(h, l)
<1>1. CASE p \notin Live(heap) \/ i \notin heap.object[p].interfaces
  <2>1. h = heap
    BY <1>1 DEF g_dbus_unregister_interface
  <2>2. lost \subseteq l
    OBVIOUS
  <2> QED BY <2>1, <2>2, NothingDone
<1>2. CASE p \in Live(heap) /\ i \in heap.object[p].interfaces
  <2>1. i \in Counters /\ i # ObjectManager
    BY ObjectAssumption DEF Counters
  <2>2. excused \subseteq Excused(h)
    BY DEF Excused
  <2>3. Gone(h, p, i, Excused(h))
    <3>1. p \in Live(heap)
      BY <1>2
    <3> QED BY <1>2, <2>1, <2>2, <3>1, Unregisters
  <2>4. /\ Managed(heap, heap.root # NULL) /\ Rooted(heap) /\ Live(heap) \subseteq Path
    BY DEF IInv, Running, Live
  <2>5. /\ Typed(h) /\ Counted(h, {}) /\ Held(h) /\ Waits(h, l) /\ h.root = heap.root
        /\ h.dangling => misplaced # {}
        /\ ~h.dangling => Sound(h, Moved(h), Above1(heap), Excused(h), l)
        /\ Fresh(h, {}) /\ Live(h) \subseteq Live(heap) /\ Live(heap) \ {p} \subseteq Live(h)
        /\ \A q \in Live(h) : q # p => h.object[q].interfaces = heap.object[q].interfaces
        /\ p \in Live(h) => h.object[p].interfaces = heap.object[p].interfaces \ {i}
        /\ p \notin Live(h) => heap.object[p].interfaces \cap Counters \subseteq {i}
    BY <2>3 DEF Gone
  <2>6. Managed(h, h.root # NULL)
    <3>1. ASSUME NEW q \in Live(h) PROVE ObjectManager \in h.object[q].interfaces <=> ObjectManager \in heap.object[q].interfaces
      BY <2>1, <2>5, <3>1
    <3> QED BY <2>4, <2>5, <3>1 DEF Managed
  <2>7. Rooted(h)
    <3>1. ASSUME heap.root # NULL, Root \notin Live(h) PROVE FALSE
      <4>1. Root \in Live(heap) /\ p = Root
        BY <2>4, <2>5, <3>1 DEF Rooted
      <4>2. ObjectManager \in heap.object[Root].interfaces
        BY <2>4, <3>1, <4>1 DEF Managed
      <4>3. ObjectManager \in {i}
        BY <2>5, <3>1, <4>1, <4>2 DEF Counters
      <4> QED BY <2>1, <4>3
    <3> QED BY <2>5, <3>1 DEF Rooted
  <2>8. \A c \in Live(h) \ Live(heap) : Nearest(h, c) = Nearest(heap, c)
    BY <2>5
  <2> QED BY ONLY <2>5, <2>6, <2>7, <2>8 DEF Done
<1> QED BY <1>1, <1>2

(* What only the root and the listener's picture make of a heap.             *)
Managing(u, h, r, K) ==
  /\ h \in HeapType /\ h.object = u.object /\ h.root = r /\ h.known = K /\ h.pending = u.pending
  /\ h.stale = u.stale /\ h.dangling = u.dangling /\ Live(h) = Live(u)

(* Attaching and detaching set the two.                                      *)
LEMMA Manages ==
  ASSUME NEW u, u \in HeapType, NEW r \in {Root, NULL}, NEW K \in SUBSET Pair,
         NEW h, h = [u EXCEPT !.root = r, !.known = K]
  PROVE  Managing(u, h, r, K)
BY DEF Managing, HeapType, Live

(* g_dbus_detach_object_manager: the root may go, with all that was known.   *)
LEMMA DetachSound ==
  ASSUME IInv, Running, heap.root # NULL, NEW h, h = g_dbus_detach_object_manager(heap),
         NEW l, l = lost \cup {Root} \X Name
  PROVE  Done(h, l)
<1>1. PICK u : u = g_dbus_unregister_interface(heap, Root, ObjectManager)
  OBVIOUS
<1>2. /\ Managed(heap, heap.root # NULL) /\ Rooted(heap) /\ Live(heap) \subseteq Path
  BY DEF IInv, Running, Live
<1>3. Root \in Live(heap) /\ ObjectManager \in heap.object[Root].interfaces /\ ObjectManager \in Counters
  BY <1>2 DEF Rooted, Managed, Counters
<1>4. PICK E, N : E = Excused(h) /\ N = Above1(heap)
  OBVIOUS
<1>5. Gone(u, Root, ObjectManager, E)
  <2>1. excused \subseteq E
    BY <1>4 DEF Excused
  <2> QED BY <1>1, <1>3, <2>1, Unregisters
<1>6. /\ Typed(u) /\ Counted(u, {}) /\ Held(u) /\ Waits(u, l) /\ u.root = heap.root
      /\ u.dangling => misplaced # {}
      /\ ~u.dangling => Sound(u, Moved(u), N, E, l)
      /\ Fresh(u, {}) /\ Live(u) \subseteq Live(heap)
      /\ \A q \in Live(u) : q # Root => u.object[q].interfaces = heap.object[q].interfaces
      /\ Root \in Live(u) => u.object[Root].interfaces = heap.object[Root].interfaces \ {ObjectManager}
  BY <1>4, <1>5 DEF Gone
<1>7. Managing(u, h, NULL, {})
  <2>1. h = [u EXCEPT !.root = NULL, !.known = {}]
    BY <1>1 DEF g_dbus_detach_object_manager
  <2> QED BY <1>6, <2>1, Manages DEF Typed
<1>8. /\ h \in HeapType /\ h.object = u.object /\ h.root = NULL /\ h.known = {} /\ h.pending = u.pending
      /\ h.stale = u.stale /\ h.dangling = u.dangling /\ Live(h) = Live(u)
  BY <1>7 DEF Managing
<1>9. Typed(h)
  BY <1>6, <1>8 DEF Typed
<1>10. Counted(h, {}) /\ Held(h) /\ Waits(h, l)
  BY <1>6, <1>8 DEF Counted, Held, Waits
<1>11. Fresh(h, {})
  BY <1>6, <1>8, FreshElsewhere
<1>12. Managed(h, h.root # NULL) /\ Rooted(h)
  BY <1>2, <1>6, <1>8 DEF Managed, Rooted
<1>13. ASSUME ~h.dangling PROVE Sound(h, Moved(h), N, E, l)
  <2>1. Moved(h) = Moved(u)
    <3>1. \A p \in Live(h) : Nearest(h, p) = Nearest(u, p)
      BY <1>2, <1>6, <1>8, NearestLive
    <3> QED BY <1>8, <3>1 DEF Moved
  <2>2. Tree(u, Moved(h), N) /\ Tells(u, E) /\ Stale(u, E, l)
    BY <1>6, <1>8, <1>13, <2>1 DEF Sound
  <2>3. Tree(h, Moved(h), N)
    BY <1>8, <2>2, TreeSame
  <2>4. Hung(h, E)
    BY <1>8 DEF Hung
  <2>5. Tells(h, E)
    BY <1>8, <2>2 DEF Tells
  <2>6. Stale(h, E, l)
    <3>1. ASSUME NEW p \in Path, NEW i \in Name, <<p, i>> \in h.stale PROVE StaleAt(h, p, i, E, l)
      <4>1. StaleAt(u, p, i, E, l)
        BY <1>8, <2>2, <3>1 DEF Stale
      <4>2. CASE u.root # NULL /\ i \in u.object[p].added
        <5>1. p \in Live(h) /\ <<p, i>> \in {p} \X h.object[p].added
          BY <1>8, <4>1, <4>2 DEF StaleAt
        <5>2. <<p, i>> \in Unannounced(h)
          BY <1>8, <5>1 DEF Unannounced
        <5>3. <<p, i>> \in E
          BY <1>4, <5>2 DEF Excused
        <5> QED BY <1>8, <4>1, <5>3 DEF StaleAt
      <4>3. CASE ~(u.root # NULL /\ i \in u.object[p].added)
        BY <1>8, <4>1, <4>3 DEF StaleAt
      <4> QED BY <4>2, <4>3
    <3>2. \A p \in Live(h) : h.object[p].pending_prop => p \in h.pending
      BY <1>8, <2>2 DEF Stale
    <3> QED BY <3>1, <3>2 DEF Stale
  <2> QED BY <1>9, <2>3, <2>4, <2>5, <2>6 DEF Sound
<1>14. h.dangling => misplaced # {}
  BY <1>6, <1>8
<1>15. \A c \in Live(h) \ Live(heap) : Nearest(h, c) = Nearest(heap, c)
  BY <1>6, <1>8
<1> QED BY <1>4, <1>9, <1>10, <1>11, <1>12, <1>13, <1>14, <1>15 DEF Done

(* GetManagedObjects tells of live objects, the root apart.                  *)
LEMMA ObjectsTyped ==
  ASSUME NEW h, h \in HeapType
  PROVE  get_objects(h) \in SUBSET Pair /\ \A p, i : <<p, i>> \in get_objects(h) => p \in Live(h) \ {Root}
<1>1. ASSUME NEW pair \in get_objects(h) PROVE pair \in Pair /\ pair[1] \in Live(h) \ {Root}
  <2>1. PICK p \in Reached(h) : pair \in {p} \X (h.object[p].interfaces \ h.object[p].added)
    BY <1>1 DEF get_objects
  <2>2. p \in Live(h) \ {Root}
    BY <2>1 DEF Reached
  <2>3. p \in Path /\ h.object[p] \in Object
    BY <2>2, ObjectTypes
  <2> QED BY <2>1, <2>2, <2>3 DEF Object, Pair
<1> QED BY <1>1

(* g_dbus_attach_object_manager: what the listener then learns is in the     *)
(* tree.                                                                     *)
LEMMA AttachSound ==
  ASSUME IInv, Running, heap.root = NULL, NEW h, h = g_dbus_attach_object_manager(heap)
  PROVE  Done(h, lost)
<1>1. PICK k, k2, h1 : /\ k = object_path_ref(heap, Root) /\ k2 = add_interface(k, Root, ObjectManager)
                       /\ h1 = [k2 EXCEPT !.root = Root]
  OBVIOUS
<1>2. PICK E, N : E = Excused(h) /\ N = Above1(heap)
  OBVIOUS
<1>3. /\ Managed(heap, heap.root # NULL) /\ misplaced \subseteq Live(heap) /\ Held(heap) /\ Waits(heap, lost)
      /\ Fresh(heap, {}) /\ Typed(heap) /\ Live(heap) \subseteq Path /\ ~heap.dangling /\ Root \in Path /\ NULL # Root
  BY ObjectAssumption DEF IInv, Running, Live
<1>4. Again(k, Root, E)
  <2>1. excused \subseteq E
    BY <1>2 DEF Excused
  <2> QED BY <1>1, <1>3, <2>1, Reference
<1>5. /\ Sound(k, misplaced, N, E, lost) /\ Rooted(k) /\ Counted(k, {Root}) /\ Fresh(k, {Root})
      /\ Waits(k, lost) /\ Managed(k, heap.root # NULL)
      /\ Live(k) = Live(heap) \cup {Root} /\ k.root = heap.root /\ ~k.dangling
      /\ Introspectable \in k.object[Root].interfaces
      /\ \A q \in Live(heap) : q # Root => k.object[q].refs = heap.object[q].refs
      /\ Root \notin Live(heap) => k.object[Root].refs = 1 /\ k.object[Root].introspect = Stub
      /\ Root \in Live(heap) => heap.object[Root].refs \in Nat \ {0} /\ k.object[Root].refs = heap.object[Root].refs + 1
                                /\ k.object[Root].introspect = heap.object[Root].introspect
                                /\ k.object[Root].interfaces = heap.object[Root].interfaces
  BY <1>2, <1>4 DEF Again
<1>6. Root \in Live(k) /\ ObjectManager \in Name /\ ObjectManager \in Counters /\ Typed(k)
      /\ ObjectManager \notin k.object[Root].interfaces
  BY <1>5 DEF Name, Counters, Sound, Managed
<1>7. Typed(k2) /\ Added(k, k2, Root, ObjectManager)
  BY <1>1, <1>6, Adds
<1>8. PICK o, o2 : o = k.object[Root] /\ o2 = k2.object[Root]
  OBVIOUS
<1>9. o.parent = NULL /\ o.added = {} /\ o.removed = {}
  <2>1. Tree(k, misplaced, N) /\ Tells(k, E)
    BY <1>5 DEF Sound
  <2>2. ToSet(Above[Root]) = {}
    BY ObjectAssumption DEF ToSet
  <2> QED BY <1>6, <1>8, <2>1, <2>2 DEF Tree, Tells
<1>10. /\ Live(k2) = Live(k) /\ Same(k, k2) /\ \A q \in Path \ {Root} : k2.object[q] = k.object[q]
       /\ o2.interfaces = o.interfaces \cup {ObjectManager} /\ o2.refs = o.refs /\ o2.introspect = o.introspect
       /\ o2.added = {} /\ o2.changed = o.changed /\ o2.pending_prop = o.pending_prop
  BY <1>7, <1>8, <1>9 DEF Added, Elsewhere, Placed
<1>11. Sound(k2, misplaced, N, E, lost)
  <2>1. ObjectManager \notin k2.object[Root].added
    BY <1>8, <1>10
  <2> QED BY <1>1, <1>5, <1>6, <2>1, SoundAdded
<1>12. Managing(k2, h, Root, get_objects(h1))
  <2>1. h1 \in HeapType /\ k2 \in HeapType
    BY <1>1, <1>7 DEF Typed, HeapType
  <2>2. get_objects(h1) \in SUBSET Pair
    BY <2>1, ObjectsTyped
  <2>3. h = [k2 EXCEPT !.root = Root, !.known = get_objects(h1)]
    <3>1. h = [h1 EXCEPT !.known = get_objects(h1)]
      BY <1>1 DEF g_dbus_attach_object_manager
    <3> QED BY <1>1, <2>1, <3>1 DEF HeapType
  <2> QED BY <2>1, <2>2, <2>3, Manages
<1>13. /\ h \in HeapType /\ h.object = k2.object /\ h.root = Root /\ h.known = get_objects(h1) /\ h.pending = k2.pending
       /\ h.stale = k2.stale /\ ~h.dangling /\ Live(h) = Live(k)
  BY <1>5, <1>10, <1>12 DEF Managing, Same
<1>14. Live(h1) = Live(k)
  <2>1. h1.object = k2.object
    BY <1>1, <1>7 DEF Typed, HeapType
  <2> QED BY <1>10, <2>1 DEF Live
<1>15. \A p, i : <<p, i>> \in h.known => p \in Live(h)
  <2>1. h1 \in HeapType
    BY <1>1, <1>7 DEF Typed, HeapType
  <2> QED BY <1>13, <1>14, <2>1, ObjectsTyped
<1>16. \A p \in Live(h), i \in Name : <<p, i>> \in E
  <2>1. Early(h) = (Live(heap) \cup {Root}) \X Name
    BY <1>3, <1>13 DEF Early
  <2> QED BY <1>2, <1>5, <1>13, <2>1 DEF Excused
<1>17. Typed(h)
  BY <1>7, <1>10, <1>13 DEF Typed
<1>18. Tree(k2, misplaced, N) /\ Tells(k2, E) /\ Stale(k2, E, lost) /\ Live(k2) \subseteq Path
  BY <1>3, <1>5, <1>10, <1>11 DEF Sound
<1>19. Tree(h, misplaced, N)
  BY <1>10, <1>13, <1>18, TreeSame
<1>20. Hung(h, E)
  BY <1>16 DEF Hung
<1>21. Tells(h, E)
  <2>1. ASSUME NEW p \in Path, NEW i \in Name, <<p, i>> \notin E PROVE TellsAt(h, p, i)
    BY <1>15, <1>16, <2>1 DEF TellsAt
  <2> QED BY <1>10, <1>13, <1>18, <2>1 DEF Tells
<1>22. Stale(h, E, lost)
  <2>1. ASSUME NEW p \in Path, NEW i \in Name, <<p, i>> \in h.stale PROVE StaleAt(h, p, i, E, lost)
    <3>1. StaleAt(k2, p, i, E, lost)
      BY <1>13, <1>18, <2>1 DEF Stale
    <3> QED BY <1>10, <1>13, <1>16, <3>1 DEF StaleAt
  <2>2. \A p \in Live(h) : h.object[p].pending_prop => p \in h.pending
    BY <1>10, <1>13, <1>18 DEF Stale
  <2> QED BY <2>1, <2>2 DEF Stale
<1>23. Sound(h, Moved(h), N, E, lost)
  <2>1. Sound(h, misplaced, N, E, lost)
    BY <1>17, <1>19, <1>20, <1>21, <1>22 DEF Sound
  <2> QED BY <1>3, <2>1, SoundMoved
<1>24. Counted(h, {})
  <2>1. Counted(k2, {})
    BY <1>5, <1>6, <1>7, CountedAdded
  <2> QED BY <1>10, <1>13, <2>1 DEF Counted
<1>25. Held(h)
  <2>1. ASSUME NEW q \in Live(k) PROVE h.object[q].refs # 0
    <3>1. CASE q = Root
      <4>1. o.refs # 0
        BY <1>5, <1>8
      <4> QED BY <1>8, <1>10, <1>13, <3>1, <4>1
    <3>2. CASE q # Root
      <4>1. h.object[q] = k.object[q] /\ q \in Live(heap)
        BY <1>3, <1>5, <1>10, <1>13, <2>1, <3>2
      <4> QED BY <1>3, <1>5, <3>2, <4>1 DEF Held
    <3> QED BY <3>1, <3>2
  <2> QED BY <1>13, <2>1 DEF Held
<1>26. \A q \in Live(k) : q # Root => h.object[q] = k.object[q]
  BY <1>3, <1>5, <1>10, <1>13
<1>27. h.object[Root] = o2
  BY <1>8, <1>13
<1>28. Waits(h, lost)
  <2>1. \A q \in Live(k) : h.object[q].changed = k.object[q].changed /\ h.object[q].pending_prop = k.object[q].pending_prop
    BY <1>8, <1>10, <1>26, <1>27
  <2> QED BY <1>5, <1>13, <2>1 DEF Waits
<1>29. Managed(h, h.root # NULL)
  <2>1. ASSUME NEW q \in Live(k) PROVE ObjectManager \in h.object[q].interfaces <=> q = Root
    <3>1. CASE q = Root
      BY <1>10, <1>27, <3>1
    <3>2. CASE q # Root
      BY <1>5, <1>26, <2>1, <3>2 DEF Managed
    <3> QED BY <3>1, <3>2
  <2> QED BY <1>3, <1>13, <2>1 DEF Managed
<1>30. Rooted(h)
  BY <1>6, <1>13 DEF Rooted
<1>31. Fresh(h, {})
  <2>1. Fresh(h, {Root})
    <3>1. Live(h) = Live(k)
      BY <1>13
    <3> QED BY <1>5, <1>26, <3>1, FreshElsewhere
  <2>2. FreshAt(h, Root)
    <3>1. CASE Root \notin Live(heap)
      BY <1>5, <1>8, <1>10, <1>27, <3>1 DEF FreshAt
    <3>2. CASE Root \in Live(heap)
      <4>1. FreshAt(heap, Root)
        BY <1>3, <3>2 DEF Fresh
      <4>2. list_registered(h, Root) = list_registered(heap, Root)
        BY <1>5, <1>13, <3>2 DEF list_registered
      <4>3. o2.interfaces = heap.object[Root].interfaces \cup {ObjectManager} /\ o2.introspect = heap.object[Root].introspect
        BY <1>5, <1>8, <1>10, <3>2
      <4> QED BY <1>27, <4>1, <4>2, <4>3 DEF FreshAt, generate_introspection_xml
    <3> QED BY <3>1, <3>2
  <2>3. Introspectable \in h.object[Root].interfaces
    BY <1>5, <1>8, <1>10, <1>27
  <2> QED BY <2>1, <2>2, <2>3 DEF Fresh
<1>32. \A c \in Live(h) \ Live(heap) : Nearest(h, c) = Nearest(heap, c)
  <2> SUFFICES ASSUME NEW c \in Live(h) \ Live(heap) PROVE Nearest(h, c) = Nearest(heap, c)
    OBVIOUS
  <2>1. c = Root /\ Root \notin ToSet(Above[Root]) /\ Live(h) \ {Root} = Live(heap) \ {Root}
    BY <1>5, <1>13, <1>3, NotAboveItself
  <2> QED BY <1>3, <2>1, NearestApart
<1> QED BY <1>2, <1>13, <1>17, <1>23, <1>24, <1>25, <1>28, <1>29, <1>30, <1>31, <1>32 DEF Done

(* A change of a property, which waits to be told or will be with others.    *)
Changes(h, h1, p, i) ==
  LET o == h.object[p]
      o1 == h1.object[p]
  IN  /\ Elsewhere(h, h1, p) /\ Placed(o, o1) /\ Same(h, h1)
      /\ h1.known = h.known /\ h1.stale = h.stale \cup {<<p, i>>}
      /\ o1.interfaces = o.interfaces /\ o1.introspect = o.introspect
      /\ o1.added = o.added /\ o1.removed = o.removed
      /\ \/ /\ h1.object = h.object /\ h1.pending = h.pending
            /\ (h.root # NULL /\ i \in o.added) \/ i \in o.changed
         \/ o1.changed = o.changed \cup {i} /\ o1.pending_prop /\ h1.pending = h.pending \cup {p}

(* g_dbus_emit_property_changed does what Changes says.                      *)
LEMMA Emits ==
  ASSUME NEW h, Typed(h), NEW p \in Live(h), NEW i \in Name, i \in h.object[p].interfaces,
         NEW h1, h1 = g_dbus_emit_property_changed(h, p, i)
  PROVE  Typed(h1) /\ Changes(h, h1, p, i)
<1>1. PICK o : o = h.object[p]
  OBVIOUS
<1>2. p \in Path /\ o \in Object /\ h \in HeapType
  BY <1>1, ObjectTypes DEF Typed
<1>3. PICK S : S = h.stale \cup {<<p, i>>}
  OBVIOUS
<1>4. S \subseteq Pair
  BY <1>2, <1>3 DEF HeapType, Pair
<1>5. CASE (h.root # NULL /\ i \in o.added) \/ i \in o.changed
  <2>1. h1 = [h EXCEPT !.stale = S]
    BY <1>1, <1>3, <1>5 DEF g_dbus_emit_property_changed
  <2>2. h1 \in HeapType /\ h1.object = h.object /\ h1.pending = h.pending /\ h1.known = h.known /\ h1.stale = S /\ Same(h, h1)
    BY <1>2, <1>4, <2>1 DEF HeapType, Same
  <2>3. Live(h1) = Live(h)
    BY <2>2 DEF Live
  <2>4. Typed(h1)
    BY <2>2, <2>3 DEF Typed
  <2> QED BY <1>1, <1>3, <1>5, <2>2, <2>3, <2>4 DEF Changes, Elsewhere, Placed
<1>6. CASE ~((h.root # NULL /\ i \in o.added) \/ i \in o.changed)
  <2>1. PICK o1 : o1 = [o EXCEPT !.pending_prop = TRUE, !.changed = @ \cup {i}]
    OBVIOUS
  <2>2. o1 \in Object /\ Placed(o, o1) /\ o1.interfaces = o.interfaces /\ o1.introspect = o.introspect
        /\ o1.added = o.added /\ o1.removed = o.removed /\ o1.changed = o.changed \cup {i} /\ o1.pending_prop
    BY <1>2, <2>1 DEF Object, Placed
  <2>3. Part(h, h1, p, o1, h.pending \cup {p}, h.known, S)
    <3>1. h1 = add_pending([[h EXCEPT !.stale = S] EXCEPT !.object[p].pending_prop = TRUE, !.object[p].changed = @ \cup {i}], p)
      BY <1>1, <1>3, <1>6 DEF g_dbus_emit_property_changed
    <3>2. PICK k : k = [[h EXCEPT !.stale = S] EXCEPT !.object[p].pending_prop = TRUE, !.object[p].changed = @ \cup {i}]
      OBVIOUS
    <3>3. k = [h EXCEPT !.stale = S, !.object[p] = o1]
      BY <1>1, <1>2, <2>1, <3>2 DEF HeapType
    <3>4. k.object = [h.object EXCEPT ![p] = o1] /\ k.pending = h.pending /\ k.known = h.known /\ k.stale = S
          /\ Same(h, k)
      BY <1>2, <3>3 DEF HeapType, Same
    <3>5. k \in HeapType
      BY <1>2, <1>4, <2>2, <3>3 DEF HeapType
    <3>6. h1 = [k EXCEPT !.pending = @ \cup {p}]
      BY <3>1, <3>2 DEF add_pending
    <3> QED BY <1>2, <3>4, <3>5, <3>6 DEF Part, HeapType, Same
  <2>4. Elsewhere(h, h1, p) /\ h1.object[p] = o1
    BY <1>2, <2>2, <2>3, PartObject
  <2>5. h1 \in HeapType /\ Same(h, h1) /\ h1.pending = h.pending \cup {p} /\ h1.known = h.known /\ h1.stale = S
    BY <2>3 DEF Part
  <2>6. Typed(h1)
    <3>1. ASSUME NEW q \in Live(h) PROVE h1.object[q].added \cup h1.object[q].changed \subseteq h1.object[q].interfaces
      <4>1. h.object[q].added \cup h.object[q].changed \subseteq h.object[q].interfaces
        BY DEF Typed
      <4>2. CASE q = p
        BY <1>1, <2>2, <2>4, <4>1, <4>2
      <4>3. CASE q # p
        <5>1. h1.object[q] = h.object[q]
          BY <2>4, <4>3 DEF Elsewhere, Live
        <5> QED BY <4>1, <5>1
      <4> QED BY <4>2, <4>3
    <3> QED BY <2>4, <2>5, <3>1 DEF Typed, Elsewhere
  <2> QED BY <1>1, <1>3, <2>2, <2>4, <2>5, <2>6 DEF Changes
<1> QED BY <1>5, <1>6

(* It keeps the invariant: what it makes stale waits.                        *)
LEMMA EmitSound ==
  ASSUME IInv, Running, NEW p \in Live(heap), NEW i \in Propertied, i \in heap.object[p].interfaces,
         NEW h, h = g_dbus_emit_property_changed(heap, p, i)
  PROVE  Done(h, lost)
<1>1. /\ Sound(heap, misplaced, Above1(heap), excused, lost) /\ Fresh(heap, {}) /\ Managed(heap, heap.root # NULL)
      /\ Rooted(heap) /\ misplaced \subseteq Live(heap) /\ Counted(heap, {}) /\ Held(heap) /\ Waits(heap, lost)
      /\ Typed(heap) /\ Live(heap) \subseteq Path /\ ~heap.dangling /\ p \in Path /\ i \in Name
  BY ObjectAssumption DEF IInv, Running, Live, Name
<1>2. PICK E, N : E = Excused(h) /\ N = Above1(heap)
  OBVIOUS
<1>3. Sound(heap, misplaced, N, E, lost)
  BY <1>1, <1>2, TellsWeaker DEF Sound, Excused
<1>4. Typed(h) /\ Changes(heap, h, p, i)
  BY <1>1, Emits
<1>5. PICK o, o1 : o = heap.object[p] /\ o1 = h.object[p]
  OBVIOUS
<1>6. /\ Live(h) = Live(heap) /\ Same(heap, h) /\ Placed(o, o1) /\ h.known = heap.known
      /\ h.stale = heap.stale \cup {<<p, i>>}
      /\ (\A q \in Live(heap) : q # p => h.object[q] = heap.object[q])
      /\ o1.interfaces = o.interfaces /\ o1.introspect = o.introspect /\ o1.added = o.added /\ o1.removed = o.removed
  BY <1>1, <1>4, <1>5 DEF Changes, Elsewhere
<1>7. \/ /\ o1 = o /\ h.pending = heap.pending
         /\ (heap.root # NULL /\ i \in o.added) \/ i \in o.changed
      \/ o1.changed = o.changed \cup {i} /\ o1.pending_prop /\ h.pending = heap.pending \cup {p}
  BY <1>4, <1>5 DEF Changes
<1>8. \A q \in Live(h) :
        /\ h.object[q].interfaces = heap.object[q].interfaces /\ h.object[q].refs = heap.object[q].refs
        /\ h.object[q].introspect = heap.object[q].introspect
        /\ h.object[q].parent = heap.object[q].parent /\ h.object[q].objects = heap.object[q].objects
        /\ h.object[q].added = heap.object[q].added /\ h.object[q].removed = heap.object[q].removed
  BY <1>5, <1>6 DEF Placed
<1>9. Tree(heap, misplaced, N) /\ Hung(heap, E) /\ Tells(heap, E) /\ Stale(heap, E, lost)
  BY <1>3 DEF Sound
<1>10. Tree(h, misplaced, N)
  BY <1>6, <1>8, <1>9, TreeSame
<1>11. Hung(h, E)
  BY <1>6, <1>8, <1>9, HungSame DEF Same
<1>12. heap.pending \subseteq h.pending
  BY <1>7
<1>13. Tells(h, E)
  <2>1. ASSUME heap.root # NULL, NEW q \in Path, NEW j \in Name, <<q, j>> \notin E PROVE TellsAt(h, q, j)
    <3>1. TellsAt(heap, q, j)
      BY <1>9, <2>1 DEF Tells
    <3> QED BY <1>6, <1>8, <1>12, <3>1 DEF TellsAt
  <2> QED BY <1>6, <1>8, <1>9, <2>1 DEF Tells, Same
<1>14. \A q \in Live(h) : heap.object[q].changed \subseteq h.object[q].changed
                          /\ (heap.object[q].pending_prop => h.object[q].pending_prop)
  BY <1>5, <1>6, <1>7
<1>15. Waits(h, lost)
  <2>1. ASSUME NEW q \in Live(h), NEW j \in h.object[q].changed, ~h.object[q].pending_prop PROVE <<q, j>> \in lost
    <3>1. h.object[q] = heap.object[q]
      BY <1>5, <1>6, <1>7, <2>1
    <3> QED BY <1>1, <1>6, <2>1, <3>1 DEF Waits
  <2> QED BY <2>1 DEF Waits
<1>16. Stale(h, E, lost)
  <2>1. ASSUME NEW q \in Path, NEW j \in Name, <<q, j>> \in heap.stale PROVE StaleAt(h, q, j, E, lost)
    <3>1. StaleAt(heap, q, j, E, lost)
      BY <1>9, <2>1 DEF Stale
    <3> QED BY <1>6, <1>8, <1>14, <3>1 DEF StaleAt, Same
  <2>2. StaleAt(h, p, i, E, lost)
    <3>1. p \in Live(h) /\ i \in o1.interfaces
      BY <1>5, <1>6
    <3>2. CASE o1 = o /\ heap.root # NULL /\ i \in o.added
      BY <1>5, <1>6, <3>1, <3>2 DEF StaleAt, Same
    <3>3. CASE i \in o1.changed
      <4>1. o1.pending_prop \/ <<p, i>> \in lost
        BY <1>5, <1>15, <3>1, <3>3 DEF Waits
      <4> QED BY <1>5, <3>1, <3>3, <4>1 DEF StaleAt
    <3> QED BY <1>7, <3>2, <3>3
  <2>3. \A q \in Live(h) : h.object[q].pending_prop => q \in h.pending
    <3>1. ASSUME NEW q \in Live(h), h.object[q].pending_prop PROVE q \in h.pending
      <4>1. CASE h.object[q] = heap.object[q]
        BY <1>6, <1>9, <1>12, <3>1, <4>1 DEF Stale
      <4>2. CASE h.object[q] # heap.object[q]
        BY <1>5, <1>6, <1>7, <4>2
      <4> QED BY <4>1, <4>2
    <3> QED BY <3>1
  <2> QED BY <1>6, <2>1, <2>2, <2>3 DEF Stale
<1>17. Sound(h, Moved(h), N, E, lost)
  <2>1. Sound(h, misplaced, N, E, lost)
    BY <1>4, <1>10, <1>11, <1>13, <1>16 DEF Sound
  <2> QED BY <1>1, <2>1, SoundMoved
<1>18. Counted(h, {})
  BY <1>1, <1>6, <1>8, CountedSame
<1>19. Held(h) /\ Managed(h, h.root # NULL) /\ Rooted(h) /\ ~h.dangling
  BY <1>1, <1>6, <1>8 DEF Held, Managed, Rooted, Same
<1>20. Fresh(h, {})
  BY <1>1, <1>6, <1>8, FreshElsewhere
<1> QED BY <1>2, <1>4, <1>6, <1>15, <1>17, <1>18, <1>19, <1>20 DEF Done
-----------------------------------------------------------------------------
(* The heap before what waits is announced: what the invariant says of it.   *)
Ready(g) ==
  /\ Sound(g, misplaced, Above1(heap), excused, lost) /\ Fresh(g, {}) /\ Managed(g, heap.root # NULL)
  /\ Rooted(g) /\ Counted(g, {}) /\ Held(g) /\ Waits(g, lost)
  /\ Live(g) = Live(heap) /\ g.root = heap.root /\ ~g.dangling

(* Announcing what waits at some objects keeps the invariant.                *)
LEMMA AnnounceSound ==
  ASSUME IInv, Running, NEW g, Ready(g), NEW P \in SUBSET Live(g), NEW h, Typed(h), Announced(g, h, P)
  PROVE  Done(h, lost) /\ Live(h) = Live(heap) /\ h.root = heap.root
<1>1. /\ Sound(g, misplaced, Above1(heap), excused, lost) /\ Fresh(g, {}) /\ Managed(g, heap.root # NULL)
      /\ Rooted(g) /\ Counted(g, {}) /\ Held(g) /\ Waits(g, lost)
      /\ Live(g) = Live(heap) /\ g.root = heap.root /\ ~g.dangling /\ misplaced \subseteq Live(heap) /\ Live(g) \subseteq Path
  BY DEF Ready, IInv, Running, Live
<1>2. PICK E, N : E = Excused(h) /\ N = Above1(heap)
  OBVIOUS
<1>3. Sound(g, misplaced, N, E, lost)
  BY <1>1, <1>2, TellsWeaker DEF Sound, Excused
<1>4. Typed(g) /\ Tree(g, misplaced, N) /\ Hung(g, E) /\ Tells(g, E) /\ Stale(g, E, lost)
  BY <1>3 DEF Sound
<1>5. Live(h) = Live(g) /\ h.root = g.root /\ ~h.dangling
  BY <1>1 DEF Announced, Same
<1>6. \A q \in Live(g) :
        /\ h.object[q].interfaces = g.object[q].interfaces /\ h.object[q].refs = g.object[q].refs
        /\ h.object[q].introspect = g.object[q].introspect
        /\ h.object[q].parent = g.object[q].parent /\ h.object[q].objects = g.object[q].objects
  <2> SUFFICES ASSUME NEW q \in Live(g)
               PROVE  /\ h.object[q].interfaces = g.object[q].interfaces /\ h.object[q].refs = g.object[q].refs
                      /\ h.object[q].introspect = g.object[q].introspect
                      /\ h.object[q].parent = g.object[q].parent /\ h.object[q].objects = g.object[q].objects
    OBVIOUS
  <2>1. CASE q \in P
    BY <2>1 DEF Announced, ToldAt, Placed
  <2>2. CASE q \notin P
    BY <1>1, <2>2 DEF Announced, KeptAt
  <2> QED BY <2>1, <2>2
<1>7. Tree(h, misplaced, N)
  BY <1>4, <1>5, <1>6, TreeSame
<1>8. Hung(h, E)
  BY <1>4, <1>5, <1>6, HungSame
<1>9. Tells(h, E) /\ Stale(h, E, lost)
  BY <1>1, <1>4, TellsAnnounced
<1>10. Sound(h, Moved(h), N, E, lost)
  <2>1. Sound(h, misplaced, N, E, lost)
    BY <1>7, <1>8, <1>9 DEF Sound
  <2> QED BY <1>1, <2>1, SoundMoved
<1>11. Counted(h, {})
  BY <1>1, <1>5, <1>6, CountedSame
<1>12. Held(h) /\ Managed(h, h.root # NULL) /\ Rooted(h)
  BY <1>1, <1>5, <1>6 DEF Held, Managed, Rooted
<1>13. Fresh(h, {})
  BY <1>1, <1>5, <1>6, FreshElsewhere
<1>14. Waits(h, lost)
  <2>1. ASSUME NEW q \in Live(g), NEW j \in h.object[q].changed, ~h.object[q].pending_prop PROVE <<q, j>> \in lost
    <3>1. CASE q \in P
      <4>1. ~g.object[q].pending_prop /\ j \in g.object[q].changed
        BY <2>1, <3>1 DEF Announced, ToldAt
      <4> QED BY <1>1, <4>1 DEF Waits
    <3>2. CASE q \notin P
      <4>1. h.object[q] = g.object[q]
        BY <1>1, <3>2 DEF Announced, KeptAt
      <4> QED BY <1>1, <2>1, <4>1 DEF Waits
    <3> QED BY <3>1, <3>2
  <2> QED BY <1>5, <2>1 DEF Waits
<1> QED BY <1>1, <1>2, <1>5, <1>10, <1>11, <1>12, <1>13, <1>14 DEF Done

(* The heap itself is such a one.                                            *)
LEMMA HeapReady ==
  ASSUME IInv, Running
  PROVE  Ready(heap) /\ Typed(heap)
BY DEF IInv, Running, Ready

(* The idle source.                                                          *)
LEMMA ProcessSound ==
  ASSUME IInv, Running, NEW p \in heap.pending, NEW h, h = process_changes(heap, p)
  PROVE  Done(h, lost)
<1>1. Ready(heap) /\ Typed(heap)
  BY HeapReady
<1>2. p \in Live(heap)
  BY <1>1 DEF Typed
<1>3. Typed(h) /\ Processed(heap, h, p)
  BY <1>1, <1>2, Processes
<1>4. Announced(heap, h, {p})
  BY <1>1, <1>2, <1>3, ProcessTells
<1> QED BY <1>1, <1>2, <1>3, <1>4, AnnounceSound

(* g_dbus_flush, after which nothing waits.                                  *)
LEMMA FlushSound ==
  ASSUME IInv, Running, NEW g, Ready(g), NEW h, h = g_dbus_flush(g)
  PROVE  Done(h, lost) /\ Live(h) = Live(heap) /\ h.root = heap.root /\ Typed(g) /\ Announced(g, h, g.pending)
<1>1. Typed(g)
  BY DEF Ready, Sound
<1>2. Typed(h) /\ Announced(g, h, g.pending) /\ g.pending \in SUBSET Live(g)
  BY <1>1, Flushes DEF Typed
<1> QED BY <1>1, <1>2, AnnounceSound

(* GetManagedObjects: what the listener is told it knows already, or again.  *)
LEMMA ManagedSound ==
  ASSUME IInv, Running, heap.root # NULL, NEW h, h = [g_dbus_flush(heap) EXCEPT !.known = @ \cup get_objects(heap)]
  PROVE  Done(h, lost)
<1>1. PICK f : f = g_dbus_flush(heap)
  OBVIOUS
<1>2. Done(f, lost) /\ Live(f) = Live(heap) /\ f.root = heap.root /\ Typed(heap) /\ Announced(heap, f, heap.pending)
  BY <1>1, HeapReady, FlushSound
<1>3. f \in HeapType /\ heap \in HeapType /\ Typed(f) /\ Counted(f, {}) /\ Held(f) /\ Waits(f, lost) /\ (f.dangling => misplaced # {})
  BY <1>2 DEF Done, Typed
<1>4. PICK K : K = f.known \cup get_objects(heap)
  OBVIOUS
<1>5. h = [f EXCEPT !.root = heap.root, !.known = K]
  BY <1>1, <1>2, <1>3, <1>4 DEF HeapType
<1>6. Managing(f, h, heap.root, K)
  <2>1. K \in SUBSET Pair /\ heap.root \in {Root, NULL}
    BY <1>3, <1>4, ObjectsTyped DEF HeapType
  <2> QED BY <1>3, <1>5, <2>1, Manages
<1>7. /\ h \in HeapType /\ h.object = f.object /\ h.root = heap.root /\ h.known = K /\ h.pending = f.pending
      /\ h.stale = f.stale /\ h.dangling = f.dangling /\ Live(h) = Live(f)
  BY <1>6 DEF Managing
<1>8. Excused(h) = Excused(f)
  BY <1>2, <1>7 DEF Excused, Reregistered, Early, Unannounced
<1>9. Moved(h) = Moved(f)
  <2>1. \A p \in Live(h) : Nearest(h, p) = Nearest(f, p)
    <3>1. Live(h) \subseteq Path
      BY DEF Live
    <3> QED BY <1>7, <3>1, NearestLive
  <2> QED BY <1>7, <2>1 DEF Moved
<1>10. PICK E, N, m : E = Excused(h) /\ N = Above1(heap) /\ m = Moved(h)
  OBVIOUS
<1>11. Typed(h) /\ Counted(h, {}) /\ Held(h) /\ Waits(h, lost)
  BY <1>3, <1>7 DEF Typed, Counted, Held, Waits
<1>12. ASSUME ~h.dangling
       PROVE  /\ Sound(h, m, N, E, lost) /\ Fresh(h, {}) /\ Managed(h, h.root # NULL) /\ Rooted(h)
              /\ \A c \in Live(h) \ Live(heap) : Nearest(h, c) = Nearest(heap, c)
  <2>1. /\ Sound(f, m, N, E, lost) /\ Fresh(f, {}) /\ Managed(f, f.root # NULL) /\ Rooted(f)
    BY <1>2, <1>7, <1>8, <1>9, <1>10, <1>12 DEF Done
  <2>2. Tree(f, m, N) /\ Hung(f, E) /\ Tells(f, E) /\ Stale(f, E, lost)
    BY <2>1 DEF Sound
  <2>3. Tree(h, m, N)
    BY <1>7, <2>2, TreeSame
  <2>4. Hung(h, E)
    <3>1. Live(h) = Live(f) /\ h.root = f.root
      BY ONLY <1>2, <1>7
    <3>2. \A q \in Live(f) : /\ f.object[q].parent # NULL => h.object[q].parent # NULL
                            /\ f.object[q].objects \subseteq h.object[q].objects
      BY ONLY <1>7
    <3> QED BY ONLY <2>2, <3>1, <3>2, HungSame
  <2>5. Tells(h, E)
    <3>1. ASSUME NEW p \in Path, NEW i \in Name, <<p, i>> \notin E PROVE TellsAt(h, p, i)
      <4>1. TellsAt(f, p, i)
        BY <1>2, <2>2, <3>1 DEF Tells
      <4>2. <<p, i>> \in get_objects(heap) => <<p, i>> \in f.known
        <5> SUFFICES ASSUME <<p, i>> \in get_objects(heap) PROVE <<p, i>> \in f.known
          OBVIOUS
        <5>1. PICK q \in Reached(heap) : <<p, i>> \in {q} \X (heap.object[q].interfaces \ heap.object[q].added)
          BY DEF get_objects
        <5>2. q = p /\ i \in heap.object[p].interfaces \ heap.object[p].added
          BY <5>1
        <5>3. p \in Live(f) \ {Root}
          BY <1>2, <5>1, <5>2 DEF Reached
        <5>4. f.object[p].interfaces = heap.object[p].interfaces /\ f.object[p].added \subseteq heap.object[p].added
          <6>1. CASE p \in heap.pending
            BY <1>2, <6>1 DEF Announced, ToldAt
          <6>2. CASE p \notin heap.pending
            BY <1>2, <6>2 DEF Announced, KeptAt
          <6> QED BY <6>1, <6>2
        <5> QED BY <4>1, <5>2, <5>3, <5>4 DEF TellsAt
      <4>3. <<p, i>> \in h.known <=> <<p, i>> \in f.known
        BY <1>4, <1>7, <4>2
      <4> QED BY <1>7, <4>1, <4>3 DEF TellsAt
    <3> QED BY <1>7, <2>2, <3>1 DEF Tells
  <2>6. Stale(h, E, lost)
    BY <1>2, <1>7, <2>2 DEF Stale, StaleAt
  <2>7. Fresh(h, {})
    BY <1>7, <2>1, FreshElsewhere
  <2> QED BY <1>2, <1>7, <1>11, <2>1, <2>3, <2>4, <2>5, <2>6, <2>7 DEF Sound, Managed, Rooted
<1> QED BY <1>3, <1>7, <1>10, <1>11, <1>12 DEF Done

(* Introspection is put together from what is there, and what was cached is  *)
(* as fresh as it was.                                                       *)
LEMMA IntrospectReady ==
  ASSUME IInv, Running, NEW p \in Live(heap), NEW g, g = introspect(heap, p)
  PROVE  Ready(g)
<1>1. /\ Ready(heap) /\ Typed(heap) /\ Sound(heap, misplaced, Above1(heap), excused, lost) /\ Fresh(heap, {})
      /\ Managed(heap, heap.root # NULL) /\ Rooted(heap) /\ Counted(heap, {}) /\ Held(heap) /\ Waits(heap, lost)
      /\ ~heap.dangling /\ Live(heap) \subseteq Path
  BY HeapReady DEF Ready, Live
<1>2. CASE heap.object[p].introspect # NULL
  BY <1>1, <1>2 DEF introspect
<1>3. CASE heap.object[p].introspect = NULL
  <2>1. PICK o, x : o = heap.object[p] /\ x = generate_introspection_xml(heap, p)
    OBVIOUS
  <2>2. o \in Object /\ heap \in HeapType /\ o.refs \in Nat /\ o.interfaces \subseteq Name /\ p \in Path
    BY <1>1, <2>1, ObjectTypes DEF Typed, Object
  <2>3. x.interfaces = o.interfaces /\ x.children = list_registered(heap, p) /\ x \in Xml
    BY <2>1, <2>2 DEF generate_introspection_xml, list_registered, Xml
  <2>4. PICK o1 : o1 = Kept(o, o.refs, x)
    OBVIOUS
  <2>5. g = Put(heap, p, o1)
    <3>1. o1 = [o EXCEPT !.introspect = x]
      BY <2>2, <2>4 DEF Object, Kept
    <3>2. g = [heap EXCEPT !.object[p].introspect = x]
      BY <1>3, <2>1 DEF introspect
    <3> QED BY <2>1, <3>1, <3>2 DEF Put
  <2>6. PICK N : N = Above1(heap)
    OBVIOUS
  <2>7. Sound(g, misplaced, N, excused, lost) /\ Inward(heap, g, p, o1) /\ KeptAs(o, o1, o.refs, x)
    <3>1. o1 = Kept(heap.object[p], o.refs, x) /\ x \in Xml \cup {NULL} /\ o.refs \in Nat
      BY <2>1, <2>2, <2>3, <2>4
    <3>2. Sound(heap, misplaced, N, excused, lost)
      BY <1>1, <2>6
    <3>3. Sound(g, misplaced, N, excused, lost) /\ Inward(heap, g, p, o1) /\ KeptAs(heap.object[p], o1, o.refs, x)
      BY ONLY <2>5, <3>1, <3>2, p \in Live(heap), SoundInward
    <3> QED BY <2>1, <3>3
  <2>8. /\ Live(g) = Live(heap) /\ g.object[p] = o1 /\ g.root = heap.root /\ ~g.dangling
        /\ \A q \in Live(heap) : q # p => g.object[q] = heap.object[q]
    BY <1>1, <2>7 DEF Inward, Elsewhere, Outward
  <2>9. /\ o1.interfaces = o.interfaces /\ o1.refs = o.refs /\ o1.introspect = x /\ o1.changed = o.changed
        /\ o1.pending_prop = o.pending_prop
    BY <2>7 DEF KeptAs
  <2>10. \A q \in Live(heap) :
           /\ g.object[q].interfaces = heap.object[q].interfaces /\ g.object[q].refs = heap.object[q].refs
           /\ g.object[q].changed = heap.object[q].changed /\ g.object[q].pending_prop = heap.object[q].pending_prop
    BY <2>1, <2>8, <2>9
  <2>11. Counted(g, {})
    BY <1>1, <2>8, <2>10, CountedSame
  <2>12. Held(g) /\ Waits(g, lost) /\ Managed(g, heap.root # NULL) /\ Rooted(g)
    BY <1>1, <2>8, <2>10 DEF Held, Waits, Managed, Rooted
  <2>13. Fresh(g, {})
    <3>1. Fresh(g, {p})
      <4>1. Fresh(heap, {p})
        BY <1>1 DEF Fresh
      <4> QED BY <2>8, <4>1, FreshElsewhere
    <3>2. Introspectable \in o.interfaces
      BY <1>1, <2>1 DEF Fresh
    <3>3. x # Stub
      BY <2>3, <3>2 DEF Stub
    <3>4. generate_introspection_xml(g, p) = x
      BY <2>1, <2>8, <2>9 DEF generate_introspection_xml, list_registered
    <3>5. FreshAt(g, p)
      BY <2>8, <2>9, <3>3, <3>4 DEF FreshAt
    <3> QED BY <2>8, <2>9, <3>1, <3>2, <3>5 DEF Fresh
  <2> QED BY <2>6, <2>7, <2>8, <2>11, <2>12, <2>13 DEF Ready
<1> QED BY <1>2, <1>3

(* Without objects all of it holds.                                          *)
LEMMA Begins == Init => IInv
<1> SUFFICES ASSUME Init PROVE IInv
  OBVIOUS
<1>1. heap = EmptyHeap /\ excused = {} /\ lost = {} /\ misplaced = {} /\ spoke = NULL
  BY DEF Init
<1>2. EmptyHeap \in HeapType /\ Live(EmptyHeap) = {} /\ EmptyHeap.root = NULL /\ EmptyHeap.pending = {}
      /\ EmptyHeap.known = {} /\ EmptyHeap.stale = {} /\ ~EmptyHeap.dangling
  BY DEF EmptyHeap, HeapType, Live
<1>3. Typed(heap) /\ Counted(heap, {}) /\ Held(heap) /\ Waits(heap, lost) /\ Fresh(heap, {})
      /\ Managed(heap, heap.root # NULL) /\ Rooted(heap) /\ misplaced \subseteq Live(heap)
  BY <1>1, <1>2 DEF Typed, Counted, Held, Waits, Fresh, Managed, Rooted
<1>4. Tree(heap, misplaced, Above1(heap)) /\ Hung(heap, excused) /\ Tells(heap, excused) /\ Stale(heap, excused, lost)
  BY <1>1, <1>2 DEF Tree, Hung, Tells, Stale
<1> QED BY <1>1, <1>2, <1>3, <1>4 DEF IInv, Sound
-----------------------------------------------------------------------------
(* An object in its place, below others in theirs, is reached from the root. *)
LEMMA InPlaceReached ==
  ASSUME NEW h, NEW m, Tree(h, m, Above1(h)), Root \in Live(h), Live(h) \subseteq Path, NEW p \in Live(h) \ {Root},
         m \cap (ToSet(Above[p]) \cup {p}) = {}
  PROVE  p \in Reached(h)
<1> SUFFICES ASSUME NEW S \in SUBSET Live(h), Root \in S, \A q \in S : h.object[q].objects \subseteq S, p \notin S
             PROVE  FALSE
  BY DEF Reached
<1>1. PICK B : B = (Live(h) \cap (ToSet(Above[p]) \cup {p})) \ S
  OBVIOUS
<1>2. p \in B /\ B \subseteq Path /\ Root \notin B /\ B \subseteq Live(h)
  BY <1>1
<1>3. PICK z \in B : \A y \in B : Len(Above[z]) <= Len(Above[y])
  <2>1. PICK I : I = {Len(Above[y]) : y \in B}
    OBVIOUS
  <2>2. \A y \in B : Len(Above[y]) \in Nat
    <3>1. \A y \in B : Above[y] \in Seq(Path)
      BY <1>2, ObjectAssumption
    <3> QED BY <3>1
  <2>3. I \subseteq Nat /\ I # {}
    BY <1>2, <2>1, <2>2
  <2>4. PICK x \in I : \A y \in I : x <= y
    BY <2>3, LeastNumber
  <2> QED BY <2>1, <2>4
<1>4. z \in Path \ {Root} /\ z \in Live(h) /\ z \notin S /\ z \in ToSet(Above[p]) \cup {p}
  BY <1>1, <1>2, <1>3
<1>5. PICK q : q = Nearest(h, z)
  OBVIOUS
<1>6. q \in Live(h) /\ q \in ToSet(Above[z])
  <2>1. Root \in Live(h) \cap ToSet(Above[z])
    BY <1>4, RootAbove
  <2> QED BY <1>4, <1>5, <2>1, NearestAbove
<1>7. q \in ToSet(Above[p]) /\ Len(Above[q]) < Len(Above[z]) /\ q \in Path
  BY <1>2, <1>4, <1>6, AboveAbove
<1>8. q \in S
  <2>1. Len(Above[q]) \in Nat /\ Len(Above[z]) \in Nat
    <3>1. Above[q] \in Seq(Path) /\ Above[z] \in Seq(Path)
      BY <1>4, <1>7, ObjectAssumption
    <3> QED BY <3>1
  <2>2. q \notin B
    BY <1>3, <1>7, <2>1
  <2> QED BY <1>1, <1>6, <1>7, <2>2
<1>9. z \in h.object[q].objects
  <2>1. z \in Live(h) \ m /\ Above1(h)[z] = q
    BY <1>4, <1>5 DEF Above1
  <2>2. h.object[q].objects \ m = {c \in Live(h) \ m : Above1(h)[c] = q}
    BY <1>6 DEF Tree
  <2> QED BY <2>1, <2>2
<1> QED BY <1>4, <1>8, <1>9

(* What the inductive invariant says of each of the properties.              *)
LEMMA TypesFollow == IInv => TypeOK
<1> SUFFICES ASSUME IInv PROVE TypeOK
  OBVIOUS
<1>1. Typed(heap) /\ Held(heap) /\ heap \in HeapType /\ NULL \notin Path
  BY ObjectAssumption DEF IInv, Typed
<1>2. ASSUME NEW p \in Live(heap)
      PROVE  LET o == heap.object[p]
             IN  /\ o.refs \in Nat \ {0} /\ o.pending_prop \in BOOLEAN
                 /\ o.interfaces \cup o.removed \subseteq Name
                 /\ o.added \cup o.changed \subseteq o.interfaces
                 /\ o.parent \in Path \cup {NULL} /\ o.objects \subseteq Path
                 /\ o.introspect \in Xml \cup {NULL}
  <2>1. heap.object[p] \in Object
    BY <1>1, ObjectTypes
  <2>2. heap.object[p].added \cup heap.object[p].changed \subseteq heap.object[p].interfaces /\ heap.object[p].refs # 0
    BY <1>1 DEF Typed, Held
  <2> QED BY <2>1, <2>2 DEF Object
<1>3. heap.root \in {Root, NULL} /\ heap.pending \subseteq Live(heap) /\ heap.known \cup heap.stale \subseteq Pair
  BY <1>1 DEF Typed, HeapType
<1>4. excused \cup lost \subseteq Pair /\ misplaced \subseteq Path /\ spoke \in Pair \cup {NULL}
  BY DEF IInv
<1> QED BY <1>2, <1>3, <1>4 DEF TypeOK

(* TreeExact follows: what misplaced excuses is all that is left out.        *)
LEMMA TreeFollows == IInv => TreeExact
<1> SUFFICES ASSUME IInv PROVE TreeExact
  OBVIOUS
<1>1. heap.dangling => misplaced # {}
  BY DEF IInv
<1>2. ASSUME Running, NEW p \in Live(heap)
      PROVE  LET o == heap.object[p]
             IN  /\ o.refs = Cardinality(o.interfaces \cap (Interface \cup {ObjectManager}))
                 /\ p \notin misplaced => o.parent = Nearest(heap, p)
                 /\ o.objects \ misplaced = {c \in Live(heap) \ misplaced : Nearest(heap, c) = p}
  <2>1. Counted(heap, {}) /\ Tree(heap, misplaced, Above1(heap)) /\ Live(heap) \subseteq Path
    BY <1>2 DEF IInv, Running, Sound, Live
  <2>2. \A c \in Live(heap) : Above1(heap)[c] = Nearest(heap, c)
    BY <2>1 DEF Above1
  <2>3. PICK n \in Nat : n = Cardinality(heap.object[p].interfaces \cap Counters)
    BY CountersFinite, FS_Subset, FS_CardinalityType
  <2>4. heap.object[p].refs = n + IF p \in {} THEN 1 ELSE 0
    BY <2>1, <2>3 DEF Counted
  <2>5. heap.object[p].refs = Cardinality(heap.object[p].interfaces \cap (Interface \cup {ObjectManager}))
    BY <2>3, <2>4 DEF Counters
  <2>6. p \notin misplaced => heap.object[p].parent = Nearest(heap, p)
    BY <2>1, <2>2 DEF Tree
  <2>7. heap.object[p].objects \ misplaced = {c \in Live(heap) \ misplaced : Nearest(heap, c) = p}
    <3>1. heap.object[p].objects \ misplaced = {c \in Live(heap) \ misplaced : Above1(heap)[c] = p}
      BY <2>1 DEF Tree
    <3> QED BY <2>2, <3>1
  <2> QED BY <2>5, <2>6, <2>7
<1> QED BY <1>1, <1>2 DEF TreeExact

(* KnowsInterfaces follows: without pending objects the lists are empty.     *)
LEMMA KnownFollows == IInv => KnowsInterfaces
<1> SUFFICES ASSUME IInv, Quiet, heap.root # NULL
             PROVE  heap.known \ excused = {pair \in Registered(heap) : pair[1] # Root} \ excused
  BY DEF KnowsInterfaces
<1>1. Tells(heap, excused) /\ Typed(heap) /\ Live(heap) \subseteq Path /\ heap.pending = {}
  BY DEF IInv, Quiet, Running, Sound, Live
<1>2. heap.known \subseteq Pair
  BY <1>1 DEF Typed, HeapType
<1>3. ASSUME NEW p \in Path, NEW i \in Name, <<p, i>> \notin excused
      PROVE  <<p, i>> \in heap.known <=> p \in Live(heap) \ {Root} /\ i \in heap.object[p].interfaces
  <2>1. TellsAt(heap, p, i)
    BY <1>1, <1>3 DEF Tells
  <2> QED BY <1>1, <2>1 DEF TellsAt
<1>4. ASSUME NEW pair \in Registered(heap)
      PROVE  pair[1] \in Live(heap) /\ pair[2] \in heap.object[pair[1]].interfaces /\ pair \in Pair
  <2>1. PICK p \in Live(heap) : pair \in {p} \X heap.object[p].interfaces
    BY <1>4 DEF Registered
  <2>2. p \in Path /\ heap.object[p] \in Object
    BY <1>1, ObjectTypes DEF Typed
  <2> QED BY <2>1, <2>2 DEF Object, Pair
<1>5. ASSUME NEW pair \in heap.known \ excused PROVE pair \in Registered(heap) /\ pair[1] # Root
  <2>1. PICK p \in Path, i \in Name : pair = <<p, i>>
    BY <1>2, <1>5 DEF Pair
  <2>2. p \in Live(heap) \ {Root} /\ i \in heap.object[p].interfaces
    BY <1>3, <1>5, <2>1
  <2> QED BY <2>1, <2>2 DEF Registered
<1>6. ASSUME NEW pair \in Registered(heap), pair[1] # Root, pair \notin excused PROVE pair \in heap.known
  <2>1. PICK p \in Path, i \in Name : pair = <<p, i>>
    BY <1>4, <1>6 DEF Pair
  <2> QED BY <1>3, <1>4, <1>6, <2>1
<1> QED BY <1>5, <1>6

(* ChangesTold follows in the same way.                                      *)
LEMMA ChangesFollow == IInv => ChangesTold
<1> SUFFICES ASSUME IInv, Quiet, NEW pair \in heap.stale PROVE pair \in lost \cup excused
  BY DEF ChangesTold
<1>1. Tells(heap, excused) /\ Stale(heap, excused, lost) /\ Typed(heap) /\ heap.pending = {}
  BY DEF IInv, Quiet, Running, Sound
<1>2. PICK p \in Path, i \in Name : pair = <<p, i>>
  BY <1>1 DEF Typed, HeapType, Pair
<1>3. StaleAt(heap, p, i, excused, lost) /\ ~heap.object[p].pending_prop
  BY <1>1, <1>2 DEF Stale, StaleAt
<1>4. CASE heap.root # NULL /\ i \in heap.object[p].added /\ <<p, i>> \notin excused
  <2>1. TellsAt(heap, p, i)
    BY <1>1, <1>4 DEF Tells
  <2> QED BY <1>1, <1>3, <1>4, <2>1 DEF TellsAt, StaleAt
<1>5. CASE ~(heap.root # NULL /\ i \in heap.object[p].added /\ <<p, i>> \notin excused)
  BY <1>2, <1>3, <1>5 DEF StaleAt
<1> QED BY <1>4, <1>5

(* IntrospectFresh is part of it.                                            *)
LEMMA FreshFollows == IInv => IntrospectFresh
BY DEF IInv, Running, IntrospectFresh, Fresh, FreshAt

(* ManagedExact follows: what is in place is reached.                        *)
LEMMA ManagedFollows == IInv => ManagedExact
<1> SUFFICES ASSUME IInv, Running, heap.root # NULL, NEW p \in Path, NEW i \in Name, <<p, i>> \notin excused, InPlace(p)
             PROVE  <<p, i>> \in get_objects(heap) <=> <<p, i>> \in heap.known /\ i \notin heap.object[p].removed
  <2>1. ASSUME IInv, Running, heap.root # NULL, NEW pair \in Pair \ excused, InPlace(pair[1])
        PROVE  pair \in get_objects(heap) <=> pair \in heap.known /\ pair[2] \notin heap.object[pair[1]].removed
    <3>1. PICK p \in Path, i \in Name : pair = <<p, i>>
      BY <2>1 DEF Pair
    <3> QED BY <2>1, <3>1
  <2> QED BY <2>1 DEF ManagedExact
<1>1. Tree(heap, misplaced, Above1(heap)) /\ Tells(heap, excused) /\ Rooted(heap) /\ Live(heap) \subseteq Path
  BY DEF IInv, Running, Sound, Live
<1>2. TellsAt(heap, p, i) /\ Root \in Live(heap)
  BY <1>1 DEF Tells, Rooted
<1>3. <<p, i>> \in get_objects(heap) <=> p \in Reached(heap) /\ i \in heap.object[p].interfaces \ heap.object[p].added
  BY DEF get_objects
<1>4. p \in Reached(heap) <=> p \in Live(heap) \ {Root}
  <2>1. p \in Reached(heap) => p \in Live(heap) \ {Root}
    BY DEF Reached
  <2>2. ASSUME p \in Live(heap) \ {Root} PROVE p \in Reached(heap)
    BY <1>1, <1>2, <2>2, InPlaceReached DEF InPlace
  <2> QED BY <2>1, <2>2
<1> QED BY <1>2, <1>3, <1>4 DEF TellsAt

(* A signal has been sent after what waited, by an object that is there.     *)
Spoken ==
  spoke # NULL /\ ~heap.dangling =>
    /\ heap.pending = {}
    /\ spoke[1] \in Live(heap) /\ spoke[2] \in heap.object[spoke[1]].interfaces

(* SignalsInOrder follows from the two properties of a quiet heap.           *)
LEMMA SignalsFollow == IInv /\ Spoken => SignalsInOrder
<1> SUFFICES ASSUME IInv, Spoken, Running, spoke # NULL
             PROVE  /\ heap.root # NULL /\ spoke[1] # Root => spoke \in heap.known \cup excused
                    /\ spoke \notin heap.stale \ (lost \cup excused)
  BY DEF SignalsInOrder
<1>1. Quiet /\ spoke \in Pair /\ spoke[1] \in Live(heap) /\ spoke[2] \in heap.object[spoke[1]].interfaces
  BY DEF IInv, Spoken, Running, Quiet
<1>2. ASSUME heap.root # NULL, spoke[1] # Root PROVE spoke \in heap.known \cup excused
  <2>1. heap.known \ excused = {pair \in Registered(heap) : pair[1] # Root} \ excused
    BY <1>1, <1>2, KnownFollows DEF KnowsInterfaces
  <2>2. spoke \in Registered(heap)
    <3>1. PICK p \in Path, i \in Name : spoke = <<p, i>>
      BY <1>1 DEF Pair
    <3> QED BY <1>1, <3>1 DEF Registered
  <2> QED BY <1>2, <2>1, <2>2
<1>3. heap.stale \subseteq lost \cup excused
  BY <1>1, ChangesFollow DEF ChangesTold
<1> QED BY <1>2, <1>3

(* The operations one by one.                                                *)
LEMMA RegisterStep ==
  ASSUME IInv, NEW p \in Path, NEW i \in Interface, RegisterInterface(p, i)
  PROVE  IInv' /\ spoke' = NULL
<1>1. PICK h : h = g_dbus_register_interface(heap, p, i)
  OBVIOUS
<1>2. Running /\ SetHeap(h) /\ KeepLost(h) /\ spoke' = NULL
  BY <1>1 DEF RegisterInterface, Silent
<1>3. Done(h, lost)
  BY <1>1, <1>2, RegisterSound
<1>4. lost' = {pair \in lost : pair[1] \in Live(h) /\ pair[2] \in h.object[pair[1]].changed} /\ lost \subseteq Pair
  BY <1>2 DEF KeepLost, IInv
<1> QED BY <1>2, <1>3, <1>4, Settles

(* g_dbus_unregister_interface.                                              *)
LEMMA UnregisterStep ==
  ASSUME IInv, NEW p \in Path, NEW i \in Interface, UnregisterInterface(p, i)
  PROVE  IInv' /\ spoke' = NULL
<1>1. PICK h, l : h = g_dbus_unregister_interface(heap, p, i) /\ l = lost \cup {p} \X Name
  OBVIOUS
<1>2. Running /\ SetHeap(h) /\ LoseFlag(h, p) /\ spoke' = NULL
  BY <1>1 DEF UnregisterInterface, Silent
<1>3. Done(h, l)
  BY <1>1, <1>2, UnregisterSound
<1>4. lost' = {pair \in l : pair[1] \in Live(h) /\ pair[2] \in h.object[pair[1]].changed} /\ l \subseteq Pair
  BY <1>1, <1>2 DEF LoseFlag, IInv, Pair
<1> QED BY <1>2, <1>3, <1>4, Settles

(* g_dbus_emit_property_changed.                                             *)
LEMMA EmitPropertyStep ==
  ASSUME IInv, NEW p \in Path, NEW i \in Propertied, EmitPropertyChanged(p, i)
  PROVE  IInv' /\ spoke' = NULL
<1>1. PICK h : h = g_dbus_emit_property_changed(heap, p, i)
  OBVIOUS
<1>2. Running /\ SetHeap(h) /\ KeepLost(h) /\ spoke' = NULL /\ p \in Live(heap) /\ i \in heap.object[p].interfaces
  BY <1>1 DEF EmitPropertyChanged, Silent
<1>3. Done(h, lost)
  BY <1>1, <1>2, EmitSound
<1>4. lost' = {pair \in lost : pair[1] \in Live(h) /\ pair[2] \in h.object[pair[1]].changed} /\ lost \subseteq Pair
  BY <1>2 DEF KeepLost, IInv
<1> QED BY <1>2, <1>3, <1>4, Settles

(* g_dbus_attach_object_manager.                                             *)
LEMMA AttachStep ==
  ASSUME IInv, AttachObjectManager
  PROVE  IInv' /\ spoke' = NULL
<1>1. PICK h : h = g_dbus_attach_object_manager(heap)
  OBVIOUS
<1>2. Running /\ heap.root = NULL /\ SetHeap(h) /\ KeepLost(h) /\ spoke' = NULL
  BY <1>1 DEF AttachObjectManager, Silent
<1>3. Done(h, lost)
  BY <1>1, <1>2, AttachSound
<1>4. lost' = {pair \in lost : pair[1] \in Live(h) /\ pair[2] \in h.object[pair[1]].changed} /\ lost \subseteq Pair
  BY <1>2 DEF KeepLost, IInv
<1> QED BY <1>2, <1>3, <1>4, Settles

(* g_dbus_detach_object_manager.                                             *)
LEMMA DetachStep ==
  ASSUME IInv, DetachObjectManager
  PROVE  IInv' /\ spoke' = NULL
<1>1. PICK h, l : h = g_dbus_detach_object_manager(heap) /\ l = lost \cup {Root} \X Name
  OBVIOUS
<1>2. Running /\ heap.root # NULL /\ SetHeap(h) /\ LoseFlag(h, Root) /\ spoke' = NULL
  BY <1>1 DEF DetachObjectManager, Silent
<1>3. Done(h, l)
  BY <1>1, <1>2, DetachSound
<1>4. lost' = {pair \in l : pair[1] \in Live(h) /\ pair[2] \in h.object[pair[1]].changed} /\ l \subseteq Pair
  BY <1>1, <1>2, ObjectAssumption DEF LoseFlag, IInv, Pair
<1> QED BY <1>2, <1>3, <1>4, Settles

(* The idle source announces one object.                                     *)
LEMMA ProcessStep ==
  ASSUME IInv, NEW p \in Path, ProcessChanges(p)
  PROVE  IInv' /\ spoke' = NULL
<1>1. PICK h : h = process_changes(heap, p)
  OBVIOUS
<1>2. Running /\ p \in heap.pending /\ SetHeap(h) /\ KeepLost(h) /\ spoke' = NULL
  BY <1>1 DEF ProcessChanges, Silent
<1>3. Done(h, lost)
  BY <1>1, <1>2, ProcessSound
<1>4. lost' = {pair \in lost : pair[1] \in Live(h) /\ pair[2] \in h.object[pair[1]].changed} /\ lost \subseteq Pair
  BY <1>2 DEF KeepLost, IInv
<1> QED BY <1>2, <1>3, <1>4, Settles

(* A signal is sent after all that waits.                                    *)
LEMMA EmitSignalStep ==
  ASSUME IInv, NEW p \in Path, NEW i \in Interface, EmitSignal(p, i)
  PROVE  IInv' /\ Spoken'
<1>1. PICK h : h = g_dbus_flush(heap)
  OBVIOUS
<1>2. Running /\ SetHeap(h) /\ KeepLost(h) /\ p \in Live(heap) /\ i \in heap.object[p].interfaces
  BY <1>1 DEF EmitSignal
<1>3. spoke' = <<p, i>> /\ heap' = h
  BY <1>2 DEF EmitSignal, SetHeap
<1>4. Done(h, lost) /\ Live(h) = Live(heap) /\ Announced(heap, h, heap.pending)
  BY <1>1, <1>2, HeapReady, FlushSound
<1>5. lost' = {pair \in lost : pair[1] \in Live(h) /\ pair[2] \in h.object[pair[1]].changed} /\ lost \subseteq Pair
  BY <1>2 DEF KeepLost, IInv
<1>6. IInv'
  <2>1. spoke' \in Pair \cup {NULL}
    BY <1>3 DEF Pair, Name
  <2> QED BY <1>2, <1>4, <1>5, <2>1, Settles
<1>7. h.pending = {} /\ i \in h.object[p].interfaces
  <2>1. CASE p \in heap.pending
    BY <1>2, <1>4, <2>1 DEF Announced, ToldAt
  <2>2. CASE p \notin heap.pending
    BY <1>2, <1>4, <2>2 DEF Announced, KeptAt
  <2>3. h.pending = {}
    BY <1>4 DEF Announced
  <2> QED BY <2>1, <2>2, <2>3
<1>8. Spoken'
  <2>1. heap'.pending = {} /\ p \in Live(heap') /\ i \in heap'.object[p].interfaces
    BY <1>2, <1>3, <1>4, <1>7
  <2>2. spoke'[1] = p /\ spoke'[2] = i
    BY <1>3
  <2> QED BY <2>1, <2>2 DEF Spoken
<1> QED BY <1>6, <1>8

(* A reply to Introspect.                                                    *)
LEMMA IntrospectStep ==
  ASSUME IInv, NEW p \in Path, Introspect(p)
  PROVE  IInv' /\ spoke' = NULL
<1>1. PICK g, h : g = introspect(heap, p) /\ h = g_dbus_flush(g)
  OBVIOUS
<1>2. Running /\ p \in Live(heap) /\ SetHeap(h) /\ KeepLost(h) /\ spoke' = NULL
  BY <1>1 DEF Introspect, Silent
<1>3. Done(h, lost)
  BY <1>1, <1>2, IntrospectReady, FlushSound
<1>4. lost' = {pair \in lost : pair[1] \in Live(h) /\ pair[2] \in h.object[pair[1]].changed} /\ lost \subseteq Pair
  BY <1>2 DEF KeepLost, IInv
<1> QED BY <1>2, <1>3, <1>4, Settles

(* A reply to GetManagedObjects.                                             *)
LEMMA ManagedStep ==
  ASSUME IInv, GetManagedObjects
  PROVE  IInv' /\ spoke' = NULL
<1>1. PICK h : h = [g_dbus_flush(heap) EXCEPT !.known = @ \cup get_objects(heap)]
  OBVIOUS
<1>2. Running /\ heap.root # NULL /\ SetHeap(h) /\ KeepLost(h) /\ spoke' = NULL
  BY <1>1 DEF GetManagedObjects, Silent
<1>3. Done(h, lost)
  BY <1>1, <1>2, ManagedSound
<1>4. lost' = {pair \in lost : pair[1] \in Live(h) /\ pair[2] \in h.object[pair[1]].changed} /\ lost \subseteq Pair
  BY <1>2 DEF KeepLost, IInv
<1> QED BY <1>2, <1>3, <1>4, Settles

(* Every step keeps the invariant.                                           *)
LEMMA StepKeeps == IInv /\ Spoken /\ [Next]_vars => IInv' /\ Spoken'
<1> SUFFICES ASSUME IInv, Spoken, [Next]_vars PROVE IInv' /\ Spoken'
  OBVIOUS
<1>1. spoke' = NULL => Spoken'
  BY DEF Spoken
<1>2. ASSUME NEW p \in Path, NEW i \in Interface, RegisterInterface(p, i) PROVE IInv' /\ Spoken'
  BY <1>1, <1>2, RegisterStep
<1>3. ASSUME NEW p \in Path, NEW i \in Interface, UnregisterInterface(p, i) PROVE IInv' /\ Spoken'
  BY <1>1, <1>3, UnregisterStep
<1>4. ASSUME NEW p \in Path, NEW i \in Interface, EmitSignal(p, i) PROVE IInv' /\ Spoken'
  BY <1>4, EmitSignalStep
<1>5. ASSUME NEW p \in Path, NEW i \in Propertied, EmitPropertyChanged(p, i) PROVE IInv' /\ Spoken'
  BY <1>1, <1>5, EmitPropertyStep
<1>6. ASSUME NEW p \in Path, ProcessChanges(p) PROVE IInv' /\ Spoken'
  BY <1>1, <1>6, ProcessStep
<1>7. ASSUME NEW p \in Path, Introspect(p) PROVE IInv' /\ Spoken'
  BY <1>1, <1>7, IntrospectStep
<1>8. ASSUME AttachObjectManager PROVE IInv' /\ Spoken'
  BY <1>1, <1>8, AttachStep
<1>9. ASSUME DetachObjectManager PROVE IInv' /\ Spoken'
  BY <1>1, <1>9, DetachStep
<1>10. ASSUME GetManagedObjects PROVE IInv' /\ Spoken'
  BY <1>1, <1>10, ManagedStep
<1>11. ASSUME UNCHANGED vars PROVE IInv' /\ Spoken'
  <2>1. heap' = heap /\ spoke' = spoke /\ excused' = excused /\ misplaced' = misplaced /\ lost' = lost
    BY <1>11 DEF vars
  <2>2. Spoken'
    BY <2>1 DEF Spoken
  <2>3. IInv'
    <3>1. Above1(heap)' = Above1(heap)
      BY <2>1
    <3> QED BY <2>1, <3>1 DEF IInv
  <2> QED BY <2>2, <2>3
<1>12. CASE Next
  BY <1>2, <1>3, <1>4, <1>5, <1>6, <1>7, <1>8, <1>9, <1>10, <1>12 DEF Next
<1> QED BY <1>11, <1>12

(* The inductive invariant holds from the start, and whatever the program    *)
(* calls.                                                                    *)
THEOREM AlwaysSound == Spec => [](IInv /\ Spoken)
<1>1. Init => IInv /\ Spoken
  BY Begins DEF Init, Spoken
<1> QED BY <1>1, StepKeeps, PTL DEF Spec
-----------------------------------------------------------------------------
(* All variables keep their types, and the lists of an object (added,        *)
(* pending_prop) name its own interfaces.                                    *)
THEOREM ObjectTypeOK == Spec => []TypeOK
BY AlwaysSound, TypesFollow, PTL

(* However objects come and go (object_path_ref, object_path_unref), each    *)
(* has one reference for every interface that counts, and its place in the   *)
(* tree unless it is misplaced; no pointer to a freed object is left while   *)
(* none is.                                                                  *)
THEOREM ObjectTreeExact == Spec => []TreeExact
BY AlwaysSound, TreeFollows, PTL

(* Once g_dbus_flush or the idle source has announced all that waits, a      *)
(* listener of the object manager knows exactly the interfaces that are      *)
(* registered.                                                               *)
THEOREM ListenerKnowsInterfaces == Spec => []KnowsInterfaces
BY AlwaysSound, KnownFollows, PTL

(* By then every change of a property has been told, but those whose flag    *)
(* remove_interface reset.                                                   *)
THEOREM ListenerChangesTold == Spec => []ChangesTold
BY AlwaysSound, ChangesFollow, PTL

(* A signal is never sent (g_dbus_send_message) before its interface is      *)
(* announced, or before the changes of its properties.                       *)
THEOREM SignalsAlwaysInOrder == Spec => []SignalsInOrder
BY AlwaysSound, SignalsFollow, PTL

(* A cached introspection is never out of date: invalidate_parent_data       *)
(* resets all those above an object that comes or goes.                      *)
THEOREM IntrospectAlwaysFresh == Spec => []IntrospectFresh
BY AlwaysSound, FreshFollows, PTL

(* GetManagedObjects finds in the tree what has been announced and not       *)
(* removed, so that signals and replies can be mixed.                        *)
THEOREM ManagedAlwaysExact == Spec => []ManagedExact
BY AlwaysSound, ManagedFollows, PTL
=============================================================================
