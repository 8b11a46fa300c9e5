-------------------------- MODULE GdbusWatch_proofs --------------------------
(* The lists of watches and listeners, and the deliveries through them,      *)
(* whatever the functions called do: for any number of names, rules and      *)
(* watches.                                                                  *)
EXTENDS GdbusWatch, SequenceTheorems, FiniteSetTheorems, WellFoundedInduction, TLAPS

(* x stands somewhere before y.                                              *)
Before(s, x, y) == \E i, j \in DOMAIN s : i < j /\ s[i] = x /\ s[j] = y

Has(f, w) == Contains(f.callbacks, w) \/ Contains(f.processed, w)

(* The lists of a listener, whose owner stays what the rule says if the name  *)
(* cache has no business there; what ListsExact says of a heap, taken apart. *)
Sound(f) ==
  /\ IsInjective(f.callbacks) /\ IsInjective(f.processed)
  /\ \A w \in Id : ~(Contains(f.callbacks, w) /\ Contains(f.processed, w))
  /\ ~f.lock => f.processed = <<>>
  /\ f.rule.name = NULL => f.owner = f.rule.owner
Lists(h) ==
  /\ h \in HeapType
  /\ IsInjective(h.listeners)
  /\ \A l \in Id : h.listener[l] # NULL <=> Contains(h.listeners, l)
  /\ \A l \in Id : h.listener[l] # NULL =>
       /\ Sound(h.listener[l])
       /\ \A w \in Id : Has(h.listener[l], w) <=> h.watch[w] # NULL /\ h.watch[w].listener = l
  /\ \A w \in Live(h) : h.listener[h.watch[w].listener] # NULL

With(h, r) == {l \in Id : h.listener[l] # NULL /\ h.listener[l].rule = r}
Counted(h) == \A r \in RuleInUse : h.rules[r] = Cardinality(With(h, r))

(* Signal watches are on signal rules, others on service rules; only signal  *)
(* rules have a watch on their sender's name.                                *)
Kinds(h) ==
  /\ \A w \in Live(h) :
       /\ h.watch[w].type = "signal" <=> h.listener[h.watch[w].listener].rule.argument = NULL
       /\ h.watch[w].check # NULL => h.watch[w].type = "service"
  /\ \A l \in Id : h.listener[l] # NULL /\ h.listener[l].name_watch # 0 =>
       /\ h.listener[l].rule.argument = NULL
       /\ h.watch[h.listener[l].name_watch] # NULL => h.watch[h.listener[l].name_watch].type = "name"

(* Ids are given once.                                                       *)
Fresh(h) ==
  /\ \A i \in Id : i > h.listener_id => h.listener[i] = NULL /\ h.watch[i] = NULL
  /\ \A l \in Id : h.listener[l] # NULL => h.listener[l].name_watch <= h.listener_id

(* Exactly the listener at c is locked; those without watches are noted.     *)
Locks(h, c) == \A l \in Id : h.listener[l] # NULL /\ h.listener[l].lock <=> l = c
Tidy(h, D) ==
  \A l \in Id : h.listener[l] # NULL /\ h.listener[l].callbacks = <<>> /\ ~h.listener[l].lock
                  => l \in D

HeapOK(h, c, D) == Lists(h) /\ Counted(h) /\ Kinds(h) /\ Fresh(h) /\ Locks(h, c) /\ Tidy(h, D)

(* Replies come for service watches, of those there are still.               *)
Answers(q, h) ==
  \A i \in DOMAIN q : q[i] \in Reply =>
    /\ q[i].watch <= h.listener_id
    /\ h.watch[q[i].watch] # NULL => h.watch[q[i].watch].type = "service"

ListsInv ==
  /\ TypeOK
  /\ owner \in [Sender -> Unique \cup {Nobody}] /\ doomed \in Seq(Id)
  /\ current # 0 => message # NULL
  /\ message = NULL => doomed = <<>>
  /\ status = "running" => HeapOK(heap, current, ToSet(doomed)) /\ Answers(inbox, heap)

(* A watch that is still to come at the listener c or behind it; what holds  *)
(* of one called, and of one that is due.                                    *)
InTurn(h, c, w) ==
  c # 0 /\ \/ Contains(h.listener[c].callbacks, w)
           \/ Before(h.listeners, c, h.watch[w].listener)
Unfit(h, m, w) == h.watch[w].type # "signal" /\ ~HasFunction(h.watch[w].type, m.new)
Fits(h, m, w) ==
  LET f == h.listener[h.watch[w].listener] IN f.rule.name = NULL /\ Matches(f, m)
InOrder(h, c, m, w, s) ==
  /\ s = "called" => ~InTurn(h, c, w)
  /\ s = "due" => Fits(h, m, w) /\ (Unfit(h, m, w) \/ InTurn(h, c, w))
Turns ==
  /\ called \in [Id -> {"new", "due", "called"}]
  /\ \A w \in Id : called[w] # "new" => w <= heap.listener_id /\ message # NULL
  /\ status = "running" => \A w \in Live(heap) : InOrder(heap, current, message, w, called[w])
-----------------------------------------------------------------------------
(* The least element of a set of naturals, which is how positions are found. *)
LEMMA Minimum ==
  ASSUME NEW S \in SUBSET Nat, S # {}
  PROVE  Min(S) \in S /\ \A y \in S : Min(S) <= y
<1> DEFINE R == {p \in Nat \X Nat : p[1] < p[2]}
<1>1. IsWellFoundedOn(R, Nat)
  BY NatLessThanWellFounded DEF OpToRel
<1>2. ASSUME NEW y \in S, NEW x \in S, <<y, x>> \notin R PROVE x <= y
  <2>1. y \in Nat /\ x \in Nat /\ <<y, x>> \in Nat \X Nat
    OBVIOUS
  <2>2. ~(y < x)
    BY <1>2, <2>1
  <2> QED BY <2>1, <2>2
<1> HIDE DEF R
<1>3. PICK x \in S : \A y \in S : ~(<<y, x>> \in R)
  BY <1>1, WFMin
<1>4. \A y \in S : x <= y
  BY <1>2, <1>3
<1> QED BY <1>4 DEF Min

Position(s, e) == SelectInSeq(s, LAMBDA v : v = e)

(* Where an element of a list stands first.                                  *)
LEMMA FirstOf ==
  ASSUME NEW S, NEW s \in Seq(S), NEW e, Contains(s, e)
  PROVE  Position(s, e) \in 1 .. Len(s) /\ s[Position(s, e)] = e
<1> DEFINE I == {i \in 1 .. Len(s) : s[i] = e}
<1>1. I \in SUBSET Nat /\ I # {}
  BY DEF Contains
<1>2. Min(I) \in I
  BY <1>1, Minimum
<1>3. Position(s, e) = Min(I)
  BY <1>1 DEF Position, SelectInSeq
<1> QED BY <1>2, <1>3

(* RemoveFirst, element by element.                                          *)
LEMMA RemoveFirstDef ==
  ASSUME NEW S, NEW s \in Seq(S), NEW e
  PROVE  \/ ~Contains(s, e) /\ RemoveFirst(s, e) = s
         \/ \E n \in 1 .. Len(s) : /\ s[n] = e
              /\ RemoveFirst(s, e) \in Seq(S)
              /\ Len(RemoveFirst(s, e)) = Len(s) - 1
              /\ \A i \in 1 .. Len(s) - 1 : RemoveFirst(s, e)[i] = IF i < n THEN s[i] ELSE s[i + 1]
<1>1. CASE Contains(s, e)
  <2>1. PICK n \in 1 .. Len(s) : n = Position(s, e) /\ s[n] = e
    BY <1>1, FirstOf
  <2>2. RemoveFirst(s, e) = SubSeq(s, 1, n - 1) \o SubSeq(s, n + 1, Len(s))
    BY <1>1, <2>1 DEF RemoveFirst, RemoveAt, Contains, Position
  <2> DEFINE front == SubSeq(s, 1, n - 1)
             back == SubSeq(s, n + 1, Len(s))
  <2>3. /\ front \in Seq(S) /\ Len(front) = n - 1
        /\ \A i \in 1 .. n - 1 : front[i] = s[i]
    <3>1. \A i \in 1 .. n - 1 : s[i] \in S
      OBVIOUS
    <3> QED BY <3>1, SubSeqProperties
  <2>4. /\ back \in Seq(S) /\ Len(back) = Len(s) - n
        /\ \A i \in 1 .. Len(s) - n : back[i] = s[i + n]
    <3>1. \A i \in n + 1 .. Len(s) : s[i] \in S
      OBVIOUS
    <3> QED BY <3>1, SubSeqProperties
  <2> HIDE DEF front, back
  <2>5. /\ front \o back \in Seq(S) /\ Len(front \o back) = Len(s) - 1
        /\ \A i \in 1 .. Len(s) - 1 :
             (front \o back)[i] = IF i < n THEN front[i] ELSE back[i - (n - 1)]
    <3>1. /\ front \o back \in Seq(S) /\ Len(front \o back) = Len(front) + Len(back)
          /\ \A i \in 1 .. Len(front) + Len(back) :
               (front \o back)[i] = IF i <= Len(front) THEN front[i] ELSE back[i - Len(front)]
      BY <2>3, <2>4, ConcatProperties
    <3>2. Len(front) + Len(back) = Len(s) - 1 /\ Len(front) = n - 1
      BY <2>3, <2>4
    <3> QED BY <3>1, <3>2
  <2>6. \A i \in 1 .. Len(s) - 1 : (front \o back)[i] = IF i < n THEN s[i] ELSE s[i + 1]
    BY <2>3, <2>4, <2>5
  <2>7. RemoveFirst(s, e) = front \o back
    BY <2>2 DEF front, back
  <2> QED BY <2>1, <2>5, <2>6, <2>7
<1>2. CASE ~Contains(s, e)
  BY <1>2 DEF RemoveFirst, Contains
<1> QED BY <1>1, <1>2

(* What is left of a list without repetitions keeps its order.               *)
LEMMA Removal ==
  ASSUME NEW S, NEW s \in Seq(S), IsInjective(s), NEW e
  PROVE  /\ RemoveFirst(s, e) \in Seq(S) /\ IsInjective(RemoveFirst(s, e))
         /\ \A x : Contains(RemoveFirst(s, e), x) <=> Contains(s, x) /\ x # e
         /\ \A x, y : Before(RemoveFirst(s, e), x, y) <=> Before(s, x, y) /\ x # e /\ y # e
<1>1. CASE ~Contains(s, e)
  <2>1. RemoveFirst(s, e) = s
    BY <1>1 DEF RemoveFirst, Contains
  <2>2. \A x, y : Before(s, x, y) => x # e /\ y # e
    BY <1>1 DEF Before, Contains
  <2> QED BY <1>1, <2>1, <2>2
<1>2. CASE Contains(s, e)
  <2> DEFINE r == RemoveFirst(s, e)
  <2>1. PICK n \in 1 .. Len(s) :
          /\ s[n] = e /\ r \in Seq(S) /\ Len(r) = Len(s) - 1
          /\ \A i \in 1 .. Len(s) - 1 : r[i] = IF i < n THEN s[i] ELSE s[i + 1]
    BY <1>2, RemoveFirstDef
  <2> HIDE DEF r
  <2> DEFINE old(i) == IF i < n THEN i ELSE i + 1
             new(j) == IF j < n THEN j ELSE j - 1
  <2>2. \A i \in 1 .. Len(r) : old(i) \in 1 .. Len(s) /\ r[i] = s[old(i)] /\ r[i] # e
    <3> SUFFICES ASSUME NEW i \in 1 .. Len(r)
                 PROVE  old(i) \in 1 .. Len(s) /\ r[i] = s[old(i)] /\ r[i] # e
      OBVIOUS
    <3>1. old(i) \in 1 .. Len(s) /\ old(i) # n /\ r[i] = s[old(i)]
      BY <2>1
    <3>2. s[old(i)] # s[n]
      BY <3>1 DEF IsInjective
    <3> QED BY <2>1, <3>1, <3>2
  <2>3. \A j \in 1 .. Len(s) : s[j] # e =>
          new(j) \in 1 .. Len(r) /\ r[new(j)] = s[j]
    BY <2>1
  <2>4. IsInjective(r)
    <3> SUFFICES ASSUME NEW i \in 1 .. Len(r), NEW j \in 1 .. Len(r), r[i] = r[j] PROVE i = j
      BY <2>1 DEF IsInjective
    <3>1. old(i) = old(j)
      <4>1. /\ old(i) \in DOMAIN s /\ old(j) \in DOMAIN s
            /\ s[old(i)] = s[old(j)]
        BY <2>2
      <4> HIDE DEF old
      <4> QED BY <4>1 DEF IsInjective
    <3> QED BY <3>1
  <2>5. \A x : Contains(r, x) <=> Contains(s, x) /\ x # e
    <3>1. ASSUME NEW x, Contains(r, x) PROVE Contains(s, x) /\ x # e
      BY <2>2, <3>1 DEF Contains
    <3>2. ASSUME NEW x, Contains(s, x), x # e PROVE Contains(r, x)
      BY <2>3, <3>2 DEF Contains
    <3> QED BY <3>1, <3>2
  <2>6. \A x, y : Before(r, x, y) <=> Before(s, x, y) /\ x # e /\ y # e
    <3>1. ASSUME NEW x, NEW y, Before(r, x, y) PROVE Before(s, x, y) /\ x # e /\ y # e
      <4>1. PICK i \in 1 .. Len(r), j \in 1 .. Len(r) : i < j /\ r[i] = x /\ r[j] = y
        BY <2>1, <3>1 DEF Before
      <4>2. old(i) < old(j)
        BY <4>1, <2>1
      <4> QED BY <2>2, <4>1, <4>2 DEF Before
    <3>2. ASSUME NEW x, NEW y, Before(s, x, y), x # e, y # e PROVE Before(r, x, y)
      <4>1. PICK i \in 1 .. Len(s), j \in 1 .. Len(s) : i < j /\ s[i] = x /\ s[j] = y
        BY <3>2 DEF Before
      <4>2. new(i) < new(j)
        BY <2>1, <3>2, <4>1
      <4>3. new(i) \in DOMAIN r /\ new(j) \in DOMAIN r /\ r[new(i)] = x /\ r[new(j)] = y
        BY <2>1, <2>3, <3>2, <4>1
      <4> HIDE DEF new
      <4> QED BY <4>2, <4>3 DEF Before
    <3> QED BY <3>1, <3>2
  <2> QED BY <2>1, <2>4, <2>5, <2>6 DEF r
<1> QED BY <1>1, <1>2

(* An element new to a list comes behind all others.                         *)
LEMMA Addition ==
  ASSUME NEW S, NEW s \in Seq(S), IsInjective(s), NEW e \in S, ~Contains(s, e)
  PROVE  /\ Append(s, e) \in Seq(S) /\ IsInjective(Append(s, e)) /\ Append(s, e) # <<>>
         /\ \A x : Contains(Append(s, e), x) <=> Contains(s, x) \/ x = e
         /\ \A x, y : Before(Append(s, e), x, y) <=> Before(s, x, y) \/ (Contains(s, x) /\ y = e)
<1> DEFINE a == Append(s, e)
<1>1. /\ a \in Seq(S) /\ Len(a) = Len(s) + 1 /\ a[Len(s) + 1] = e
      /\ \A i \in 1 .. Len(s) : a[i] = s[i]
  BY AppendProperties
<1> HIDE DEF a
<1>2. IsInjective(a) /\ a # <<>>
  BY <1>1 DEF IsInjective, Contains
<1>3. \A x : Contains(a, x) <=> Contains(s, x) \/ x = e
  <2>1. ASSUME NEW x, Contains(a, x), x # e PROVE Contains(s, x)
    BY <1>1, <2>1 DEF Contains
  <2>2. ASSUME NEW x, Contains(s, x) PROVE Contains(a, x)
    BY <1>1, <2>2 DEF Contains
  <2>3. Contains(a, e)
    BY <1>1 DEF Contains
  <2> QED BY <2>1, <2>2, <2>3
<1>4. \A x, y : Before(a, x, y) <=> Before(s, x, y) \/ (Contains(s, x) /\ y = e)
  <2>1. ASSUME NEW x, NEW y, Before(a, x, y)
        PROVE  Before(s, x, y) \/ (Contains(s, x) /\ y = e)
    BY <1>1, <2>1 DEF Before, Contains
  <2>2. ASSUME NEW x, NEW y, Before(s, x, y) PROVE Before(a, x, y)
    BY <1>1, <2>2 DEF Before
  <2>3. ASSUME NEW x, Contains(s, x) PROVE Before(a, x, e)
    <3>1. PICK i \in 1 .. Len(s) : s[i] = x
      BY <2>3 DEF Contains
    <3>2. i \in DOMAIN a /\ Len(s) + 1 \in DOMAIN a /\ i < Len(s) + 1 /\ a[i] = x
      BY <1>1, <3>1
    <3> QED BY <1>1, <3>2 DEF Before
  <2> QED BY <2>1, <2>2, <2>3
<1> QED BY <1>1, <1>2, <1>3, <1>4 DEF a
-----------------------------------------------------------------------------
Heap(list, listener, watch, id, rules) ==
  [listeners |-> list, listener |-> listener, watch |-> watch, listener_id |-> id, rules |-> rules]

(* A heap from its parts, and into them.                                     *)
LEMMA HeapTyped ==
  ASSUME NEW list \in Seq(Id), NEW listener \in [Id -> Listener \cup {NULL}],
         NEW watch \in [Id -> Callback \cup {NULL}], NEW id \in 0 .. MaxId,
         NEW rules \in [RuleInUse -> 0 .. MaxRules]
  PROVE  Heap(list, listener, watch, id, rules) \in HeapType
BY DEF Heap, HeapType

LEMMA HeapParts ==
  ASSUME NEW h \in HeapType
  PROVE  /\ h.listeners \in Seq(Id) /\ h.listener \in [Id -> Listener \cup {NULL}]
         /\ h.watch \in [Id -> Callback \cup {NULL}] /\ h.listener_id \in 0 .. MaxId
         /\ h.rules \in [RuleInUse -> 0 .. MaxRules]
         /\ h = Heap(h.listeners, h.listener, h.watch, h.listener_id, h.rules)
BY DEF Heap, HeapType

LEMMA ListenerParts ==
  ASSUME NEW f \in Listener
  PROVE  /\ f.rule \in RuleInUse /\ f.owner \in Unique \cup {NULL, Nobody, Garbage}
         /\ f.callbacks \in Seq(Id) /\ f.processed \in Seq(Id) /\ f.lock \in BOOLEAN
         /\ f.name_watch \in Id \cup {0}
BY DEF Listener

(* The watch b is added to the listener f, which becomes e.                  *)
Joins(f, e, b, id, l, type) ==
  /\ b.type = type /\ b.listener = l /\ b.check = NULL
  /\ e.rule = f.rule /\ e.owner = f.owner /\ e.lock = f.lock /\ e.name_watch = f.name_watch
  /\ f.lock => e.callbacks = f.callbacks /\ e.processed = Append(f.processed, id)
  /\ ~f.lock => e.callbacks = Append(f.callbacks, id) /\ e.processed = f.processed

(* Hooked changes one listener and one watch.                                *)
LEMMA HookedEffect ==
  ASSUME NEW h \in HeapType, NEW l \in Id, NEW f \in Listener, f = h.listener[l],
         NEW id \in Id, NEW type \in CallbackType
  PROVE  \E e \in Listener, b \in Callback :
           /\ Hooked(h, id, l, type)
                = Heap(h.listeners, [h.listener EXCEPT ![l] = e], [h.watch EXCEPT ![id] = b], id, h.rules)
           /\ Joins(f, e, b, id, l, type)
<1> DEFINE b == [type |-> type, listener |-> l, check |-> NULL]
<1>1. b \in Callback
  BY DEF Callback
<1>2. Append(f.processed, id) \in Seq(Id) /\ Append(f.callbacks, id) \in Seq(Id)
  BY ListenerParts, AppendProperties
<1>3. CASE f.lock
  <2> DEFINE e == [f EXCEPT !.processed = Append(f.processed, id)]
  <2>1. Hooked(h, id, l, type)
          = Heap(h.listeners, [h.listener EXCEPT ![l] = e], [h.watch EXCEPT ![id] = b], id, h.rules)
    <3>1. PICK g : g = Hooked(h, id, l, type)
      OBVIOUS
    <3>2. g = [h EXCEPT !.listener[l].processed = Append(@, id), !.listener_id = id, !.watch[id] = b]
      BY <1>3, <3>1 DEF Hooked
    <3>3. /\ g.listeners = h.listeners /\ g.listener = [h.listener EXCEPT ![l] = e]
          /\ g.watch = [h.watch EXCEPT ![id] = b] /\ g.listener_id = id /\ g.rules = h.rules
      BY <3>2 DEF HeapType
    <3>4. g = Heap(g.listeners, g.listener, g.watch, g.listener_id, g.rules)
      BY <3>2 DEF HeapType, Heap
    <3> QED BY <3>1, <3>3, <3>4
  <2>2. e \in Listener
    BY <1>2 DEF Listener
  <2>3. /\ e.rule = f.rule /\ e.owner = f.owner /\ e.lock = f.lock /\ e.name_watch = f.name_watch
        /\ e.callbacks = f.callbacks /\ e.processed = Append(f.processed, id)
    BY DEF Listener
  <2>4. b.type = type /\ b.listener = l /\ b.check = NULL
    OBVIOUS
  <2> HIDE DEF e, b
  <2> QED BY <1>1, <1>3, <2>1, <2>2, <2>3, <2>4 DEF Joins
<1>4. CASE ~f.lock
  <2> DEFINE e == [f EXCEPT !.callbacks = Append(f.callbacks, id)]
  <2>1. Hooked(h, id, l, type)
          = Heap(h.listeners, [h.listener EXCEPT ![l] = e], [h.watch EXCEPT ![id] = b], id, h.rules)
    <3>1. PICK g : g = Hooked(h, id, l, type)
      OBVIOUS
    <3>2. g = [h EXCEPT !.listener[l].callbacks = Append(@, id), !.listener_id = id, !.watch[id] = b]
      BY <1>4, <3>1 DEF Hooked
    <3>3. /\ g.listeners = h.listeners /\ g.listener = [h.listener EXCEPT ![l] = e]
          /\ g.watch = [h.watch EXCEPT ![id] = b] /\ g.listener_id = id /\ g.rules = h.rules
      BY <3>2 DEF HeapType
    <3>4. g = Heap(g.listeners, g.listener, g.watch, g.listener_id, g.rules)
      BY <3>2 DEF HeapType, Heap
    <3> QED BY <3>1, <3>3, <3>4
  <2>2. e \in Listener
    BY <1>2 DEF Listener
  <2>3. /\ e.rule = f.rule /\ e.owner = f.owner /\ e.lock = f.lock /\ e.name_watch = f.name_watch
        /\ e.callbacks = Append(f.callbacks, id) /\ e.processed = f.processed
    BY DEF Listener
  <2>4. b.type = type /\ b.listener = l /\ b.check = NULL
    OBVIOUS
  <2> HIDE DEF e, b
  <2> QED BY <1>1, <1>4, <2>1, <2>2, <2>3, <2>4 DEF Joins
<1> QED BY <1>3, <1>4

Opens(h, g, l, rule, e) ==
  /\ g = Heap(Append(h.listeners, l), [h.listener EXCEPT ![l] = e], h.watch, h.listener_id,
              [h.rules EXCEPT ![rule] = @ + 1])
  /\ e.rule = rule /\ e.owner = rule.owner
  /\ e.callbacks = <<>> /\ e.processed = <<>> /\ ~e.lock /\ e.name_watch = 0

(* A new listener.                                                           *)
LEMMA ListeningEffect ==
  ASSUME NEW h \in HeapType, NEW l \in Id, NEW rule \in RuleInUse
  PROVE  \E e \in Listener : Opens(h, Listening(h, l, rule), l, rule, e)
<1> DEFINE e == [rule |-> rule, owner |-> rule.owner, callbacks |-> <<>>,
                 processed |-> <<>>, lock |-> FALSE, name_watch |-> 0]
<1>1. rule.owner \in Unique \cup {NULL}
  BY DEF RuleInUse, ServiceRule, SignalRule
<1>2. e \in Listener
  BY <1>1 DEF Listener
<1>3. Listening(h, l, rule)
        = Heap(Append(h.listeners, l), [h.listener EXCEPT ![l] = e], h.watch, h.listener_id,
               [h.rules EXCEPT ![rule] = @ + 1])
  <2>1. PICK g : g = Listening(h, l, rule)
    OBVIOUS
  <2>2. g = [h EXCEPT !.listeners = Append(@, l), !.rules[rule] = @ + 1, !.listener[l] = e]
    BY <2>1 DEF Listening
  <2>3. /\ g.listeners = Append(h.listeners, l) /\ g.listener = [h.listener EXCEPT ![l] = e]
        /\ g.watch = h.watch /\ g.listener_id = h.listener_id /\ g.rules = [h.rules EXCEPT ![rule] = @ + 1]
    BY <2>2 DEF HeapType
  <2>4. g = Heap(g.listeners, g.listener, g.watch, g.listener_id, g.rules)
    BY <2>2 DEF HeapType, Heap
  <2> QED BY <2>1, <2>3, <2>4
<1>4. e.rule = rule /\ e.owner = rule.owner /\ e.callbacks = <<>> /\ e.processed = <<>> /\ ~e.lock /\ e.name_watch = 0
  OBVIOUS
<1> HIDE DEF e
<1> QED BY <1>2, <1>3, <1>4 DEF Opens

(* A listener freed.                                                         *)
LEMMA UnlistenEffect ==
  ASSUME NEW h \in HeapType, NEW l \in Id, NEW f \in Listener, f = h.listener[l]
  PROVE  Unlisten(h, l)
           = Heap(RemoveFirst(h.listeners, l), [h.listener EXCEPT ![l] = NULL], h.watch,
                  h.listener_id, [h.rules EXCEPT ![f.rule] = @ - 1])
<1>1. PICK g : g = Unlisten(h, l)
  OBVIOUS
<1>2. g = [h EXCEPT !.listeners = RemoveFirst(@, l), !.listener[l] = NULL, !.rules[f.rule] = @ - 1]
  BY <1>1 DEF Unlisten
<1>3. /\ g.listeners = RemoveFirst(h.listeners, l) /\ g.listener = [h.listener EXCEPT ![l] = NULL]
      /\ g.watch = h.watch /\ g.listener_id = h.listener_id /\ g.rules = [h.rules EXCEPT ![f.rule] = @ - 1]
  BY <1>2 DEF HeapType
<1>4. g = Heap(g.listeners, g.listener, g.watch, g.listener_id, g.rules)
  BY <1>2 DEF HeapType, Heap
<1> QED BY <1>1, <1>3, <1>4

(* A watch freed.                                                            *)
LEMMA UnhookEffect ==
  ASSUME NEW h \in HeapType, NEW w \in Id, h.watch[w] # NULL, NEW l \in Id, l = h.watch[w].listener,
         NEW f \in Listener, f = h.listener[l],
         IsInjective(f.callbacks), IsInjective(f.processed)
  PROVE  \E e \in Listener :
           /\ Unhook(h, w)
                = Heap(h.listeners, [h.listener EXCEPT ![l] = e], [h.watch EXCEPT ![w] = NULL],
                       h.listener_id, h.rules)
           /\ e.rule = f.rule /\ e.owner = f.owner /\ e.lock = f.lock /\ e.name_watch = f.name_watch
           /\ e.callbacks = RemoveFirst(f.callbacks, w) /\ e.processed = RemoveFirst(f.processed, w)
<1> DEFINE e == [f EXCEPT !.callbacks = RemoveFirst(f.callbacks, w),
                          !.processed = RemoveFirst(f.processed, w)]
<1>1. RemoveFirst(f.callbacks, w) \in Seq(Id) /\ RemoveFirst(f.processed, w) \in Seq(Id)
  BY ListenerParts, Removal
<1>2. e \in Listener
  BY <1>1 DEF Listener
<1>3. /\ e.rule = f.rule /\ e.owner = f.owner /\ e.lock = f.lock /\ e.name_watch = f.name_watch
      /\ e.callbacks = RemoveFirst(f.callbacks, w) /\ e.processed = RemoveFirst(f.processed, w)
  BY DEF Listener
<1>4. Unhook(h, w)
        = Heap(h.listeners, [h.listener EXCEPT ![l] = e], [h.watch EXCEPT ![w] = NULL],
               h.listener_id, h.rules)
  <2>1. PICK g : g = Unhook(h, w)
    OBVIOUS
  <2>2. g = [h EXCEPT !.listener[l].callbacks = RemoveFirst(@, w),
                      !.listener[l].processed = RemoveFirst(@, w), !.watch[w] = NULL]
    BY <2>1 DEF Unhook
  <2>3. /\ g.listeners = h.listeners /\ g.listener = [h.listener EXCEPT ![l] = e]
        /\ g.watch = [h.watch EXCEPT ![w] = NULL] /\ g.listener_id = h.listener_id
        /\ g.rules = h.rules
    BY <2>2 DEF HeapType
  <2>4. g = Heap(g.listeners, g.listener, g.watch, g.listener_id, g.rules)
    BY <2>2 DEF HeapType, Heap
  <2> QED BY <2>1, <2>3, <2>4
<1> HIDE DEF e
<1> QED BY <1>2, <1>3, <1>4

(* A watch moved to those called.                                            *)
LEMMA ProcessedEffect ==
  ASSUME NEW h \in HeapType, NEW w \in Id, NEW l \in Id, NEW f \in Listener, f = h.listener[l],
         IsInjective(f.callbacks)
  PROVE  \E e \in Listener :
           /\ Processed(h, l, w)
                = Heap(h.listeners, [h.listener EXCEPT ![l] = e], h.watch, h.listener_id, h.rules)
           /\ e.rule = f.rule /\ e.owner = f.owner /\ e.lock = f.lock /\ e.name_watch = f.name_watch
           /\ e.callbacks = RemoveFirst(f.callbacks, w) /\ e.processed = Append(f.processed, w)
<1> DEFINE e == [f EXCEPT !.callbacks = RemoveFirst(f.callbacks, w),
                          !.processed = Append(f.processed, w)]
<1>1. RemoveFirst(f.callbacks, w) \in Seq(Id) /\ Append(f.processed, w) \in Seq(Id)
  BY ListenerParts, Removal, AppendProperties
<1>2. e \in Listener
  BY <1>1 DEF Listener
<1>3. /\ e.rule = f.rule /\ e.owner = f.owner /\ e.lock = f.lock /\ e.name_watch = f.name_watch
      /\ e.callbacks = RemoveFirst(f.callbacks, w) /\ e.processed = Append(f.processed, w)
  BY DEF Listener
<1>4. Processed(h, l, w)
        = Heap(h.listeners, [h.listener EXCEPT ![l] = e], h.watch, h.listener_id, h.rules)
  <2>1. PICK g : g = Processed(h, l, w)
    OBVIOUS
  <2>2. g = [h EXCEPT !.listener[l].callbacks = RemoveFirst(@, w),
                      !.listener[l].processed = Append(@, w)]
    BY <2>1 DEF Processed
  <2>3. /\ g.listeners = h.listeners /\ g.listener = [h.listener EXCEPT ![l] = e]
        /\ g.watch = h.watch /\ g.listener_id = h.listener_id /\ g.rules = h.rules
    BY <2>2 DEF HeapType
  <2>4. g = Heap(g.listeners, g.listener, g.watch, g.listener_id, g.rules)
    BY <2>2 DEF HeapType, Heap
  <2> QED BY <2>1, <2>3, <2>4
<1> HIDE DEF e
<1> QED BY <1>2, <1>3, <1>4

(* A listener unlocked, its watches all called.                              *)
LEMMA UnlockEffect ==
  ASSUME NEW h \in HeapType, NEW l \in Id, NEW f \in Listener, f = h.listener[l]
  PROVE  \E e \in Listener :
           /\ Unlock(h, l)
                = Heap(h.listeners, [h.listener EXCEPT ![l] = e], h.watch, h.listener_id, h.rules)
           /\ e.rule = f.rule /\ e.owner = f.owner /\ ~e.lock /\ e.name_watch = f.name_watch
           /\ e.callbacks = f.processed /\ e.processed = <<>>
<1> DEFINE e == [f EXCEPT !.callbacks = f.processed, !.processed = <<>>, !.lock = FALSE]
<1>1. e \in Listener
  <2>1. f.processed \in Seq(Id) /\ <<>> \in Seq(Id)
    BY ListenerParts, EmptySeq
  <2> QED BY <2>1 DEF Listener
<1>2. /\ e.rule = f.rule /\ e.owner = f.owner /\ ~e.lock /\ e.name_watch = f.name_watch
      /\ e.callbacks = f.processed /\ e.processed = <<>>
  BY DEF Listener
<1>3. Unlock(h, l)
        = Heap(h.listeners, [h.listener EXCEPT ![l] = e], h.watch, h.listener_id, h.rules)
  <2>1. PICK g : g = Unlock(h, l)
    OBVIOUS
  <2>2. g = [h EXCEPT !.listener[l].callbacks = h.listener[l].processed,
                      !.listener[l].processed = <<>>, !.listener[l].lock = FALSE]
    BY <2>1 DEF Unlock
  <2>3. /\ g.listeners = h.listeners /\ g.listener = [h.listener EXCEPT ![l] = e]
        /\ g.watch = h.watch /\ g.listener_id = h.listener_id /\ g.rules = h.rules
    BY <2>2 DEF HeapType
  <2>4. g = Heap(g.listeners, g.listener, g.watch, g.listener_id, g.rules)
    BY <2>2 DEF HeapType, Heap
  <2> QED BY <2>1, <2>3, <2>4
<1> HIDE DEF e
<1> QED BY <1>1, <1>2, <1>3

(* A listener locked, or given the watch on its sender's name.               *)
Locked(h, l) == [h EXCEPT !.listener[l].lock = TRUE]
Named(h, l, w) == [h EXCEPT !.listener[l].name_watch = w]
Resembles(f, e, lock, w) ==
  /\ e.rule = f.rule /\ e.owner = f.owner /\ e.callbacks = f.callbacks /\ e.processed = f.processed
  /\ e.lock = lock /\ e.name_watch = w
Closes(f, e) == Resembles(f, e, TRUE, f.name_watch)

LEMMA LockedEffect ==
  ASSUME NEW h \in HeapType, NEW l \in Id, NEW f \in Listener, f = h.listener[l],
         NEW g, g = Locked(h, l)
  PROVE  \E e \in Listener :
           /\ g = Heap(h.listeners, [h.listener EXCEPT ![l] = e], h.watch, h.listener_id, h.rules)
           /\ Closes(f, e)
<1> DEFINE e == [f EXCEPT !.lock = TRUE]
<1>1. e \in Listener
  BY DEF Listener
<1>2. Closes(f, e)
  BY DEF Listener, Resembles, Closes
<1>3. g = Heap(h.listeners, [h.listener EXCEPT ![l] = e], h.watch, h.listener_id, h.rules)
  <2>1. /\ g.listeners = h.listeners /\ g.listener = [h.listener EXCEPT ![l] = e]
        /\ g.watch = h.watch /\ g.listener_id = h.listener_id /\ g.rules = h.rules
    BY DEF HeapType, Locked
  <2>2. g = Heap(g.listeners, g.listener, g.watch, g.listener_id, g.rules)
    BY DEF HeapType, Heap, Locked
  <2> QED BY <2>1, <2>2
<1> HIDE DEF e
<1> QED BY <1>1, <1>2, <1>3

LEMMA NameWatchEffect ==
  ASSUME NEW h \in HeapType, NEW l \in Id, NEW f \in Listener, f = h.listener[l], NEW w \in Id,
         NEW g, g = Named(h, l, w)
  PROVE  \E e \in Listener :
           /\ g = Heap(h.listeners, [h.listener EXCEPT ![l] = e], h.watch, h.listener_id, h.rules)
           /\ Resembles(f, e, f.lock, w)
<1> DEFINE e == [f EXCEPT !.name_watch = w]
<1>1. e \in Listener
  BY DEF Listener
<1>2. Resembles(f, e, f.lock, w)
  BY DEF Listener, Resembles
<1>3. g = Heap(h.listeners, [h.listener EXCEPT ![l] = e], h.watch, h.listener_id, h.rules)
  <2>1. /\ g.listeners = h.listeners /\ g.listener = [h.listener EXCEPT ![l] = e]
        /\ g.watch = h.watch /\ g.listener_id = h.listener_id /\ g.rules = h.rules
    BY DEF HeapType, Named
  <2>2. g = Heap(g.listeners, g.listener, g.watch, g.listener_id, g.rules)
    BY DEF HeapType, Heap, Named
  <2> QED BY <2>1, <2>2
<1> HIDE DEF e
<1> QED BY <1>1, <1>2, <1>3

(* A question to the bus begun or ended.                                     *)
LEMMA CheckEffect ==
  ASSUME NEW h \in HeapType, NEW w \in Id, h.watch[w] # NULL,
         NEW check \in {NULL, "asked"} \cup Unique \cup {Nobody, Garbage}
  PROVE  \E b \in Callback :
           /\ [h EXCEPT !.watch[w].check = check]
                = Heap(h.listeners, h.listener, [h.watch EXCEPT ![w] = b], h.listener_id, h.rules)
           /\ b.type = h.watch[w].type /\ b.listener = h.watch[w].listener /\ b.check = check
<1>1. PICK a \in Callback : a = h.watch[w]
  BY DEF HeapType
<1> DEFINE b == [a EXCEPT !.check = check]
<1>2. b \in Callback /\ b.type = a.type /\ b.listener = a.listener /\ b.check = check
  BY DEF Callback
<1>3. [h EXCEPT !.watch[w].check = check]
        = Heap(h.listeners, h.listener, [h.watch EXCEPT ![w] = b], h.listener_id, h.rules)
  BY <1>1 DEF HeapType, Heap
<1> HIDE DEF b
<1> QED BY <1>1, <1>2, <1>3

(* The name cache.                                                           *)
LEMMA CacheEffect ==
  ASSUME NEW h \in HeapType, NEW n \in Sender, NEW new \in Unique \cup {NULL, Nobody, Garbage}
  PROVE  \E L \in [Id -> Listener \cup {NULL}] :
           /\ update_name_cache(h, n, new)
                = Heap(h.listeners, L, h.watch, h.listener_id, h.rules)
           /\ \A k \in Id :
                \/ h.listener[k] = NULL /\ L[k] = NULL
                \/ LET e == L[k]
                       f == h.listener[k]
                   IN  /\ e # NULL /\ f # NULL
                       /\ e.rule = f.rule /\ (f.rule.name = NULL => e.owner = f.owner)
                       /\ e.lock = f.lock /\ e.name_watch = f.name_watch
                       /\ e.callbacks = f.callbacks /\ e.processed = f.processed
<1> DEFINE L == [l \in Id |-> IF h.listener[l] # NULL /\ h.listener[l].rule.name = n
                              THEN [h.listener[l] EXCEPT !.owner = new] ELSE h.listener[l]]
<1>1. ASSUME NEW k \in Id
      PROVE  /\ L[k] \in Listener \cup {NULL}
             /\ \/ h.listener[k] = NULL /\ L[k] = NULL
                \/ LET e == L[k]
                       f == h.listener[k]
                   IN  /\ e # NULL /\ f # NULL
                       /\ e.rule = f.rule /\ (f.rule.name = NULL => e.owner = f.owner)
                       /\ e.lock = f.lock /\ e.name_watch = f.name_watch
                       /\ e.callbacks = f.callbacks /\ e.processed = f.processed
  <2>1. CASE h.listener[k] # NULL /\ h.listener[k].rule.name = n
    <3>1. PICK f \in Listener : f = h.listener[k]
      BY <2>1, HeapParts
    <3>2. PICK e : e = [f EXCEPT !.owner = new]
      OBVIOUS
    <3>3. /\ e \in Listener /\ e.rule = f.rule /\ e.lock = f.lock /\ e.name_watch = f.name_watch
          /\ e.callbacks = f.callbacks /\ e.processed = f.processed
      BY <3>2 DEF Listener
    <3>4. L[k] = e
      BY <2>1, <3>1, <3>2
    <3>5. f.rule.name # NULL
      BY <2>1, <3>1, WatchAssumption DEF Sender
    <3>6. e # NULL
      BY <3>3, RecordsAssumption
    <3> HIDE DEF L
    <3> QED BY <3>1, <3>3, <3>4, <3>5, <3>6, <2>1
  <2>2. CASE ~(h.listener[k] # NULL /\ h.listener[k].rule.name = n)
    BY <2>2, HeapParts
  <2> QED BY <2>1, <2>2
<1>2. L \in [Id -> Listener \cup {NULL}]
  BY <1>1
<1>3. update_name_cache(h, n, new) = Heap(h.listeners, L, h.watch, h.listener_id, h.rules)
  BY DEF update_name_cache, HeapType, Heap
<1> HIDE DEF L
<1> QED BY <1>1, <1>2, <1>3

(* One listener's lists change, and the watches with them.                   *)
LEMMA Rearranged ==
  ASSUME NEW h, Lists(h), Counted(h), NEW l \in Id, h.listener[l] # NULL,
         NEW e \in Listener, Sound(e), e.rule = h.listener[l].rule,
         NEW W \in [Id -> Callback \cup {NULL}], NEW id \in 0 .. MaxId,
         \A w \in Id : Has(e, w) <=> W[w] # NULL /\ W[w].listener = l,
         \A w \in Id : \/ W[w] = h.watch[w]
                       \/ /\ h.watch[w] # NULL => h.watch[w].listener = l
                          /\ W[w] # NULL => W[w].listener = l,
         NEW g, g = Heap(h.listeners, [h.listener EXCEPT ![l] = e], W, id, h.rules)
  PROVE  Lists(g) /\ Counted(g)
<1>1. h \in HeapType /\ e # NULL
  BY RecordsAssumption DEF Lists
<1>2. [h.listener EXCEPT ![l] = e] \in [Id -> Listener \cup {NULL}]
  BY <1>1, HeapParts
<1>3. g \in HeapType
  BY <1>1, <1>2, HeapParts, HeapTyped
<1>4. /\ g.listeners = h.listeners /\ g.listener[l] = e /\ g.watch = W /\ g.rules = h.rules
      /\ \A k \in Id \ {l} : g.listener[k] = h.listener[k]
  BY <1>1, HeapParts DEF Heap
<1>5. ASSUME NEW k \in Id, g.listener[k] # NULL
      PROVE  /\ Sound(g.listener[k])
             /\ \A w \in Id : Has(g.listener[k], w) <=> g.watch[w] # NULL /\ g.watch[w].listener = k
  <2>1. CASE k = l
    BY <1>4, <2>1
  <2>2. CASE k # l
    <3>1. g.listener[k] = h.listener[k] /\ h.listener[k] # NULL
      BY <1>4, <1>5, <2>2
    <3>2. \A w \in Id : g.watch[w] # NULL /\ g.watch[w].listener = k
                         <=> h.watch[w] # NULL /\ h.watch[w].listener = k
      BY <1>4, <2>2
    <3> QED BY <3>1, <3>2 DEF Lists
  <2> QED BY <2>1, <2>2
<1>6. \A k \in Id : g.listener[k] # NULL <=> Contains(g.listeners, k)
  BY <1>1, <1>4 DEF Lists
<1>7. \A w \in Live(g) : g.listener[g.watch[w].listener] # NULL
  <2> SUFFICES ASSUME NEW w \in Id, W[w] # NULL PROVE g.listener[W[w].listener] # NULL
    BY <1>4 DEF Live
  <2>1. W[w].listener \in Id
    BY DEF Callback
  <2>2. h.watch[w] # NULL => h.listener[h.watch[w].listener] # NULL
    BY DEF Lists, Live
  <2> QED BY <1>1, <1>4, <2>1, <2>2
<1>8. Counted(g)
  <2>1. \A r \in RuleInUse : With(g, r) = With(h, r)
    BY <1>1, <1>4 DEF With
  <2> QED BY <1>4, <2>1 DEF Counted
<1> QED BY <1>3, <1>4, <1>5, <1>6, <1>7, <1>8 DEF Lists
-----------------------------------------------------------------------------
(* What client code may do to the heap: the watches, listeners and rules     *)
(* there were stay in their places and in their order, or go for good.       *)
Evolves(h, g) ==
  /\ h.listener_id <= g.listener_id
  /\ \A w \in Id : w <= h.listener_id /\ g.watch[w] # NULL =>
       /\ h.watch[w] # NULL
       /\ g.watch[w].type = h.watch[w].type /\ g.watch[w].listener = h.watch[w].listener
  /\ \A l \in Id : l <= h.listener_id /\ g.listener[l] # NULL =>
       /\ h.listener[l] # NULL
       /\ g.listener[l].rule = h.listener[l].rule
       /\ h.listener[l].rule.name = NULL => g.listener[l].owner = h.listener[l].owner
       /\ \A w \in Id : w <= h.listener_id /\ g.watch[w] # NULL =>
            (Contains(g.listener[l].callbacks, w) <=> Contains(h.listener[l].callbacks, w))
       /\ \A k \in Id : k <= h.listener_id /\ g.listener[k] # NULL =>
            (Before(g.listeners, k, l) <=> Before(h.listeners, k, l))

(* What removals leave are the watches as they were; what client code adds    *)
(* asks for the owner, or knows it from the cache.                           *)
Prunes(h, g) ==
  g.listener_id = h.listener_id /\ \A w \in Id : g.watch[w] # NULL => g.watch[w] = h.watch[w]
Asks(h, g) ==
  \A w \in Id : g.watch[w] # NULL =>
    /\ w <= h.listener_id => g.watch[w] = h.watch[w]
    /\ w > h.listener_id /\ g.watch[w].type = "service" => g.watch[w].check # NULL

(* Client code may do nothing, and one thing after another.                  *)
LEMMA EvolvesReflexive == ASSUME NEW h, h \in HeapType PROVE Evolves(h, h)
BY HeapParts DEF Evolves

LEMMA EvolvesTransitive ==
  ASSUME NEW h \in HeapType, NEW g \in HeapType, NEW f \in HeapType, Evolves(h, g), Evolves(g, f)
  PROVE  Evolves(h, f)
<1>1. h.listener_id \in Nat /\ g.listener_id \in Nat /\ f.listener_id \in Nat /\ Id \subseteq Nat
  BY HeapParts DEF Id
<1>2. h.listener_id <= f.listener_id /\ \A i \in Id : i <= h.listener_id => i <= g.listener_id
  BY <1>1 DEF Evolves
<1>3. ASSUME NEW w \in Id, w <= h.listener_id, f.watch[w] # NULL
      PROVE  /\ g.watch[w] # NULL /\ h.watch[w] # NULL
             /\ f.watch[w].type = h.watch[w].type /\ f.watch[w].listener = h.watch[w].listener
  BY <1>2, <1>3 DEF Evolves
<1>4. ASSUME NEW l \in Id, l <= h.listener_id, f.listener[l] # NULL
      PROVE  /\ g.listener[l] # NULL /\ h.listener[l] # NULL
             /\ f.listener[l].rule = h.listener[l].rule
             /\ h.listener[l].rule.name = NULL => f.listener[l].owner = h.listener[l].owner
             /\ \A w \in Id : w <= h.listener_id /\ f.watch[w] # NULL =>
                  (Contains(f.listener[l].callbacks, w) <=> Contains(h.listener[l].callbacks, w))
  <2>1. g.listener[l] # NULL /\ g.listener[l].rule = f.listener[l].rule
    BY <1>2, <1>4 DEF Evolves
  <2>2. h.listener[l] # NULL /\ g.listener[l].rule = h.listener[l].rule
    BY <1>4, <2>1 DEF Evolves
  <2>3. h.listener[l].rule.name = NULL => f.listener[l].owner = h.listener[l].owner
    BY <1>2, <1>4, <2>1, <2>2 DEF Evolves
  <2>4. ASSUME NEW w \in Id, w <= h.listener_id, f.watch[w] # NULL
        PROVE  Contains(f.listener[l].callbacks, w) <=> Contains(h.listener[l].callbacks, w)
    BY <1>2, <1>3, <1>4, <2>1, <2>4 DEF Evolves
  <2> QED BY <2>1, <2>2, <2>3, <2>4
<1>5. ASSUME NEW l \in Id, l <= h.listener_id, f.listener[l] # NULL,
             NEW k \in Id, k <= h.listener_id, f.listener[k] # NULL
      PROVE  Before(f.listeners, k, l) <=> Before(h.listeners, k, l)
  <2>1. Before(f.listeners, k, l) <=> Before(g.listeners, k, l)
    BY <1>2, <1>5 DEF Evolves
  <2>2. Before(g.listeners, k, l) <=> Before(h.listeners, k, l)
    BY <1>4, <1>5 DEF Evolves
  <2> QED BY <2>1, <2>2
<1> QED BY <1>2, <1>3, <1>4, <1>5 DEF Evolves

(* Unhook leaves all but the watch's listener as it was, whose lists it      *)
(* shortens; it may be one that has to go.                                   *)
LEMMA UnhookKeeps ==
  ASSUME NEW h, NEW c, NEW D, HeapOK(h, c, D), NEW w \in Live(h), NEW l, l = h.watch[w].listener,
         NEW g, g = Unhook(h, w)
  PROVE  /\ HeapOK(g, c, D \cup {l}) /\ Evolves(h, g)
         /\ l \in Id /\ g.listener[l] # NULL /\ g.watch[w] = NULL /\ Prunes(h, g)
<1>1. h \in HeapType /\ w \in Id /\ h.watch[w] # NULL
  BY DEF HeapOK, Lists, Live
<1>2. l \in Id /\ h.listener[l] # NULL
  BY <1>1, HeapParts DEF HeapOK, Lists, Callback
<1>3. PICK f \in Listener : f = h.listener[l]
  BY <1>1, <1>2, HeapParts
<1>4. Sound(f)
  BY <1>2, <1>3 DEF HeapOK, Lists
<1>5. PICK e \in Listener :
        /\ g = Heap(h.listeners, [h.listener EXCEPT ![l] = e], [h.watch EXCEPT ![w] = NULL],
                    h.listener_id, h.rules)
        /\ e.rule = f.rule /\ e.owner = f.owner /\ e.lock = f.lock /\ e.name_watch = f.name_watch
        /\ e.callbacks = RemoveFirst(f.callbacks, w) /\ e.processed = RemoveFirst(f.processed, w)
  <2>1. IsInjective(f.callbacks) /\ IsInjective(f.processed)
    BY <1>4 DEF Sound
  <2>2. \E e \in Listener :
           /\ Unhook(h, w)
                = Heap(h.listeners, [h.listener EXCEPT ![l] = e], [h.watch EXCEPT ![w] = NULL],
                       h.listener_id, h.rules)
           /\ e.rule = f.rule /\ e.owner = f.owner /\ e.lock = f.lock /\ e.name_watch = f.name_watch
           /\ e.callbacks = RemoveFirst(f.callbacks, w) /\ e.processed = RemoveFirst(f.processed, w)
    BY <1>1, <1>2, <1>3, <2>1, UnhookEffect, ZenonT(60)
  <2> QED BY <2>2
<1>6. /\ IsInjective(e.callbacks) /\ IsInjective(e.processed)
      /\ \A x : Contains(e.callbacks, x) <=> Contains(f.callbacks, x) /\ x # w
      /\ \A x : Contains(e.processed, x) <=> Contains(f.processed, x) /\ x # w
  <2>1. f.callbacks \in Seq(Id) /\ f.processed \in Seq(Id)
    BY ListenerParts
  <2> QED BY <1>4, <1>5, <2>1, Removal DEF Sound
<1>7. Sound(e)
  <2>1. ~e.lock => e.processed = <<>>
    <3>1. ~Contains(<<>>, w)
      BY DEF Contains
    <3> QED BY <1>4, <1>5, <3>1 DEF Sound, RemoveFirst, Contains
  <2> QED BY <1>4, <1>5, <1>6, <2>1 DEF Sound
<1>8. /\ g.listeners = h.listeners /\ g.listener = [h.listener EXCEPT ![l] = e]
      /\ g.watch = [h.watch EXCEPT ![w] = NULL] /\ g.listener_id = h.listener_id
      /\ g.listener[l] = e /\ \A k \in Id \ {l} : g.listener[k] = h.listener[k]
      /\ g.watch[w] = NULL /\ \A v \in Id \ {w} : g.watch[v] = h.watch[v]
  BY <1>1, <1>2, <1>5, HeapParts DEF Heap
<1>9. Lists(g) /\ Counted(g)
  <2>1. Lists(h) /\ Counted(h)
    BY DEF HeapOK
  <2>2. PICK W \in [Id -> Callback \cup {NULL}] : W = [h.watch EXCEPT ![w] = NULL]
    BY <1>1, HeapParts
  <2>3. h.listener_id \in 0 .. MaxId
    BY <1>1, HeapParts
  <2>4. ASSUME NEW v \in Id PROVE Has(e, v) <=> W[v] # NULL /\ W[v].listener = l
    <3>1. Has(f, v) <=> h.watch[v] # NULL /\ h.watch[v].listener = l
      BY <1>2, <1>3 DEF HeapOK, Lists
    <3> QED BY <1>6, <1>8, <2>2, <3>1 DEF Has
  <2>5. \A v \in Id : \/ W[v] = h.watch[v]
                     \/ /\ h.watch[v] # NULL => h.watch[v].listener = l
                        /\ W[v] # NULL => W[v].listener = l
    BY <1>8, <2>2
  <2>6. g = Heap(h.listeners, [h.listener EXCEPT ![l] = e], W, h.listener_id, h.rules)
    BY <1>5, <2>2
  <2>7. e.rule = h.listener[l].rule
    BY <1>3, <1>5
  <2> QED BY <1>2, <1>7, <2>1, <2>3, <2>4, <2>5, <2>6, <2>7, Rearranged
<1>10. e # NULL
  BY RecordsAssumption
<1>11. ASSUME NEW k \in Id, h.listener[k] # NULL
       PROVE  /\ g.listener[k] # NULL
              /\ g.listener[k].rule = h.listener[k].rule /\ g.listener[k].lock = h.listener[k].lock
              /\ g.listener[k].name_watch = h.listener[k].name_watch
              /\ g.listener[k].owner = h.listener[k].owner
              /\ \A v \in Id \ {w} : Contains(g.listener[k].callbacks, v)
                                      <=> Contains(h.listener[k].callbacks, v)
              /\ k # l => g.listener[k] = h.listener[k]
  BY <1>3, <1>5, <1>6, <1>8, <1>10, <1>11
<1>12. \A k \in Id : g.listener[k] # NULL => h.listener[k] # NULL
  BY <1>2, <1>8
<1>13. Kinds(g)
  <2>1. ASSUME NEW v \in Live(g)
        PROVE  /\ g.watch[v].type = "signal" <=> g.listener[g.watch[v].listener].rule.argument = NULL
               /\ g.watch[v].check # NULL => g.watch[v].type = "service"
    <3>1. v \in Live(h) /\ v # w /\ g.watch[v] = h.watch[v]
      BY <1>8 DEF Live
    <3>2. h.watch[v].listener \in Id /\ h.listener[h.watch[v].listener] # NULL
      BY <1>1, <3>1, HeapParts DEF HeapOK, Lists, Callback, Live
    <3> QED BY <1>11, <3>1, <3>2 DEF HeapOK, Kinds
  <2>2. ASSUME NEW k \in Id, g.listener[k] # NULL, g.listener[k].name_watch # 0
        PROVE  /\ g.listener[k].rule.argument = NULL
               /\ g.watch[g.listener[k].name_watch] # NULL => g.watch[g.listener[k].name_watch].type = "name"
    <3>1. g.listener[k].name_watch \in Id
      BY <1>9, <2>2, HeapParts, ListenerParts DEF Lists
    <3> QED BY <1>8, <1>11, <1>12, <2>2, <3>1 DEF HeapOK, Kinds
  <2> QED BY <2>1, <2>2 DEF Kinds
<1>14. Fresh(g)
  <2>1. \A i \in Id : i > g.listener_id => g.listener[i] = NULL /\ g.watch[i] = NULL
    BY <1>2, <1>8 DEF HeapOK, Fresh
  <2>2. \A k \in Id : g.listener[k] # NULL => g.listener[k].name_watch <= g.listener_id
    BY <1>8, <1>11, <1>12 DEF HeapOK, Fresh
  <2> QED BY <2>1, <2>2 DEF Fresh
<1>15. Locks(g, c)
  BY <1>11, <1>12 DEF HeapOK, Locks
<1>16. Tidy(g, D \cup {l})
  BY <1>8, <1>12 DEF HeapOK, Tidy
<1>17. Evolves(h, g)
  <2>1. h.listener_id <= g.listener_id
    BY <1>1, <1>8, HeapParts
  <2> QED BY <1>8, <1>11, <1>12, <2>1 DEF Evolves
<1>18. Prunes(h, g)
  BY <1>8 DEF Prunes
<1> QED BY <1>2, <1>8, <1>9, <1>11, <1>13, <1>14, <1>15, <1>16, <1>17, <1>18 DEF HeapOK

(* The ids and the rules in use are finitely many: they can be counted.      *)
LEMMA FiniteIds ==
  ASSUME NEW S, S \subseteq Id
  PROVE  IsFiniteSet(S) /\ Cardinality(S) \in Nat
<1>1. MaxId \in Nat
  BY WatchAssumption
<1>2. IsFiniteSet(Id)
  BY <1>1, FS_Interval DEF Id
<1> QED BY <1>2, FS_Subset, FS_CardinalityType

(* A listener without watches is freed with its rule.                        *)
LEMMA UnlistenKeeps ==
  ASSUME NEW h, NEW c, NEW D, HeapOK(h, c, D), NEW l \in Id, h.listener[l] # NULL,
         h.listener[l].callbacks = <<>>, ~h.listener[l].lock,
         NEW g, g = Unlisten(h, l)
  PROVE  /\ HeapOK(g, c, D \ {l}) /\ Evolves(h, g)
         /\ g.watch = h.watch /\ g.listener_id = h.listener_id
         /\ \A k \in Id \ {l} : g.listener[k] = h.listener[k]
<1>1. h \in HeapType
  BY DEF HeapOK, Lists
<1>2. PICK f \in Listener : f = h.listener[l]
  BY <1>1, HeapParts
<1>3. g = Heap(RemoveFirst(h.listeners, l), [h.listener EXCEPT ![l] = NULL], h.watch,
               h.listener_id, [h.rules EXCEPT ![f.rule] = @ - 1])
  BY <1>1, <1>2, UnlistenEffect
<1>4. f.rule \in RuleInUse
  BY ListenerParts
<1>5. /\ g.listeners = RemoveFirst(h.listeners, l) /\ g.watch = h.watch
      /\ g.listener_id = h.listener_id
      /\ g.listener[l] = NULL /\ \A k \in Id \ {l} : g.listener[k] = h.listener[k]
      /\ g.rules = [h.rules EXCEPT ![f.rule] = @ - 1]
  BY <1>1, <1>3, HeapParts DEF Heap
<1>6. /\ g.listeners \in Seq(Id) /\ IsInjective(g.listeners)
      /\ \A k : Contains(g.listeners, k) <=> Contains(h.listeners, k) /\ k # l
      /\ \A x, y : Before(g.listeners, x, y) <=> Before(h.listeners, x, y) /\ x # l /\ y # l
  BY <1>1, <1>5, HeapParts, Removal DEF HeapOK, Lists
<1>7. \A w \in Id : h.watch[w] # NULL => h.watch[w].listener # l
  <2>1. \A w \in Id : ~Has(f, w)
    BY <1>2 DEF HeapOK, Lists, Sound, Has, Contains
  <2> QED BY <1>2, <2>1 DEF HeapOK, Lists
<1>8. \A r \in RuleInUse : g.rules[r] = Cardinality(With(g, r)) /\ g.rules[r] \in 0 .. MaxRules
  <2> SUFFICES ASSUME NEW r \in RuleInUse
               PROVE  g.rules[r] = Cardinality(With(g, r)) /\ g.rules[r] \in 0 .. MaxRules
    OBVIOUS
  <2>1. h.rules[r] \in 0 .. MaxRules /\ h.rules[r] = Cardinality(With(h, r)) /\ MaxRules \in Nat
    BY <1>1, HeapParts, WatchAssumption DEF HeapOK, Counted
  <2>2. CASE r # f.rule
    <3>1. With(g, r) = With(h, r)
      BY <1>2, <1>5, <2>2 DEF With
    <3>2. g.rules[r] = h.rules[r]
      BY <1>1, <1>5, <2>2, HeapParts
    <3> QED BY <2>1, <3>1, <3>2
  <2>3. CASE r = f.rule
    <3>1. With(g, r) = With(h, r) \ {l} /\ l \in With(h, r)
      BY <1>2, <1>5, <2>3 DEF With
    <3>2. IsFiniteSet(With(h, r)) /\ Cardinality(With(h, r)) \in Nat /\ Cardinality(With(g, r)) \in Nat
      BY FiniteIds DEF With
    <3>3. Cardinality(With(g, r)) = Cardinality(With(h, r)) - 1
      BY <3>1, <3>2, FS_RemoveElement
    <3>4. g.rules[r] = h.rules[r] - 1
      BY <1>1, <1>5, <2>3, HeapParts
    <3> QED BY <2>1, <3>2, <3>3, <3>4
  <2> QED BY <2>2, <2>3
<1>9. g \in HeapType
  <2>1. PICK L \in [Id -> Listener \cup {NULL}] : L = [h.listener EXCEPT ![l] = NULL]
    BY <1>1, HeapParts
  <2>2. PICK R \in [RuleInUse -> 0 .. MaxRules] : R = [h.rules EXCEPT ![f.rule] = @ - 1]
    BY <1>1, <1>5, <1>8, HeapParts
  <2>3. g = Heap(g.listeners, L, h.watch, h.listener_id, R)
    BY <1>3, <1>5, <2>1, <2>2
  <2>4. h.watch \in [Id -> Callback \cup {NULL}] /\ h.listener_id \in 0 .. MaxId
    BY <1>1, HeapParts
  <2>5. Heap(g.listeners, L, h.watch, h.listener_id, R) \in HeapType
    BY <1>6, <2>4, HeapTyped
  <2> QED BY <2>3, <2>5
<1>10. Lists(g)
  <2>1. \A k \in Id : g.listener[k] # NULL <=> Contains(g.listeners, k)
    BY <1>5, <1>6 DEF HeapOK, Lists
  <2>2. ASSUME NEW k \in Id, g.listener[k] # NULL
        PROVE  /\ Sound(g.listener[k])
               /\ \A w \in Id : Has(g.listener[k], w) <=> g.watch[w] # NULL /\ g.watch[w].listener = k
    BY <1>5, <2>2 DEF HeapOK, Lists
  <2>3. \A w \in Live(g) : g.listener[g.watch[w].listener] # NULL
    <3> SUFFICES ASSUME NEW w \in Id, h.watch[w] # NULL PROVE g.listener[h.watch[w].listener] # NULL
      BY <1>5 DEF Live
    <3>1. h.watch[w].listener \in Id
      BY <1>1, HeapParts DEF Callback
    <3> QED BY <1>5, <1>7, <3>1 DEF HeapOK, Lists, Live
  <2> QED BY <1>6, <1>9, <2>1, <2>2, <2>3 DEF Lists
<1>11. Kinds(g)
  <2>1. ASSUME NEW v \in Live(g)
        PROVE  /\ g.watch[v].type = "signal" <=> g.listener[g.watch[v].listener].rule.argument = NULL
               /\ g.watch[v].check # NULL => g.watch[v].type = "service"
    <3>1. v \in Live(h) /\ v \in Id /\ h.watch[v].listener \in Id
      BY <1>1, <1>5, HeapParts DEF Live, Callback
    <3>2. h.watch[v].listener # l
      BY <1>7, <3>1 DEF Live
    <3> QED BY <1>5, <3>1, <3>2 DEF HeapOK, Kinds
  <2>2. ASSUME NEW k \in Id, g.listener[k] # NULL, g.listener[k].name_watch # 0
        PROVE  /\ g.listener[k].rule.argument = NULL
               /\ g.watch[g.listener[k].name_watch] # NULL => g.watch[g.listener[k].name_watch].type = "name"
    BY <1>5, <2>2 DEF HeapOK, Kinds
  <2> QED BY <2>1, <2>2 DEF Kinds
<1>12. Fresh(g)
  BY <1>5 DEF HeapOK, Fresh
<1>13. Locks(g, c)
  BY <1>5 DEF HeapOK, Locks
<1>14. Tidy(g, D \ {l})
  BY <1>5 DEF HeapOK, Tidy
<1>15. Evolves(h, g)
  <2>1. h.listener_id <= g.listener_id
    BY <1>1, <1>5, HeapParts
  <2>2. \A k \in Id : g.listener[k] # NULL => k # l /\ g.listener[k] = h.listener[k]
    BY <1>5
  <2> QED BY <1>5, <1>6, <2>1, <2>2 DEF Evolves
<1> QED BY <1>5, <1>8, <1>10, <1>11, <1>12, <1>13, <1>14, <1>15 DEF HeapOK, Counted

(* A watch added to a listener, which may be a new one without watches yet.  *)
Joined(h, g, id, l, type) ==
  /\ g.listeners = h.listeners /\ g.listener_id = id
  /\ g.watch[id] # NULL /\ g.watch[id].type = type /\ g.watch[id].listener = l
  /\ g.watch[id].check = NULL
  /\ \A w \in Id \ {id} : g.watch[w] = h.watch[w]
  /\ \A k \in Id : g.listener[k] = NULL <=> h.listener[k] = NULL
  /\ \A k \in Id : h.listener[k] # NULL =>
       /\ g.listener[k].rule = h.listener[k].rule
       /\ g.listener[k].owner = h.listener[k].owner
       /\ \A w \in Id \ {id} : Contains(g.listener[k].callbacks, w)
                                <=> Contains(h.listener[k].callbacks, w)

(* A watch joins a listener, at the end of the list that is not walked.      *)
LEMMA HookKeeps ==
  ASSUME NEW h, NEW c, NEW D, NEW id \in Id, NEW l \in Id, NEW type \in CallbackType,
         Lists(h), Counted(h), Kinds(h), Locks(h, c), Tidy(h, D \cup {l}),
         id = h.listener_id + 1, h.watch[id] = NULL, h.listener[l] # NULL, l <= id,
         \A i \in Id : i > id => h.listener[i] = NULL /\ h.watch[i] = NULL,
         \A k \in Id : h.listener[k] # NULL => h.listener[k].name_watch <= h.listener_id,
         type = "signal" <=> h.listener[l].rule.argument = NULL,
         NEW g, g = Hooked(h, id, l, type)
  PROVE  HeapOK(g, c, D) /\ Joined(h, g, id, l, type)
<1>1. h \in HeapType
  BY DEF Lists
<1>2. PICK f \in Listener : f = h.listener[l]
  BY <1>1, HeapParts
<1>3. Sound(f)
  BY <1>2 DEF Lists
<1>4. PICK e \in Listener, b \in Callback :
        /\ g = Heap(h.listeners, [h.listener EXCEPT ![l] = e], [h.watch EXCEPT ![id] = b], id, h.rules)
        /\ b.type = type /\ b.listener = l /\ b.check = NULL
        /\ e.rule = f.rule /\ e.owner = f.owner /\ e.lock = f.lock /\ e.name_watch = f.name_watch
        /\ f.lock => e.callbacks = f.callbacks /\ e.processed = Append(f.processed, id)
        /\ ~f.lock => e.callbacks = Append(f.callbacks, id) /\ e.processed = f.processed
  <2>1. \E e \in Listener, b \in Callback :
           /\ Hooked(h, id, l, type)
                = Heap(h.listeners, [h.listener EXCEPT ![l] = e], [h.watch EXCEPT ![id] = b], id, h.rules)
           /\ Joins(f, e, b, id, l, type)
    BY <1>1, <1>2, HookedEffect, Zenon
  <2> QED BY <2>1 DEF Joins
<1>5. e # NULL /\ b # NULL
  BY RecordsAssumption
<1>6. ~Has(f, id)
  BY <1>2 DEF Lists
<1>7. /\ IsInjective(e.callbacks) /\ IsInjective(e.processed)
      /\ \A x : Contains(e.callbacks, x) <=> Contains(f.callbacks, x) \/ (x = id /\ ~f.lock)
      /\ \A x : Contains(e.processed, x) <=> Contains(f.processed, x) \/ (x = id /\ f.lock)
      /\ ~f.lock => e.callbacks # <<>>
  <2>1. f.callbacks \in Seq(Id) /\ f.processed \in Seq(Id) /\ f.lock \in BOOLEAN
    BY ListenerParts
  <2>2. IsInjective(f.callbacks) /\ IsInjective(f.processed)
    BY <1>3 DEF Sound
  <2>3. ~Contains(f.callbacks, id) /\ ~Contains(f.processed, id)
    BY <1>6 DEF Has
  <2>4. CASE f.lock
    <3>1. e.callbacks = f.callbacks /\ e.processed = Append(f.processed, id)
      BY <1>4, <2>4
    <3> QED BY <2>1, <2>2, <2>3, <2>4, <3>1, Addition
  <2>5. CASE ~f.lock
    <3>1. e.callbacks = Append(f.callbacks, id) /\ e.processed = f.processed
      BY <1>4, <2>5
    <3> QED BY <2>1, <2>2, <2>3, <2>5, <3>1, Addition
  <2> QED BY <2>4, <2>5
<1>8. Sound(e)
  BY <1>3, <1>4, <1>6, <1>7 DEF Sound, Has
<1>9. /\ g.listeners = h.listeners /\ g.listener = [h.listener EXCEPT ![l] = e]
      /\ g.watch = [h.watch EXCEPT ![id] = b] /\ g.listener_id = id
      /\ g.listener[l] = e /\ \A k \in Id \ {l} : g.listener[k] = h.listener[k]
      /\ g.watch[id] = b /\ \A v \in Id \ {id} : g.watch[v] = h.watch[v]
  BY <1>1, <1>2, <1>4, HeapParts DEF Heap
<1>10. Lists(g) /\ Counted(g)
  <2>1. PICK W \in [Id -> Callback \cup {NULL}] : W = [h.watch EXCEPT ![id] = b]
    BY <1>1, HeapParts
  <2>2. id \in 0 .. MaxId
    BY DEF Id
  <2>3. ASSUME NEW v \in Id PROVE Has(e, v) <=> W[v] # NULL /\ W[v].listener = l
    <3>1. Has(f, v) <=> h.watch[v] # NULL /\ h.watch[v].listener = l
      BY <1>2 DEF Lists
    <3>2. f.lock \in BOOLEAN
      BY ListenerParts
    <3> QED BY <1>4, <1>5, <1>7, <1>9, <2>1, <3>1, <3>2 DEF Has
  <2>4. \A v \in Id : \/ W[v] = h.watch[v]
                     \/ /\ h.watch[v] # NULL => h.watch[v].listener = l
                        /\ W[v] # NULL => W[v].listener = l
    BY <1>4, <1>9, <2>1
  <2>5. g = Heap(h.listeners, [h.listener EXCEPT ![l] = e], W, id, h.rules)
    BY <1>4, <2>1
  <2>6. e.rule = h.listener[l].rule
    BY <1>2, <1>4
  <2> QED BY <1>8, <2>2, <2>3, <2>4, <2>5, <2>6, Rearranged
<1>11. ASSUME NEW k \in Id, h.listener[k] # NULL
       PROVE  /\ g.listener[k] # NULL
              /\ g.listener[k].rule = h.listener[k].rule /\ g.listener[k].lock = h.listener[k].lock
              /\ g.listener[k].name_watch = h.listener[k].name_watch
              /\ g.listener[k].owner = h.listener[k].owner
              /\ \A v \in Id \ {id} : Contains(g.listener[k].callbacks, v)
                                      <=> Contains(h.listener[k].callbacks, v)
  BY <1>2, <1>4, <1>5, <1>7, <1>9, <1>11
<1>12. \A k \in Id : g.listener[k] # NULL => h.listener[k] # NULL
  BY <1>9
<1>13. Kinds(g)
  <2>1. ASSUME NEW v \in Live(g)
        PROVE  /\ g.watch[v].type = "signal" <=> g.listener[g.watch[v].listener].rule.argument = NULL
               /\ g.watch[v].check # NULL => g.watch[v].type = "service"
    <3>1. CASE v = id
      <4>1. g.watch[v] = b /\ g.listener[b.listener] = e
        BY <1>4, <1>9, <3>1
      <4>2. b.type = "signal" <=> e.rule.argument = NULL
        BY <1>2, <1>4
      <4>3. b.check = NULL
        BY <1>4
      <4> QED BY <4>1, <4>2, <4>3
    <3>2. CASE v # id
      <4>1. v \in Live(h) /\ g.watch[v] = h.watch[v]
        BY <1>9, <3>2 DEF Live
      <4>2. h.watch[v].listener \in Id /\ h.listener[h.watch[v].listener] # NULL
        BY <1>1, <4>1, HeapParts DEF Lists, Callback, Live
      <4>3. /\ h.watch[v].type = "signal" <=> h.listener[h.watch[v].listener].rule.argument = NULL
            /\ h.watch[v].check # NULL => h.watch[v].type = "service"
        BY <4>1 DEF Kinds
      <4>4. g.listener[h.watch[v].listener].rule = h.listener[h.watch[v].listener].rule
        BY <1>11, <4>2
      <4> QED BY <4>1, <4>3, <4>4
    <3> QED BY <3>1, <3>2
  <2>2. ASSUME NEW k \in Id, g.listener[k] # NULL, g.listener[k].name_watch # 0
        PROVE  /\ g.listener[k].rule.argument = NULL
               /\ g.watch[g.listener[k].name_watch] # NULL => g.watch[g.listener[k].name_watch].type = "name"
    <3>1. g.listener[k].name_watch \in Id
      BY <1>10, <2>2, HeapParts, ListenerParts DEF Lists
    <3>2. g.listener[k].name_watch <= h.listener_id
      BY <1>11, <1>12, <2>2
    <3>3. g.listener[k].name_watch # id
      <4>1. h.listener_id \in Nat
        BY <1>1, HeapParts
      <4> QED BY <3>2, <4>1
    <3>4. PICK n \in Id : n = g.listener[k].name_watch
      BY <3>1
    <3>5. h.listener[k] # NULL /\ g.listener[k].rule = h.listener[k].rule /\ h.listener[k].name_watch = n /\ n # 0
      BY <1>11, <1>12, <2>2, <3>4
    <3>6. h.listener[k].rule.argument = NULL /\ (h.watch[n] # NULL => h.watch[n].type = "name")
      BY <2>2, <3>5 DEF Kinds
    <3>7. g.watch[n] = h.watch[n]
      BY <1>9, <3>3, <3>4
    <3> QED BY ONLY <3>4, <3>5, <3>6, <3>7
  <2> QED BY <2>1, <2>2, ZenonT(60) DEF Kinds
<1>14. Fresh(g)
  <2>1. h.listener_id \in Nat /\ Id \subseteq Nat
    BY <1>1, HeapParts DEF Id
  <2>2. \A i \in Id : i > id => g.listener[i] = NULL /\ g.watch[i] = NULL
    BY <1>9, <2>1
  <2>3. ASSUME NEW k \in Id, g.listener[k] # NULL PROVE g.listener[k].name_watch <= id
    <3>1. g.listener[k].name_watch <= h.listener_id /\ g.listener[k].name_watch \in Id \cup {0}
      BY <1>10, <1>11, <1>12, <2>3, HeapParts, ListenerParts DEF Lists
    <3>2. PICK n \in Id \cup {0} : n = g.listener[k].name_watch /\ n <= h.listener_id
      BY <3>1
    <3>3. n <= id
      BY <2>1, <3>2
    <3> QED BY <3>2, <3>3
  <2> QED BY <1>9, <2>2, <2>3 DEF Fresh
<1>15. Locks(g, c)
  BY <1>11, <1>12 DEF Locks
<1>16. Tidy(g, D)
  <2> SUFFICES ASSUME NEW k \in Id, g.listener[k] # NULL, g.listener[k].callbacks = <<>>,
                      ~g.listener[k].lock
               PROVE  k \in D
    BY DEF Tidy
  <2>1. k # l
    BY <1>4, <1>7, <1>9
  <2> QED BY <1>9, <2>1 DEF Tidy
<1> QED BY <1>4, <1>5, <1>9, <1>10, <1>11, <1>12, <1>13, <1>14, <1>15, <1>16 DEF HeapOK, Joined

(* Of finitely many senders there are finitely many rules.                   *)
LEMMA FiniteRules == IsFiniteSet(RuleInUse)
<1> DEFINE S == {ServiceRule(n) : n \in Sender}
           T == {SignalRule(r[1], r[2]) : r \in SignalRules}
<1>1. IsFiniteSet(S)
  <2> DEFINE f == [n \in Sender |-> ServiceRule(n)]
  <2>1. f \in Surjection(Sender, S)
    BY DEF Surjection
  <2>2. IsFiniteSet(Sender)
    BY WatchAssumption DEF Sender
  <2> HIDE DEF f, S
  <2> QED BY <2>1, <2>2, FS_Surjection
<1>2. IsFiniteSet(T)
  <2> DEFINE f == [r \in SignalRules |-> SignalRule(r[1], r[2])]
  <2>1. f \in Surjection(SignalRules, T)
    BY DEF Surjection
  <2>2. IsFiniteSet(SignalRules)
    BY WatchAssumption
  <2> HIDE DEF f, T
  <2> QED BY <2>1, <2>2, FS_Surjection
<1>3. RuleInUse = S \cup T
  BY DEF RuleInUse
<1> HIDE DEF S, T
<1> QED BY <1>1, <1>2, <1>3, FS_Union

(* The bus accepts a rule only while it holds fewer than its limit of them.  *)
LEMMA RuleFits ==
  ASSUME NEW h \in HeapType, NEW rule \in RuleInUse, RulesHeld(h) < MaxRules
  PROVE  h.rules[rule] < MaxRules
<1>1. MaxRules \in Nat /\ h.rules[rule] \in 0 .. MaxRules
  BY HeapParts, WatchAssumption
<1> SUFFICES ASSUME h.rules[rule] = MaxRules PROVE FALSE
  BY <1>1
<1> DEFINE C == {c \in RuleInUse \X (1 .. MaxRules) : c[2] <= h.rules[c[1]]}
           S == {rule} \X (1 .. MaxRules)
<1>2. IsFiniteSet(1 .. MaxRules) /\ Cardinality(1 .. MaxRules) = MaxRules
  BY <1>1, FS_Interval
<1>3. IsFiniteSet(RuleInUse \X (1 .. MaxRules))
  BY <1>2, FiniteRules, FS_Product
<1>4. IsFiniteSet(C) /\ Cardinality(C) \in Nat
  BY <1>3, FS_Subset, FS_CardinalityType
<1>5. IsFiniteSet(S) /\ Cardinality(S) = Cardinality({rule}) * Cardinality(1 .. MaxRules)
  BY <1>2, FS_Singleton, FS_Product
<1>6. Cardinality(S) = MaxRules
  <2>1. Cardinality({rule}) = 1
    BY FS_Singleton
  <2> QED BY <1>1, <1>2, <1>5, <2>1
<1>7. S \in SUBSET C
  <2> SUFFICES ASSUME NEW i \in 1 .. MaxRules PROVE <<rule, i>> \in C
    OBVIOUS
  <2>1. i <= h.rules[rule]
    BY <1>1
  <2> QED BY <2>1
<1>8. Cardinality(C) < MaxRules
  BY DEF RulesHeld
<1> HIDE DEF C, S
<1>9. Cardinality(S) <= Cardinality(C)
  BY <1>4, <1>7, FS_Subset
<1> QED BY <1>1, <1>4, <1>6, <1>8, <1>9

(* filter_data_find_match returns the position of a listener with the rule.  *)
LEMMA FindMatch ==
  ASSUME NEW h \in HeapType, NEW rule, NEW found, found = filter_data_find_match(h, rule), found # 0
  PROVE  /\ found \in 1 .. Len(h.listeners)
         /\ h.listeners[found] \in Id /\ Contains(h.listeners, h.listeners[found])
         /\ h.listener[h.listeners[found]].rule = rule
<1> DEFINE I == {i \in 1 .. Len(h.listeners) : /\ h.listener[h.listeners[i]].rule = rule
                                               /\ h.listener[h.listeners[i]].owner = rule.owner}
<1>1. found = IF I # {} THEN Min(I) ELSE 0
  BY DEF filter_data_find_match, SelectInSeq
<1>2. I \in SUBSET Nat /\ I # {}
  BY <1>1, SMTT(30)
<1>3. found \in I
  BY <1>1, <1>2, Minimum
<1>4. h.listeners \in Seq(Id)
  BY HeapParts
<1> QED BY <1>3, <1>4 DEF Contains

(* A new listener, to which the watch is then added.                         *)
Opened(h, g, id, rule) ==
  /\ g.listener_id = h.listener_id /\ g.watch = h.watch
  /\ g.listener[id] # NULL /\ g.listener[id].rule = rule /\ g.listener[id].name_watch = 0
  /\ \A k \in Id \ {id} : g.listener[k] = h.listener[k]
  /\ \A x, y \in Id \ {id} : Before(g.listeners, x, y) <=> Before(h.listeners, x, y)

(* A listener is opened for its first watch.                                 *)
LEMMA ListeningKeeps ==
  ASSUME NEW h, NEW c, NEW D, HeapOK(h, c, D), NEW id \in Id, id = h.listener_id + 1,
         NEW rule \in RuleInUse, h.rules[rule] < MaxRules,
         NEW g, g = Listening(h, id, rule)
  PROVE  /\ Lists(g) /\ Counted(g) /\ Kinds(g) /\ Locks(g, c) /\ Tidy(g, D \cup {id})
         /\ Opened(h, g, id, rule)
<1>1. h \in HeapType /\ h.listener_id \in Nat
  BY HeapParts DEF HeapOK, Lists
<1>2. PICK e \in Listener :
        /\ g = Heap(Append(h.listeners, id), [h.listener EXCEPT ![id] = e], h.watch, h.listener_id,
                    [h.rules EXCEPT ![rule] = @ + 1])
        /\ e.rule = rule /\ e.owner = rule.owner /\ e.callbacks = <<>> /\ e.processed = <<>> /\ ~e.lock /\ e.name_watch = 0
  <2>1. \E e \in Listener : Opens(h, Listening(h, id, rule), id, rule, e)
    BY <1>1, ListeningEffect, Zenon
  <2> QED BY <2>1 DEF Opens
<1>3. e # NULL
  BY RecordsAssumption
<1>4. /\ g.listeners = Append(h.listeners, id) /\ g.watch = h.watch /\ g.listener_id = h.listener_id
      /\ g.listener[id] = e /\ \A k \in Id \ {id} : g.listener[k] = h.listener[k]
      /\ g.rules = [h.rules EXCEPT ![rule] = @ + 1]
  <2>1. h.listener \in [Id -> Listener \cup {NULL}]
    BY <1>1, HeapParts
  <2> QED BY <1>2, <2>1 DEF Heap
<1>5. h.listener[id] = NULL /\ h.watch[id] = NULL
  <2>1. id > h.listener_id
    BY <1>1
  <2> QED BY <2>1 DEF HeapOK, Fresh
<1>6. ~Contains(h.listeners, id)
  BY <1>5 DEF HeapOK, Lists
<1>7. /\ g.listeners \in Seq(Id) /\ IsInjective(g.listeners)
      /\ \A k : Contains(g.listeners, k) <=> Contains(h.listeners, k) \/ k = id
      /\ \A x, y : Before(g.listeners, x, y)
                     <=> Before(h.listeners, x, y) \/ (Contains(h.listeners, x) /\ y = id)
  <2>1. h.listeners \in Seq(Id) /\ IsInjective(h.listeners)
    BY <1>1, HeapParts DEF HeapOK, Lists
  <2>2. PICK a : a = Append(h.listeners, id)
    OBVIOUS
  <2>3. /\ a \in Seq(Id) /\ IsInjective(a)
        /\ \A k : Contains(a, k) <=> Contains(h.listeners, k) \/ k = id
        /\ \A x, y : Before(a, x, y) <=> Before(h.listeners, x, y) \/ (Contains(h.listeners, x) /\ y = id)
    BY <1>6, <2>1, <2>2, Addition
  <2> QED BY <1>4, <2>2, <2>3, Zenon
<1>8. \A w \in Id : h.watch[w] # NULL => h.watch[w].listener \in Id \ {id}
  <2> SUFFICES ASSUME NEW w \in Id, h.watch[w] # NULL PROVE h.watch[w].listener \in Id \ {id}
    OBVIOUS
  <2>1. h.watch[w].listener \in Id
    BY <1>1, HeapParts DEF Callback
  <2>2. h.listener[h.watch[w].listener] # NULL
    BY DEF HeapOK, Lists, Live
  <2> QED BY <1>5, <2>1, <2>2
<1>9. \A r \in RuleInUse : g.rules[r] = Cardinality(With(g, r)) /\ g.rules[r] \in 0 .. MaxRules
  <2> SUFFICES ASSUME NEW r \in RuleInUse
               PROVE  g.rules[r] = Cardinality(With(g, r)) /\ g.rules[r] \in 0 .. MaxRules
    OBVIOUS
  <2>1. h.rules[r] \in 0 .. MaxRules /\ h.rules[r] = Cardinality(With(h, r)) /\ MaxRules \in Nat
    BY <1>1, HeapParts, WatchAssumption DEF HeapOK, Counted
  <2>2. CASE r # rule
    <3>1. With(g, r) = With(h, r)
      BY <1>2, <1>4, <1>5, <2>2, ZenonT(60) DEF With
    <3>2. g.rules[r] = h.rules[r]
      BY <1>1, <1>4, <2>2, HeapParts
    <3> QED BY <2>1, <3>1, <3>2
  <2>3. CASE r = rule
    <3>1. With(g, r) = With(h, r) \cup {id} /\ id \notin With(h, r)
      BY <1>2, <1>3, <1>4, <1>5, <2>3, ZenonT(60) DEF With
    <3>2. IsFiniteSet(With(h, r)) /\ Cardinality(With(h, r)) \in Nat
      BY FiniteIds DEF With
    <3>3. Cardinality(With(g, r)) = Cardinality(With(h, r)) + 1
      BY <3>1, <3>2, FS_AddElement
    <3>4. g.rules[r] = h.rules[r] + 1
      BY <1>1, <1>4, <2>3, HeapParts
    <3> QED BY <2>1, <2>3, <3>2, <3>3, <3>4
  <2> QED BY <2>2, <2>3
<1>10. g \in HeapType
  <2>1. PICK L \in [Id -> Listener \cup {NULL}] : L = [h.listener EXCEPT ![id] = e]
    BY <1>1, HeapParts
  <2>2. PICK R \in [RuleInUse -> 0 .. MaxRules] : R = [h.rules EXCEPT ![rule] = @ + 1]
    BY <1>1, <1>4, <1>9, HeapParts
  <2>3. g = Heap(g.listeners, L, h.watch, h.listener_id, R)
    BY <1>2, <1>4, <2>1, <2>2
  <2>4. h.watch \in [Id -> Callback \cup {NULL}] /\ h.listener_id \in 0 .. MaxId
    BY <1>1, HeapParts
  <2>5. Heap(g.listeners, L, h.watch, h.listener_id, R) \in HeapType
    BY <1>7, <2>4, HeapTyped
  <2> QED BY <2>3, <2>5
<1>11. Sound(e) /\ \A w \in Id : ~Has(e, w)
  BY <1>2 DEF Sound, Has, Contains, IsInjective
<1>12. Lists(g)
  <2>1. \A k \in Id : g.listener[k] # NULL <=> Contains(g.listeners, k)
    BY <1>3, <1>4, <1>7 DEF HeapOK, Lists
  <2>2. ASSUME NEW k \in Id, g.listener[k] # NULL
        PROVE  /\ Sound(g.listener[k])
               /\ \A w \in Id : Has(g.listener[k], w) <=> g.watch[w] # NULL /\ g.watch[w].listener = k
    <3>1. CASE k = id
      BY <1>4, <1>8, <1>11, <3>1
    <3>2. CASE k # id
      BY <1>4, <2>2, <3>2 DEF HeapOK, Lists
    <3> QED BY <3>1, <3>2
  <2>3. \A w \in Live(g) : g.listener[g.watch[w].listener] # NULL
    <3> SUFFICES ASSUME NEW w \in Id, h.watch[w] # NULL PROVE g.listener[h.watch[w].listener] # NULL
      BY <1>4 DEF Live
    <3>1. h.listener[h.watch[w].listener] # NULL
      BY DEF HeapOK, Lists, Live
    <3> QED BY <1>4, <1>8, <3>1
  <2> QED BY <1>7, <1>10, <2>1, <2>2, <2>3 DEF Lists
<1>13. Kinds(g)
  <2>1. ASSUME NEW v \in Live(g)
        PROVE  /\ g.watch[v].type = "signal" <=> g.listener[g.watch[v].listener].rule.argument = NULL
               /\ g.watch[v].check # NULL => g.watch[v].type = "service"
    <3>1. v \in Live(h) /\ h.watch[v].listener \in Id \ {id}
      BY <1>4, <1>8, <2>1 DEF Live
    <3>2. /\ h.watch[v].type = "signal" <=> h.listener[h.watch[v].listener].rule.argument = NULL
          /\ h.watch[v].check # NULL => h.watch[v].type = "service"
      BY <3>1 DEF HeapOK, Kinds
    <3> QED BY <1>4, <3>1, <3>2
  <2>2. ASSUME NEW k \in Id, g.listener[k] # NULL, g.listener[k].name_watch # 0
        PROVE  /\ g.listener[k].rule.argument = NULL
               /\ g.watch[g.listener[k].name_watch] # NULL => g.watch[g.listener[k].name_watch].type = "name"
    <3>1. k # id
      BY <1>2, <1>4, <2>2
    <3> QED BY <1>4, <2>2, <3>1 DEF HeapOK, Kinds
  <2> QED BY <2>1, <2>2 DEF Kinds
<1>14. Locks(g, c)
  BY <1>2, <1>4, <1>5 DEF HeapOK, Locks
<1>15. Tidy(g, D \cup {id})
  BY <1>4 DEF HeapOK, Tidy
<1> QED BY <1>2, <1>3, <1>4, <1>7, <1>9, <1>12, <1>13, <1>14, <1>15 DEF Counted, Opened

(* filter_data_add_callback: refused, or a watch of that type on that rule.  *)
Added(h, g, rule, type) ==
  /\ Evolves(h, g)
  /\ g.listener_id = h.listener_id + 1
  /\ g.watch[g.listener_id] # NULL /\ g.watch[g.listener_id].type = type
  /\ \A w \in Id : w <= h.listener_id => g.watch[w] = h.watch[w]
  /\ \A k \in Id : h.listener[k] # NULL => g.listener[k] # NULL
  /\ g.watch[g.listener_id].listener \in Id
  /\ g.listener[g.watch[g.listener_id].listener] # NULL
  /\ g.listener[g.watch[g.listener_id].listener].rule = rule

(* Either way the new watch is on its rule, and all others stay.             *)
LEMMA AddKeeps ==
  ASSUME NEW h, NEW c, NEW D, HeapOK(h, c, D), h.listener_id < MaxId,
         NEW rule \in RuleInUse, NEW type \in CallbackType, type = "signal" <=> rule.argument = NULL,
         NEW g, g = AddCallback(h, rule, type)
  PROVE  HeapOK(g, c, D) /\ (g = h \/ Added(h, g, rule, type))
<1>1. h \in HeapType /\ h.listener_id \in Nat /\ MaxId \in Nat
  BY HeapParts, WatchAssumption DEF HeapOK, Lists
<1>2. PICK id \in Id : id = h.listener_id + 1
  BY <1>1 DEF Id
<1>3. /\ \A i \in Id : i >= id => h.listener[i] = NULL /\ h.watch[i] = NULL
      /\ \A k \in Id : h.listener[k] # NULL => h.listener[k].name_watch <= h.listener_id
  <2>1. \A i \in Id : i >= id => i > h.listener_id
    BY <1>1, <1>2 DEF Id
  <2> QED BY <2>1 DEF HeapOK, Fresh
<1>4. \A i \in Id : i <= h.listener_id => i # id
  BY <1>1, <1>2
<1>5. PICK found : found = filter_data_find_match(h, rule)
  OBVIOUS
<1>6. CASE found # 0
  <2>1. PICK l \in Id : /\ l = h.listeners[found] /\ Contains(h.listeners, l)
                        /\ h.listener[l].rule = rule
    BY <1>1, <1>5, <1>6, FindMatch
  <2>2. g = Hooked(h, id, l, type)
    BY <1>2, <1>5, <1>6, <2>1 DEF AddCallback
  <2>3. h.listener[l] # NULL
    BY <2>1 DEF HeapOK, Lists
  <2>4. l <= id
    <3>1. l \in Nat /\ id \in Nat
      BY DEF Id
    <3> QED BY <1>3, <2>3, <3>1
  <2>5. Tidy(h, D \cup {l})
    BY DEF HeapOK, Tidy
  <2>6. Lists(h) /\ Counted(h) /\ Kinds(h) /\ Locks(h, c)
    BY DEF HeapOK
  <2>7. h.watch[id] = NULL /\ \A i \in Id : i > id => h.listener[i] = NULL /\ h.watch[i] = NULL
    <3>1. \A i \in Id : i > id => i >= id
      BY DEF Id
    <3>2. id >= id
      BY DEF Id
    <3> QED BY <1>3, <3>1, <3>2
  <2>8. type = "signal" <=> h.listener[l].rule.argument = NULL
    BY <2>1
  <2>9. HeapOK(g, c, D) /\ Joined(h, g, id, l, type)
    BY <1>2, <1>3, <2>2, <2>3, <2>4, <2>5, <2>6, <2>7, <2>8, HookKeeps, Zenon
  <2>10. Evolves(h, g)
    <3>1. h.listener_id <= g.listener_id
      BY <1>1, <1>2, <2>9 DEF Joined
    <3> QED BY <1>4, <2>9, <3>1 DEF Evolves, Joined
  <2> QED BY <1>2, <1>4, <2>1, <2>3, <2>9, <2>10 DEF Added, Joined
<1>7. CASE found = 0 /\ RulesHeld(h) < MaxRules
  <2>1. PICK h1 : h1 = Listening(h, id, rule)
    OBVIOUS
  <2>2. h.rules[rule] < MaxRules
    BY <1>1, <1>7, RuleFits
  <2>3. /\ Lists(h1) /\ Counted(h1) /\ Kinds(h1) /\ Locks(h1, c) /\ Tidy(h1, D \cup {id})
        /\ Opened(h, h1, id, rule)
    BY <1>2, <2>1, <2>2, ListeningKeeps, Zenon
  <2>4. g = Hooked(h1, id, id, type)
    BY <1>2, <1>5, <1>7, <2>1 DEF AddCallback
  <2>5. id <= id /\ \A i \in Id : i > id => i >= id /\ i # id
    BY DEF Id
  <2>6. h1.watch[id] = NULL /\ \A i \in Id : i > id => h1.listener[i] = NULL /\ h1.watch[i] = NULL
    <3>1. id >= id
      BY DEF Id
    <3> QED BY <1>3, <2>3, <2>5, <3>1 DEF Opened
  <2>7. \A k \in Id : h1.listener[k] # NULL => h1.listener[k].name_watch <= h1.listener_id
    <3> SUFFICES ASSUME NEW k \in Id, h1.listener[k] # NULL
                 PROVE  h1.listener[k].name_watch <= h1.listener_id
      OBVIOUS
    <3>1. CASE k = id
      BY <1>1, <2>3, <3>1 DEF Opened
    <3>2. CASE k # id
      BY <1>3, <2>3, <3>2 DEF Opened
    <3> QED BY <3>1, <3>2
  <2>8. id = h1.listener_id + 1 /\ (type = "signal" <=> h1.listener[id].rule.argument = NULL)
    BY <1>2, <2>3 DEF Opened
  <2>9. HeapOK(g, c, D) /\ Joined(h1, g, id, id, type)
    BY <2>3, <2>4, <2>5, <2>6, <2>7, <2>8, HookKeeps, Zenon DEF Opened
  <2>10. Evolves(h, g)
    <3>1. h.listener_id <= g.listener_id
      BY <1>1, <1>2, <2>9 DEF Joined
    <3> QED BY <1>4, <2>3, <2>9, <3>1 DEF Evolves, Joined, Opened
  <2>11. \A k \in Id : h.listener[k] # NULL => g.listener[k] # NULL
    BY <2>3, <2>9 DEF Joined, Opened
  <2>12. \A w \in Id : w <= h.listener_id => g.watch[w] = h.watch[w]
    BY <1>4, <2>3, <2>9 DEF Joined, Opened
  <2> QED BY <1>2, <2>3, <2>9, <2>10, <2>11, <2>12 DEF Added, Joined, Opened
<1>8. CASE ~(found # 0) /\ ~(found = 0 /\ RulesHeld(h) < MaxRules)
  BY <1>5, <1>8 DEF AddCallback
<1> QED BY <1>6, <1>7, <1>8

(* A listener whose lists of watches stay.                                   *)
Kin(f, e) ==
  \/ f = NULL /\ e = NULL
  \/ /\ f # NULL /\ e # NULL
     /\ e.rule = f.rule /\ (f.rule.name = NULL => e.owner = f.owner)
     /\ e.callbacks = f.callbacks /\ e.processed = f.processed /\ (f.lock => e.lock)

(* A heap whose listeners differ in the cached owners only.                  *)
LEMMA SameLists ==
  ASSUME NEW h, Lists(h), Counted(h), NEW L \in [Id -> Listener \cup {NULL}],
         \A k \in Id : Kin(h.listener[k], L[k]),
         NEW g, g = Heap(h.listeners, L, h.watch, h.listener_id, h.rules)
  PROVE  Lists(g) /\ Counted(g) /\ Evolves(h, g)
<1>1. h \in HeapType
  BY DEF Lists
<1>2. /\ g.listeners = h.listeners /\ g.listener = L /\ g.watch = h.watch
      /\ g.listener_id = h.listener_id /\ g.rules = h.rules
  BY DEF Heap
<1>3. g \in HeapType
  BY <1>1, HeapParts, HeapTyped
<1>4. ASSUME NEW k \in Id, L[k] # NULL
      PROVE  /\ h.listener[k] # NULL
             /\ L[k].rule = h.listener[k].rule
             /\ h.listener[k].rule.name = NULL => L[k].owner = h.listener[k].owner
             /\ L[k].callbacks = h.listener[k].callbacks /\ L[k].processed = h.listener[k].processed
             /\ h.listener[k].lock => L[k].lock
  BY <1>4 DEF Kin
<1>5. \A k \in Id : h.listener[k] # NULL => L[k] # NULL
  BY DEF Kin
<1>6. Lists(g)
  <2>1. \A k \in Id : g.listener[k] # NULL <=> Contains(g.listeners, k)
    BY <1>2, <1>4, <1>5 DEF Lists
  <2>2. ASSUME NEW k \in Id, L[k] # NULL
        PROVE  /\ Sound(L[k])
               /\ \A w \in Id : Has(L[k], w) <=> h.watch[w] # NULL /\ h.watch[w].listener = k
    <3>1. Sound(h.listener[k]) /\ \A w \in Id : Has(h.listener[k], w)
                                      <=> h.watch[w] # NULL /\ h.watch[w].listener = k
      BY <1>4, <2>2 DEF Lists
    <3>2. Sound(L[k])
      BY <1>4, <2>2, <3>1 DEF Sound
    <3>3. \A w \in Id : Has(L[k], w) <=> Has(h.listener[k], w)
      BY <1>4, <2>2 DEF Has
    <3> QED BY <3>1, <3>2, <3>3
  <2>3. \A w \in Live(g) : g.listener[g.watch[w].listener] # NULL
    <3> SUFFICES ASSUME NEW w \in Id, h.watch[w] # NULL PROVE L[h.watch[w].listener] # NULL
      BY <1>2 DEF Live
    <3>1. h.watch[w].listener \in Id
      BY <1>1, HeapParts DEF Callback
    <3>2. h.listener[h.watch[w].listener] # NULL
      BY DEF Lists, Live
    <3> QED BY <1>5, <3>1, <3>2
  <2>4. IsInjective(g.listeners)
    BY <1>2 DEF Lists
  <2> QED BY <1>2, <1>3, <2>1, <2>2, <2>3, <2>4 DEF Lists
<1>7. Counted(g)
  <2>1. \A r \in RuleInUse : With(g, r) = With(h, r)
    BY <1>2, <1>4, <1>5 DEF With
  <2> QED BY <1>2, <2>1 DEF Counted
<1>8. Evolves(h, g)
  <2>1. h.listener_id <= g.listener_id
    BY <1>1, <1>2, HeapParts
  <2> QED BY <1>2, <1>4, <2>1 DEF Evolves
<1> QED BY <1>6, <1>7, <1>8

(* The name cache, and whom it remembers.                                    *)
LEMMA CacheKeeps ==
  ASSUME NEW h, NEW c, NEW D, HeapOK(h, c, D),
         NEW n \in Sender, NEW new \in Unique \cup {NULL, Nobody, Garbage},
         NEW g, g = update_name_cache(h, n, new)
  PROVE  /\ HeapOK(g, c, D) /\ Evolves(h, g)
         /\ g.watch = h.watch /\ g.listeners = h.listeners /\ g.listener_id = h.listener_id
<1>1. h \in HeapType /\ Lists(h) /\ Counted(h)
  BY DEF HeapOK, Lists
<1>2. PICK L \in [Id -> Listener \cup {NULL}] :
        /\ g = Heap(h.listeners, L, h.watch, h.listener_id, h.rules)
        /\ \A k \in Id :
             \/ h.listener[k] = NULL /\ L[k] = NULL
             \/ LET e == L[k]
                    f == h.listener[k]
                IN  /\ e # NULL /\ f # NULL
                    /\ e.rule = f.rule /\ (f.rule.name = NULL => e.owner = f.owner)
                    /\ e.lock = f.lock /\ e.name_watch = f.name_watch
                    /\ e.callbacks = f.callbacks /\ e.processed = f.processed
  BY <1>1, CacheEffect
<1>3. Lists(g) /\ Counted(g) /\ Evolves(h, g)
  <2>1. \A k \in Id : Kin(h.listener[k], L[k])
    BY <1>2 DEF Kin
  <2>2. g = Heap(h.listeners, L, h.watch, h.listener_id, h.rules)
    BY <1>2
  <2> QED BY <1>1, <2>1, <2>2, SameLists
<1>4. /\ g.listeners = h.listeners /\ g.listener = L /\ g.watch = h.watch
      /\ g.listener_id = h.listener_id
  BY <1>2 DEF Heap
<1>5. ASSUME NEW k \in Id
      PROVE  /\ h.listener[k] # NULL <=> L[k] # NULL
             /\ L[k] # NULL => /\ L[k].rule = h.listener[k].rule /\ L[k].lock = h.listener[k].lock
                               /\ L[k].name_watch = h.listener[k].name_watch
                               /\ L[k].callbacks = h.listener[k].callbacks
  BY <1>2
<1>6. Kinds(g)
  <2>1. ASSUME NEW v \in Live(g)
        PROVE  /\ g.watch[v].type = "signal" <=> g.listener[g.watch[v].listener].rule.argument = NULL
               /\ g.watch[v].check # NULL => g.watch[v].type = "service"
    <3>1. v \in Live(h) /\ h.watch[v].listener \in Id /\ h.listener[h.watch[v].listener] # NULL
      BY <1>1, <1>4, HeapParts DEF Live, Lists, Callback
    <3>2. /\ h.watch[v].type = "signal" <=> h.listener[h.watch[v].listener].rule.argument = NULL
          /\ h.watch[v].check # NULL => h.watch[v].type = "service"
      BY <3>1 DEF HeapOK, Kinds
    <3>3. L[h.watch[v].listener].rule = h.listener[h.watch[v].listener].rule
      BY <1>5, <3>1
    <3> QED BY <1>4, <3>2, <3>3
  <2>2. ASSUME NEW k \in Id, g.listener[k] # NULL, g.listener[k].name_watch # 0
        PROVE  /\ g.listener[k].rule.argument = NULL
               /\ g.watch[g.listener[k].name_watch] # NULL => g.watch[g.listener[k].name_watch].type = "name"
    BY <1>4, <1>5, <2>2 DEF HeapOK, Kinds
  <2> QED BY <2>1, <2>2 DEF Kinds
<1>7. Fresh(g)
  BY <1>4, <1>5 DEF HeapOK, Fresh
<1>8. Locks(g, c)
  BY <1>4, <1>5 DEF HeapOK, Locks
<1>9. Tidy(g, D)
  BY <1>4, <1>5 DEF HeapOK, Tidy
<1> QED BY <1>3, <1>4, <1>6, <1>7, <1>8, <1>9 DEF HeapOK

(* What check_name_cache reads is an owner.                                  *)
LEMMA NameCache ==
  ASSUME NEW h, Lists(h), NEW n
  PROVE  check_name_cache(h, n) \in Unique \cup {NULL, Nobody, Garbage}
<1>1. PICK i : i = SelectInSeq(h.listeners, LAMBDA l : h.listener[l].rule.name = n)
  OBVIOUS
<1>2. CASE i = 0
  BY <1>1, <1>2 DEF check_name_cache
<1>3. CASE i # 0
  <2> DEFINE I == {j \in 1 .. Len(h.listeners) : h.listener[h.listeners[j]].rule.name = n}
  <2>1. i = IF I # {} THEN Min(I) ELSE 0
    BY <1>1 DEF SelectInSeq
  <2>2. I \in SUBSET Nat /\ I # {}
    <3>1. I \in SUBSET Nat
      OBVIOUS
    <3> HIDE DEF I
    <3>2. I # {}
      BY <1>3, <2>1
    <3> QED BY <3>1, <3>2
  <2>3. i \in I
    BY <2>1, <2>2, Minimum
  <2>4. h.listeners \in Seq(Id) /\ h.listener \in [Id -> Listener \cup {NULL}]
    BY HeapParts DEF Lists
  <2>5. PICK l \in Id : l = h.listeners[i] /\ Contains(h.listeners, l)
    BY <2>3, <2>4 DEF Contains
  <2>6. h.listener[l] \in Listener
    BY <2>4, <2>5 DEF Lists
  <2>7. check_name_cache(h, n) = h.listener[l].owner
    BY <1>1, <1>3, <2>5 DEF check_name_cache
  <2> QED BY <2>6, <2>7, ListenerParts
<1> QED BY <1>2, <1>3

(* A question to the bus begun or ended.                                     *)
Rechecked(h, g) ==
  /\ g.listener_id = h.listener_id /\ g.listener = h.listener /\ g.listeners = h.listeners
  /\ \A v \in Id : /\ g.watch[v] # NULL <=> h.watch[v] # NULL
                   /\ g.watch[v] # NULL => /\ g.watch[v].type = h.watch[v].type
                                           /\ g.watch[v].listener = h.watch[v].listener

Asked(h, g, w, check) ==
  g.watch[w].check = check /\ \A v \in Id \ {w} : g.watch[v] = h.watch[v]

(* The lists do not depend on the question.                                  *)
LEMMA CheckKeeps ==
  ASSUME NEW h, NEW c, NEW D, HeapOK(h, c, D), NEW w \in Live(h),
         NEW check \in {NULL, "asked"} \cup Unique \cup {Nobody, Garbage},
         check # NULL => h.watch[w].type = "service",
         NEW g, g = [h EXCEPT !.watch[w].check = check]
  PROVE  HeapOK(g, c, D) /\ Evolves(h, g) /\ Rechecked(h, g) /\ Asked(h, g, w, check)
<1>1. h \in HeapType /\ Lists(h) /\ Counted(h) /\ w \in Id /\ h.watch[w] # NULL
  BY DEF HeapOK, Lists, Live
<1>2. PICK b \in Callback :
        /\ g = Heap(h.listeners, h.listener, [h.watch EXCEPT ![w] = b], h.listener_id, h.rules)
        /\ b.type = h.watch[w].type /\ b.listener = h.watch[w].listener /\ b.check = check
  <2>1. \E b \in Callback :
           /\ [h EXCEPT !.watch[w].check = check]
                = Heap(h.listeners, h.listener, [h.watch EXCEPT ![w] = b], h.listener_id, h.rules)
           /\ b.type = h.watch[w].type /\ b.listener = h.watch[w].listener /\ b.check = check
    BY <1>1, CheckEffect, ZenonT(60)
  <2> QED BY <2>1
<1>3. b # NULL
  BY RecordsAssumption
<1>4. /\ g.listeners = h.listeners /\ g.listener = h.listener /\ g.listener_id = h.listener_id
      /\ g.watch[w] = b /\ \A v \in Id \ {w} : g.watch[v] = h.watch[v]
  <2>1. h.watch \in [Id -> Callback \cup {NULL}]
    BY <1>1, HeapParts
  <2> QED BY <1>1, <1>2, <2>1 DEF Heap
<1>5. ASSUME NEW v \in Id
      PROVE  /\ g.watch[v] # NULL <=> h.watch[v] # NULL
             /\ g.watch[v] # NULL => /\ g.watch[v].type = h.watch[v].type
                                     /\ g.watch[v].listener = h.watch[v].listener
  BY <1>1, <1>2, <1>3, <1>4
<1>6. Lists(g) /\ Counted(g)
  <2>1. PICK l \in Id : l = h.watch[w].listener
    BY <1>1, HeapParts DEF Callback
  <2>2. h.listener[l] # NULL
    BY <2>1 DEF HeapOK, Lists
  <2>3. PICK e \in Listener : e = h.listener[l]
    BY <1>1, <2>2, HeapParts
  <2>4. PICK W \in [Id -> Callback \cup {NULL}] : W = [h.watch EXCEPT ![w] = b]
    BY <1>1, HeapParts
  <2>5. h.listener = [h.listener EXCEPT ![l] = e]
    BY <1>1, <2>3, HeapParts
  <2>6. g = Heap(h.listeners, [h.listener EXCEPT ![l] = e], W, h.listener_id, h.rules)
    BY <1>2, <2>4, <2>5
  <2>7. W = g.watch
    BY <1>2, <2>4 DEF Heap
  <2>8. \A v \in Id : Has(e, v) <=> W[v] # NULL /\ W[v].listener = l
    <3>1. \A v \in Id : Has(e, v) <=> h.watch[v] # NULL /\ h.watch[v].listener = l
      BY <1>1, <2>2, <2>3 DEF Lists
    <3> QED BY <1>5, <2>7, <3>1
  <2>9. \A v \in Id : \/ W[v] = h.watch[v]
                     \/ /\ h.watch[v] # NULL => h.watch[v].listener = l
                        /\ W[v] # NULL => W[v].listener = l
    BY <1>2, <1>4, <2>1, <2>7
  <2>10. Sound(e)
    BY <1>1, <2>2, <2>3 DEF Lists
  <2>11. h.listener_id \in 0 .. MaxId
    BY <1>1, HeapParts
  <2> QED BY <1>1, <2>2, <2>3, <2>6, <2>8, <2>9, <2>10, <2>11, Rearranged
<1>7. Kinds(g)
  <2>1. ASSUME NEW v \in Live(g)
        PROVE  /\ g.watch[v].type = "signal" <=> g.listener[g.watch[v].listener].rule.argument = NULL
               /\ g.watch[v].check # NULL => g.watch[v].type = "service"
    <3>1. v \in Live(h) /\ v \in Id
      BY <1>5 DEF Live
    <3>2. /\ h.watch[v].type = "signal" <=> h.listener[h.watch[v].listener].rule.argument = NULL
          /\ h.watch[v].check # NULL => h.watch[v].type = "service"
      BY <3>1 DEF HeapOK, Kinds
    <3>3. g.watch[v].check # NULL => g.watch[v].type = "service"
      BY <1>2, <1>4, <3>1, <3>2
    <3>4. g.watch[v].type = h.watch[v].type /\ g.watch[v].listener = h.watch[v].listener
      BY <1>5 DEF Live
    <3> QED BY <1>4, <3>2, <3>3, <3>4
  <2>2. ASSUME NEW k \in Id, g.listener[k] # NULL, g.listener[k].name_watch # 0
        PROVE  /\ g.listener[k].rule.argument = NULL
               /\ g.watch[g.listener[k].name_watch] # NULL => g.watch[g.listener[k].name_watch].type = "name"
    <3>1. g.listener[k].name_watch \in Id
      <4>1. g.listener \in [Id -> Listener \cup {NULL}]
        BY <1>6, HeapParts DEF Lists
      <4> QED BY <2>2, <4>1, ListenerParts
    <3>2. /\ h.listener[k].rule.argument = NULL
          /\ h.watch[h.listener[k].name_watch] # NULL => h.watch[h.listener[k].name_watch].type = "name"
      BY <1>4, <2>2 DEF HeapOK, Kinds
    <3> QED BY <1>4, <1>5, <3>1, <3>2
  <2> QED BY <2>1, <2>2 DEF Kinds
<1>8. Fresh(g)
  BY <1>4, <1>5 DEF HeapOK, Fresh
<1>9. Locks(g, c) /\ Tidy(g, D)
  BY <1>4 DEF HeapOK, Locks, Tidy
<1>10. Evolves(h, g)
  <2>1. h.listener_id <= g.listener_id
    BY <1>1, <1>4, HeapParts
  <2> QED BY <1>4, <1>5, <2>1 DEF Evolves
<1> QED BY <1>2, <1>4, <1>5, <1>6, <1>7, <1>8, <1>9, <1>10 DEF HeapOK, Rechecked, Asked

(* What must be noted for delete_listener, and what need not.                *)
LEMMA NotedMore ==
  ASSUME NEW h, NEW c, NEW D, NEW E, HeapOK(h, c, D), D \subseteq E
  PROVE  HeapOK(h, c, E)
BY DEF HeapOK, Tidy

LEMMA NotedLess ==
  ASSUME NEW h, NEW c, NEW D, NEW l, HeapOK(h, c, D \cup {l}), ~Spare(h, l)
  PROVE  HeapOK(h, c, D)
BY DEF HeapOK, Tidy, Spare

(* A listener freed takes the watch on its sender's name with it.            *)
LEMMA FreeKeeps ==
  ASSUME NEW h, NEW c, NEW D, HeapOK(h, c, D), NEW l \in Id, h.listener[l] # NULL,
         h.listener[l].callbacks = <<>>, ~h.listener[l].lock,
         NEW g, g = filter_data_free(h, l)
  PROVE  HeapOK(g, c, D \ {l}) /\ Evolves(h, g) /\ Prunes(h, g)
<1>1. h \in HeapType
  BY DEF HeapOK, Lists
<1>2. PICK h1, nw : h1 = Unlisten(h, l) /\ nw = h.listener[l].name_watch
  OBVIOUS
<1>3. HeapOK(h1, c, D \ {l}) /\ Evolves(h, h1) /\ Prunes(h, h1)
  BY <1>2, UnlistenKeeps DEF Prunes
<1>4. CASE nw \notin Live(h1)
  BY <1>2, <1>3, <1>4 DEF filter_data_free
<1>5. CASE nw \in Live(h1)
  <2>1. PICK h2, s : h2 = Unhook(h1, nw) /\ s = h1.watch[nw].listener
    OBVIOUS
  <2>2. /\ HeapOK(h2, c, (D \ {l}) \cup {s}) /\ Evolves(h1, h2) /\ s \in Id /\ h2.listener[s] # NULL
        /\ Prunes(h1, h2)
    <3>1. s = h1.watch[nw].listener /\ h2 = Unhook(h1, nw) /\ HeapOK(h1, c, D \ {l})
      BY <1>3, <2>1
    <3>2. PICK E : E = D \ {l}
      OBVIOUS
    <3>3. HeapOK(h1, c, E)
      BY <3>1, <3>2
    <3>4. /\ HeapOK(h2, c, E \cup {s}) /\ Evolves(h1, h2)
          /\ s \in Id /\ h2.listener[s] # NULL /\ h2.watch[nw] = NULL /\ Prunes(h1, h2)
      BY ONLY <1>5, <3>1, <3>3, UnhookKeeps
    <3> QED BY <3>2, <3>4
  <2>3. h1 \in HeapType /\ h2 \in HeapType
    BY <1>3, <2>2 DEF HeapOK, Lists
  <2>4. Evolves(h, h2) /\ Prunes(h, h2)
    <3>1. Prunes(h, h2)
      BY <1>3, <2>2 DEF Prunes
    <3> QED BY <1>1, <1>3, <2>2, <2>3, <3>1, EvolvesTransitive
  <2>5. CASE Spare(h2, s)
    <3>1. g = Unlisten(h2, s)
      BY <1>2, <1>5, <2>1, <2>5 DEF filter_data_free
    <3>2. /\ HeapOK(g, c, ((D \ {l}) \cup {s}) \ {s}) /\ Evolves(h2, g)
          /\ g.watch = h2.watch /\ g.listener_id = h2.listener_id
      BY <2>2, <2>5, <3>1, UnlistenKeeps DEF Spare
    <3>3. HeapOK(g, c, D \ {l})
      <4>1. ((D \ {l}) \cup {s}) \ {s} \subseteq D \ {l}
        OBVIOUS
      <4> QED BY <3>2, <4>1, NotedMore, Zenon
    <3>4. g \in HeapType
      BY <3>3 DEF HeapOK, Lists
    <3>5. Prunes(h, g)
      BY <2>4, <3>2 DEF Prunes
    <3> QED BY <1>1, <2>3, <2>4, <3>2, <3>3, <3>4, <3>5, EvolvesTransitive
  <2>6. CASE ~Spare(h2, s)
    <3>1. g = h2
      BY <1>2, <1>5, <2>1, <2>6 DEF filter_data_free
    <3>2. HeapOK(h2, c, D \ {l})
      BY <2>2, <2>6, NotedLess, Zenon
    <3> QED BY <2>4, <3>1, <3>2
  <2> QED BY <2>5, <2>6
<1> QED BY <1>4, <1>5

(* filter_data_remove_callback, with or without the listener.                *)
LEMMA RemoveKeeps ==
  ASSUME NEW h, NEW c, NEW D, HeapOK(h, c, D), NEW w \in Live(h),
         NEW g, g = filter_data_remove_callback(h, w)
  PROVE  HeapOK(g, c, D) /\ Evolves(h, g) /\ g.watch[w] = NULL /\ Prunes(h, g)
<1>1. h \in HeapType /\ w \in Id /\ h.watch[w] # NULL /\ h.listener_id \in Nat
  BY HeapParts DEF HeapOK, Lists, Live
<1>2. PICK h1, l : h1 = Unhook(h, w) /\ l = h.watch[w].listener
  OBVIOUS
<1>3. /\ HeapOK(h1, c, D \cup {l}) /\ Evolves(h, h1) /\ l \in Id /\ h1.listener[l] # NULL
      /\ h1.watch[w] = NULL /\ Prunes(h, h1)
  BY <1>2, UnhookKeeps
<1>4. h1 \in HeapType /\ h1.watch[w] = NULL
  BY <1>1, <1>3, HeapParts DEF HeapOK, Lists
<1>5. w <= h1.listener_id
  <2>1. w \in Nat /\ ~(w > h.listener_id)
    BY <1>1 DEF HeapOK, Fresh, Id
  <2>2. h1.listener_id \in Nat /\ h.listener_id <= h1.listener_id
    BY <1>3, <1>4, HeapParts DEF Evolves
  <2> QED BY <1>1, <2>1, <2>2
<1>6. CASE Spare(h1, l)
  <2>1. g = filter_data_free(h1, l)
    BY <1>2, <1>6 DEF filter_data_remove_callback
  <2>2. HeapOK(g, c, (D \cup {l}) \ {l}) /\ Evolves(h1, g) /\ Prunes(h1, g)
    BY <1>3, <1>6, <2>1, FreeKeeps DEF Spare
  <2>3. HeapOK(g, c, D) /\ g \in HeapType
    <3>1. (D \cup {l}) \ {l} \subseteq D
      OBVIOUS
    <3>2. HeapOK(g, c, D)
      BY <2>2, <3>1, NotedMore, Zenon
    <3> QED BY <3>2 DEF HeapOK, Lists
  <2>4. Evolves(h, g)
    BY <1>1, <1>3, <1>4, <2>2, <2>3, EvolvesTransitive
  <2>5. g.watch[w] = NULL
    BY <1>1, <1>4, <1>5, <2>2 DEF Evolves
  <2>6. Prunes(h, g)
    BY <1>3, <2>2 DEF Prunes
  <2> QED BY <2>3, <2>4, <2>5, <2>6
<1>7. CASE ~Spare(h1, l)
  <2>1. g = h1
    BY <1>2, <1>7 DEF filter_data_remove_callback
  <2>2. HeapOK(h1, c, D)
    BY <1>3, <1>7, NotedLess, Zenon
  <2> QED BY <1>3, <1>4, <2>1, <2>2
<1> QED BY <1>6, <1>7

(* A watch on a name: its callers ask for the owner, or take it from the     *)
(* cache.                                                                    *)
LEMMA ServiceKeeps ==
  ASSUME NEW h, NEW c, NEW D, HeapOK(h, c, D), h.listener_id < MaxId,
         NEW n \in Sender, NEW type \in CallbackType, type # "signal",
         NEW g, g = g_dbus_add_service_watch(h, n, type)
  PROVE  /\ HeapOK(g, c, D)
         /\ \/ g = h
            \/ /\ Added(h, g, ServiceRule(n), type)
               /\ type = "service" => g.watch[g.listener_id].check # NULL
<1>1. PICK h1 : h1 = AddCallback(h, ServiceRule(n), type)
  OBVIOUS
<1>2. ServiceRule(n) \in RuleInUse /\ ServiceRule(n).argument # NULL
  BY WatchAssumption DEF RuleInUse, ServiceRule, Sender
<1>3. type = "signal" <=> ServiceRule(n).argument = NULL
  BY <1>2
<1>4. HeapOK(h1, c, D) /\ (h1 = h \/ Added(h, h1, ServiceRule(n), type))
  BY <1>1, <1>2, <1>3, AddKeeps, Zenon
<1>5. CASE ~(h1 # h /\ type = "service")
  BY <1>1, <1>4, <1>5 DEF g_dbus_add_service_watch
<1>6. CASE h1 # h /\ type = "service"
  <2>1. PICK check : check = check_service(h1, n)
    OBVIOUS
  <2>2. PICK w : w = h1.listener_id
    OBVIOUS
  <2>3. g = [h1 EXCEPT !.watch[w].check = check]
    BY <1>1, <1>6, <2>1, <2>2 DEF g_dbus_add_service_watch
  <2>4. check \in {NULL, "asked"} \cup Unique \cup {Nobody, Garbage}
    <3>1. check_name_cache(h1, n) \in Unique \cup {NULL, Nobody, Garbage}
      BY <1>4, NameCache DEF HeapOK
    <3> QED BY <2>1, <3>1 DEF check_service
  <2>5. Added(h, h1, ServiceRule(n), type)
    BY <1>4, <1>6
  <2>6. h \in HeapType /\ h1 \in HeapType
    BY <1>4 DEF HeapOK, Lists
  <2>7. w \in Live(h1) /\ h1.watch[w].type = "service"
    <3>1. h.listener_id \in Nat /\ w = h.listener_id + 1 /\ w \in 0 .. MaxId
      BY <2>2, <2>5, <2>6, HeapParts DEF Added
    <3>2. w \in Id
      BY <3>1 DEF Id
    <3> QED BY <1>6, <2>2, <2>5, <3>2 DEF Added, Live
  <2>8. HeapOK(g, c, D) /\ Evolves(h1, g) /\ Rechecked(h1, g) /\ Asked(h1, g, w, check)
    BY <1>4, <2>3, <2>4, <2>7, CheckKeeps, Zenon
  <2>9. g \in HeapType
    BY <2>8 DEF HeapOK, Lists
  <2>10. Evolves(h, g)
    BY <2>5, <2>6, <2>8, <2>9, EvolvesTransitive DEF Added
  <2>11. g.watch[w] # NULL /\ g.watch[w].type = h1.watch[w].type /\ g.watch[w].listener = h1.watch[w].listener
    BY <2>7, <2>8 DEF Live, Rechecked
  <2>12. \A v \in Id : v <= h.listener_id => g.watch[v] = h.watch[v]
    <3>1. h.listener_id \in Nat /\ w = h.listener_id + 1
      BY <2>2, <2>5, <2>6, HeapParts DEF Added
    <3>2. \A v \in Id : v <= h.listener_id => v # w
      BY <3>1
    <3> QED BY <2>5, <2>8, <3>2 DEF Added, Asked
  <2>13. Added(h, g, ServiceRule(n), type)
    BY <2>2, <2>5, <2>8, <2>10, <2>11, <2>12 DEF Added, Rechecked
  <2>14. g.watch[g.listener_id].check # NULL
    <3>1. check # NULL
      BY <2>1, RecordsAssumption DEF check_service
    <3> QED BY <2>2, <2>8, <3>1 DEF Rechecked, Asked
  <2> QED BY <2>8, <2>13, <2>14
<1> QED BY <1>5, <1>6

(* The watch on the sender's name is noted in the listener it serves.        *)
LEMMA NameWatchKeeps ==
  ASSUME NEW h, NEW c, NEW D, HeapOK(h, c, D), NEW l \in Id, h.listener[l] # NULL,
         h.listener[l].rule.argument = NULL,
         NEW w \in Id, w <= h.listener_id, h.watch[w] # NULL => h.watch[w].type = "name",
         NEW g, g = Named(h, l, w)
  PROVE  HeapOK(g, c, D) /\ Evolves(h, g) /\ g.watch = h.watch
<1>1. h \in HeapType /\ Lists(h) /\ Counted(h)
  BY DEF HeapOK, Lists
<1>2. PICK f \in Listener : f = h.listener[l]
  BY <1>1, HeapParts
<1>3. PICK e \in Listener :
        /\ g = Heap(h.listeners, [h.listener EXCEPT ![l] = e], h.watch, h.listener_id, h.rules)
        /\ Resembles(f, e, f.lock, w)
  <2>1. /\ h \in HeapType /\ l \in Id /\ f \in Listener /\ f = h.listener[l] /\ w \in Id
        /\ g = Named(h, l, w)
    BY <1>1, <1>2
  <2>2. \E e \in Listener :
           /\ g = Heap(h.listeners, [h.listener EXCEPT ![l] = e], h.watch, h.listener_id, h.rules)
           /\ Resembles(f, e, f.lock, w)
    BY <2>1, NameWatchEffect, SMT
  <2> QED BY <2>2
<1>4. PICK L \in [Id -> Listener \cup {NULL}] : L = [h.listener EXCEPT ![l] = e]
  BY <1>1, HeapParts
<1>5. L[l] = e /\ \A k \in Id \ {l} : L[k] = h.listener[k]
  BY <1>1, <1>4, HeapParts
<1>6. e # NULL
  BY RecordsAssumption
<1>7. Lists(g) /\ Counted(g) /\ Evolves(h, g)
  <2>1. \A k \in Id : Kin(h.listener[k], L[k])
    BY <1>2, <1>3, <1>5, <1>6 DEF Kin, Resembles
  <2>2. g = Heap(h.listeners, L, h.watch, h.listener_id, h.rules)
    BY <1>3, <1>4
  <2> QED BY <1>1, <2>1, <2>2, SameLists
<1>8. g.listener = L /\ g.watch = h.watch /\ g.listener_id = h.listener_id
  BY <1>3, <1>4 DEF Heap
<1>9. \A k \in Id : /\ L[k] # NULL <=> h.listener[k] # NULL
                    /\ L[k] # NULL => L[k].rule = h.listener[k].rule /\ (L[k].lock <=> h.listener[k].lock)
                                      /\ L[k].callbacks = h.listener[k].callbacks
  BY <1>2, <1>3, <1>5, <1>6 DEF Resembles
<1>10. Kinds(g)
  <2>1. ASSUME NEW v \in Live(g)
        PROVE  /\ g.watch[v].type = "signal" <=> g.listener[g.watch[v].listener].rule.argument = NULL
               /\ g.watch[v].check # NULL => g.watch[v].type = "service"
    <3>1. v \in Live(h) /\ h.watch[v].listener \in Id /\ h.listener[h.watch[v].listener] # NULL
      BY <1>1, <1>8, HeapParts DEF Live, Lists, Callback
    <3>2. /\ h.watch[v].type = "signal" <=> h.listener[h.watch[v].listener].rule.argument = NULL
          /\ h.watch[v].check # NULL => h.watch[v].type = "service"
      BY <3>1 DEF HeapOK, Kinds
    <3>3. L[h.watch[v].listener].rule = h.listener[h.watch[v].listener].rule
      BY <1>9, <3>1
    <3> QED BY <1>8, <3>2, <3>3
  <2>2. ASSUME NEW k \in Id, g.listener[k] # NULL, g.listener[k].name_watch # 0
        PROVE  /\ g.listener[k].rule.argument = NULL
               /\ g.watch[g.listener[k].name_watch] # NULL => g.watch[g.listener[k].name_watch].type = "name"
    <3>1. CASE k = l
      BY <1>2, <1>3, <1>5, <1>8, <3>1 DEF Resembles
    <3>2. CASE k # l
      BY <1>5, <1>8, <2>2, <3>2 DEF HeapOK, Kinds
    <3> QED BY <3>1, <3>2
  <2> QED BY <2>1, <2>2 DEF Kinds
<1>11. Fresh(g)
  <2>1. \A i \in Id : i > g.listener_id => g.listener[i] = NULL /\ g.watch[i] = NULL
    BY <1>8, <1>9 DEF HeapOK, Fresh
  <2>2. ASSUME NEW k \in Id, g.listener[k] # NULL PROVE g.listener[k].name_watch <= g.listener_id
    <3>1. CASE k = l
      BY <1>3, <1>5, <1>8, <3>1 DEF Resembles
    <3>2. CASE k # l
      BY <1>5, <1>8, <2>2, <3>2 DEF HeapOK, Fresh
    <3> QED BY <3>1, <3>2
  <2> QED BY <2>1, <2>2 DEF Fresh
<1>12. Locks(g, c) /\ Tidy(g, D)
  BY <1>8, <1>9 DEF HeapOK, Locks, Tidy
<1> QED BY <1>7, <1>8, <1>10, <1>11, <1>12 DEF HeapOK

(* Asks, of a heap that is the same, of one watch more, and of one change     *)
(* after another.                                                            *)
LEMMA Untouched == ASSUME NEW h, NEW c, NEW D, HeapOK(h, c, D) PROVE Asks(h, h)
BY DEF HeapOK, Fresh, Asks

LEMMA AddedAsks ==
  ASSUME NEW h \in HeapType, NEW g, NEW c, NEW D, HeapOK(g, c, D), NEW rule, NEW type,
         Added(h, g, rule, type), type = "service" => g.watch[g.listener_id].check # NULL
  PROVE  Asks(h, g)
<1>1. h.listener_id \in Nat /\ g.listener_id = h.listener_id + 1
  BY HeapParts DEF Added
<1>2. ASSUME NEW w \in Id, g.watch[w] # NULL, w > h.listener_id PROVE w = g.listener_id
  <2>1. ~(w > g.listener_id)
    BY <1>2 DEF HeapOK, Fresh
  <2> QED BY <1>1, <1>2, <2>1 DEF Id
<1> QED BY <1>2 DEF Added, Asks

LEMMA PrunesAsks ==
  ASSUME NEW h, NEW g, NEW c, NEW D, HeapOK(g, c, D), Prunes(h, g)
  PROVE  Asks(h, g)
BY DEF HeapOK, Fresh, Prunes, Asks

LEMMA AsksBoth ==
  ASSUME NEW h \in HeapType, NEW f \in HeapType, NEW g, Asks(h, f), Asks(f, g), Evolves(h, f), Evolves(f, g)
  PROVE  Asks(h, g)
<1>1. h.listener_id \in Nat /\ f.listener_id \in Nat /\ h.listener_id <= f.listener_id
  BY HeapParts DEF Evolves
<1> SUFFICES ASSUME NEW w \in Id, g.watch[w] # NULL
             PROVE  /\ w <= h.listener_id => g.watch[w] = h.watch[w]
                    /\ w > h.listener_id /\ g.watch[w].type = "service" => g.watch[w].check # NULL
  BY DEF Asks
<1>2. CASE w > f.listener_id
  <2>1. ~(w <= h.listener_id)
    BY <1>1, <1>2 DEF Id
  <2> QED BY <1>2, <2>1 DEF Asks
<1>3. CASE w <= f.listener_id
  <2>1. f.watch[w] # NULL /\ g.watch[w] = f.watch[w]
    BY <1>3 DEF Asks, Evolves
  <2> QED BY <2>1 DEF Asks
<1> QED BY <1>1, <1>2, <1>3 DEF Id

(* A watch on signals brings one on its sender's name along.                 *)
LEMMA SignalKeeps ==
  ASSUME NEW h, NEW c, NEW D, HeapOK(h, c, D), h.listener_id + 1 < MaxId, NEW r \in SignalRules,
         NEW g, g = g_dbus_add_signal_watch(h, r[1], r[2])
  PROVE  HeapOK(g, c, D) /\ Evolves(h, g) /\ Asks(h, g)
<1> DEFINE rule == SignalRule(r[1], r[2])
<1>1. h \in HeapType /\ h.listener_id \in Nat /\ MaxId \in Nat
  BY HeapParts, WatchAssumption DEF HeapOK, Lists
<1>2. rule \in RuleInUse /\ rule.argument = NULL
  BY DEF RuleInUse, SignalRule
<1>3. PICK h1, l, h2 : /\ h1 = AddCallback(h, rule, "signal")
                       /\ l = h1.watch[h1.listener_id].listener
                       /\ h2 = g_dbus_add_service_watch(h1, r[1], "name")
  OBVIOUS
<1>4. HeapOK(h1, c, D) /\ (h1 = h \/ Added(h, h1, rule, "signal"))
  <2>1. "signal" \in CallbackType /\ ("signal" = "signal" <=> rule.argument = NULL)
    BY <1>2 DEF CallbackType
  <2>2. h.listener_id < MaxId
    BY <1>1
  <2>3. h1 = AddCallback(h, rule, "signal") /\ rule \in RuleInUse /\ HeapOK(h, c, D)
    BY <1>2, <1>3
  <2> HIDE DEF rule
  <2> QED BY ONLY <2>1, <2>2, <2>3, AddKeeps
<1>5. Evolves(h, h1) /\ Asks(h, h1)
  <2>1. CASE h1 = h
    BY <1>1, <2>1, EvolvesReflexive, Untouched
  <2>2. CASE Added(h, h1, rule, "signal")
    <3>1. Asks(h, h1)
      BY <1>1, <1>4, <2>2, AddedAsks, Zenon
    <3> QED BY <2>2, <3>1 DEF Added
  <2> QED BY <1>4, <2>1, <2>2
<1>6. CASE h1 = h \/ r[1] \notin Name
  <2>1. g = h1
    BY <1>3, <1>6 DEF g_dbus_add_signal_watch
  <2> QED BY <1>4, <1>5, <2>1
<1>7. CASE ~(h1 = h \/ r[1] \notin Name) /\ (h1.listener[l].name_watch # 0 \/ h2 = h1)
  <2>1. g = h1
    BY <1>3, <1>7 DEF g_dbus_add_signal_watch
  <2> QED BY <1>4, <1>5, <2>1
<1>8. CASE ~(h1 = h \/ r[1] \notin Name) /\ ~(h1.listener[l].name_watch # 0 \/ h2 = h1)
  <2>1. g = [h2 EXCEPT !.listener[l].name_watch = h2.listener_id]
    BY <1>3, <1>8 DEF g_dbus_add_signal_watch
  <2>2. Added(h, h1, rule, "signal") /\ h1 \in HeapType
    BY <1>4, <1>8 DEF HeapOK, Lists
  <2>3. l \in Id /\ h1.listener[l] # NULL /\ h1.listener[l].rule = rule
    BY <1>3, <2>2 DEF Added
  <2>4. PICK n \in Sender : n = r[1]
    BY <1>8 DEF Sender
  <2>5. HeapOK(h2, c, D) /\ Added(h1, h2, ServiceRule(n), "name")
    <3>1. h1.listener_id < MaxId
      BY <1>1, <2>2 DEF Added
    <3>2. "name" \in CallbackType /\ "name" # "signal"
      BY DEF CallbackType
    <3>3. h2 = g_dbus_add_service_watch(h1, n, "name") /\ n \in Sender /\ HeapOK(h1, c, D)
      BY <1>3, <1>4, <2>4
    <3>4. /\ HeapOK(h2, c, D)
          /\ \/ h2 = h1
             \/ /\ Added(h1, h2, ServiceRule(n), "name")
                /\ "name" = "service" => h2.watch[h2.listener_id].check # NULL
      BY ONLY <3>1, <3>2, <3>3, ServiceKeeps
    <3> QED BY <1>8, <3>4
  <2>6. h2 \in HeapType
    BY <2>5 DEF HeapOK, Lists
  <2>7. l <= h1.listener_id
    <3>1. ~(l > h1.listener_id)
      BY <1>4, <2>3 DEF HeapOK, Fresh
    <3>2. l \in Nat /\ h1.listener_id \in Nat
      BY <2>2, <2>3, HeapParts DEF Id
    <3> QED BY <3>1, <3>2
  <2>8. h2.listener[l] # NULL /\ h2.listener[l].rule.argument = NULL
    BY <1>2, <2>3, <2>5, <2>7 DEF Added, Evolves
  <2>9. PICK w \in Id : w = h2.listener_id
    <3>1. h1.listener_id \in Nat /\ h2.listener_id = h1.listener_id + 1 /\ h2.listener_id \in 0 .. MaxId
      BY <2>2, <2>5, <2>6, HeapParts DEF Added
    <3> QED BY <3>1 DEF Id
  <2>10. w \in Id /\ w <= h2.listener_id /\ h2.watch[w].type = "name"
    <3>1. w <= w
      BY DEF Id
    <3> QED BY <2>5, <2>9, <3>1 DEF Added
  <2>11. g = Named(h2, l, w)
    BY <2>1, <2>9 DEF Named
  <2>12. HeapOK(g, c, D) /\ Evolves(h2, g) /\ g.watch = h2.watch
    BY ONLY <2>3, <2>5, <2>8, <2>10, <2>11, NameWatchKeeps
  <2>13. Evolves(h, h2)
    BY <1>1, <1>5, <2>2, <2>5, <2>6, EvolvesTransitive DEF Added
  <2>14. g \in HeapType
    BY <2>12 DEF HeapOK, Lists
  <2>15. Asks(h, g)
    <3>1. Asks(h1, h2)
      BY <2>2, <2>5, AddedAsks, Zenon
    <3>2. Asks(h, h2)
      BY <1>1, <1>5, <2>2, <2>5, <2>6, <3>1, AsksBoth DEF Added
    <3> QED BY <2>12, <3>2 DEF Asks
  <2>16. Evolves(h, g)
    BY ONLY <1>1, <2>6, <2>12, <2>13, <2>14, EvolvesTransitive
  <2> QED BY <2>12, <2>15, <2>16
<1> QED BY <1>6, <1>7, <1>8

(* Whatever client code does, the lists stay as they must be.                *)
LEMMA ClientKeeps ==
  ASSUME NEW h, NEW c, NEW D, HeapOK(h, c, D), NEW g \in ClientCode(h)
  PROVE  HeapOK(g, c, D) /\ Evolves(h, g) /\ Asks(h, g)
<1>1. h \in HeapType
  BY DEF HeapOK, Lists
<1>2. CASE g = h
  BY <1>1, <1>2, EvolvesReflexive, Untouched
<1>3. CASE h.listener_id < MaxId /\ \E n \in Serviceable, type \in {"service", "disconnect"} :
             g = g_dbus_add_service_watch(h, n, type)
  <2>1. PICK n \in Serviceable, type \in {"service", "disconnect"} :
          g = g_dbus_add_service_watch(h, n, type)
    BY <1>3
  <2>2. n \in Sender /\ type \in CallbackType /\ type # "signal"
    BY WatchAssumption DEF Sender, CallbackType
  <2>3. h.listener_id < MaxId /\ HeapOK(h, c, D)
    BY <1>3
  <2>4. /\ HeapOK(g, c, D)
        /\ \/ g = h
           \/ /\ Added(h, g, ServiceRule(n), type)
              /\ type = "service" => g.watch[g.listener_id].check # NULL
    BY ONLY <2>1, <2>2, <2>3, ServiceKeeps
  <2>5. CASE g = h
    BY <1>2, <2>5
  <2>6. CASE g # h
    <3>1. Asks(h, g)
      BY <1>1, <2>4, <2>6, AddedAsks, Zenon
    <3> QED BY <2>4, <2>6, <3>1 DEF Added
  <2> QED BY <2>5, <2>6
<1>4. CASE h.listener_id + 1 < MaxId /\ \E r \in SignalRules : g = g_dbus_add_signal_watch(h, r[1], r[2])
  <2>1. PICK r \in SignalRules : g = g_dbus_add_signal_watch(h, r[1], r[2])
    BY <1>4
  <2>2. h.listener_id + 1 < MaxId /\ HeapOK(h, c, D) /\ r \in SignalRules
    BY <1>4
  <2> QED BY ONLY <2>1, <2>2, SignalKeeps
<1>5. CASE \E w \in Live(h) : g = filter_data_remove_callback(h, w)
  <2>1. HeapOK(g, c, D) /\ Evolves(h, g) /\ Prunes(h, g)
    BY <1>5, RemoveKeeps
  <2> QED BY <2>1, PrunesAsks
<1> QED BY <1>2, <1>3, <1>4, <1>5 DEF ClientCode

(* A listener locked, unlocked, and one of its watches called.               *)
LEMMA LockKeeps ==
  ASSUME NEW h, NEW D, HeapOK(h, 0, D), NEW l \in Id, h.listener[l] # NULL,
         NEW g, g = Locked(h, l)
  PROVE  HeapOK(g, l, D) /\ Evolves(h, g)
         /\ g.watch = h.watch /\ g.listeners = h.listeners /\ g.listener_id = h.listener_id
<1>1. h \in HeapType /\ Lists(h) /\ Counted(h) /\ 0 \notin Id
  BY DEF HeapOK, Lists, Id
<1>2. PICK f \in Listener : f = h.listener[l]
  BY <1>1, HeapParts
<1>3. PICK e \in Listener :
        /\ g = Heap(h.listeners, [h.listener EXCEPT ![l] = e], h.watch, h.listener_id, h.rules)
        /\ Closes(f, e)
  <2>1. h \in HeapType /\ l \in Id /\ f \in Listener /\ f = h.listener[l]
    BY <1>1, <1>2
  <2>2. \E e \in Listener :
           /\ g = Heap(h.listeners, [h.listener EXCEPT ![l] = e], h.watch, h.listener_id, h.rules)
           /\ Closes(f, e)
    BY <2>1, LockedEffect, SMT
  <2> QED BY <2>2
<1>4. PICK L \in [Id -> Listener \cup {NULL}] : L = [h.listener EXCEPT ![l] = e]
  BY <1>1, HeapParts
<1>5. L[l] = e /\ \A k \in Id \ {l} : L[k] = h.listener[k]
  BY <1>1, <1>4, HeapParts
<1>6. e # NULL
  BY RecordsAssumption
<1>7. Lists(g) /\ Counted(g) /\ Evolves(h, g)
  <2>1. \A k \in Id : Kin(h.listener[k], L[k])
    BY <1>2, <1>3, <1>5, <1>6 DEF Kin, Resembles, Closes
  <2>2. g = Heap(h.listeners, L, h.watch, h.listener_id, h.rules)
    BY <1>3, <1>4
  <2> QED BY <1>1, <2>1, <2>2, SameLists
<1>8. g.listener = L /\ g.watch = h.watch /\ g.listener_id = h.listener_id /\ g.listeners = h.listeners
  BY <1>3, <1>4 DEF Heap
<1>9. \A k \in Id : /\ L[k] # NULL <=> h.listener[k] # NULL
                    /\ L[k] # NULL => L[k].rule = h.listener[k].rule
                                      /\ L[k].name_watch = h.listener[k].name_watch
                                      /\ L[k].callbacks = h.listener[k].callbacks
  BY <1>2, <1>3, <1>5, <1>6 DEF Resembles, Closes
<1>10. Kinds(g)
  <2>1. ASSUME NEW v \in Live(g)
        PROVE  /\ g.watch[v].type = "signal" <=> g.listener[g.watch[v].listener].rule.argument = NULL
               /\ g.watch[v].check # NULL => g.watch[v].type = "service"
    <3>1. v \in Live(h) /\ h.watch[v].listener \in Id /\ h.listener[h.watch[v].listener] # NULL
      BY <1>1, <1>8, HeapParts DEF Live, Lists, Callback
    <3>2. /\ h.watch[v].type = "signal" <=> h.listener[h.watch[v].listener].rule.argument = NULL
          /\ h.watch[v].check # NULL => h.watch[v].type = "service"
      BY <3>1 DEF HeapOK, Kinds
    <3>3. L[h.watch[v].listener].rule = h.listener[h.watch[v].listener].rule
      BY <1>9, <3>1
    <3> QED BY <1>8, <3>2, <3>3
  <2>2. ASSUME NEW k \in Id, g.listener[k] # NULL, g.listener[k].name_watch # 0
        PROVE  /\ g.listener[k].rule.argument = NULL
               /\ g.watch[g.listener[k].name_watch] # NULL => g.watch[g.listener[k].name_watch].type = "name"
    BY <1>8, <1>9, <2>2 DEF HeapOK, Kinds
  <2> QED BY <2>1, <2>2 DEF Kinds
<1>11. Fresh(g)
  BY <1>8, <1>9 DEF HeapOK, Fresh
<1>12. Locks(g, l)
  <2> SUFFICES ASSUME NEW k \in Id PROVE L[k] # NULL /\ L[k].lock <=> k = l
    BY <1>8 DEF Locks
  <2>1. CASE k = l
    BY <1>3, <1>5, <1>6, <2>1 DEF Resembles, Closes
  <2>2. CASE k # l
    BY <1>1, <1>5, <2>2 DEF HeapOK, Locks
  <2> QED BY <2>1, <2>2
<1>13. Tidy(g, D)
  <2> SUFFICES ASSUME NEW k \in Id, L[k] # NULL, L[k].callbacks = <<>>, ~L[k].lock PROVE k \in D
    BY <1>8 DEF Tidy
  <2>1. k # l
    BY <1>3, <1>5 DEF Resembles, Closes
  <2> QED BY <1>5, <2>1 DEF HeapOK, Tidy
<1> QED BY <1>7, <1>8, <1>10, <1>11, <1>12, <1>13 DEF HeapOK

(* The watches of a listener change places in its lists.                     *)
Places(h, g, l) ==
  /\ g.listeners = h.listeners /\ g.watch = h.watch /\ g.listener_id = h.listener_id
  /\ g.listener[l] # NULL
  /\ g.listener[l].rule = h.listener[l].rule /\ g.listener[l].owner = h.listener[l].owner
  /\ \A k \in Id \ {l} : g.listener[k] = h.listener[k]

(* The listener c now stands as e: it is locked still, or was noted.         *)
Stands(h, g, c, e, D) ==
  /\ Places(h, g, c) /\ g.listener[c] = e
  /\ e.lock => HeapOK(g, c, D)
  /\ ~e.lock => HeapOK(g, 0, D \cup {c})

(* That leaves the lists as they must be.                                    *)
LEMMA PlacesKeep ==
  ASSUME NEW h, NEW c \in Id, NEW D, HeapOK(h, c, D), NEW f \in Listener, f = h.listener[c],
         NEW e \in Listener, Sound(e), e.rule = f.rule, e.owner = f.owner, e.name_watch = f.name_watch,
         \A w \in Id : Has(e, w) <=> Has(f, w),
         NEW g, g = Heap(h.listeners, [h.listener EXCEPT ![c] = e], h.watch, h.listener_id, h.rules)
  PROVE  Stands(h, g, c, e, D)
<1>1. h \in HeapType /\ Lists(h) /\ Counted(h) /\ h.listener[c] # NULL /\ 0 \notin Id
  BY DEF HeapOK, Lists, Locks, Id
<1>2. e # NULL
  BY RecordsAssumption
<1>3. /\ g.listeners = h.listeners /\ g.watch = h.watch /\ g.listener_id = h.listener_id
      /\ g.listener[c] = e /\ \A k \in Id \ {c} : g.listener[k] = h.listener[k]
  <2>1. h.listener \in [Id -> Listener \cup {NULL}]
    BY <1>1, HeapParts
  <2> QED BY <2>1 DEF Heap
<1>4. Lists(g) /\ Counted(g)
  <2>1. h.watch \in [Id -> Callback \cup {NULL}] /\ h.listener_id \in 0 .. MaxId
    BY <1>1, HeapParts
  <2>2. \A w \in Id : Has(e, w) <=> h.watch[w] # NULL /\ h.watch[w].listener = c
    BY <1>1 DEF Lists
  <2>3. e.rule = h.listener[c].rule
    OBVIOUS
  <2> QED BY <1>1, <2>1, <2>2, <2>3, Rearranged
<1>5. \A k \in Id : /\ g.listener[k] # NULL <=> h.listener[k] # NULL
                    /\ g.listener[k] # NULL => g.listener[k].rule = h.listener[k].rule
                                               /\ g.listener[k].name_watch = h.listener[k].name_watch
  BY <1>1, <1>2, <1>3
<1>6. Kinds(g)
  <2>1. ASSUME NEW v \in Live(g)
        PROVE  /\ g.watch[v].type = "signal" <=> g.listener[g.watch[v].listener].rule.argument = NULL
               /\ g.watch[v].check # NULL => g.watch[v].type = "service"
    <3>1. v \in Live(h) /\ h.watch[v].listener \in Id /\ h.listener[h.watch[v].listener] # NULL
      BY <1>1, <1>3, HeapParts DEF Live, Lists, Callback
    <3>2. /\ h.watch[v].type = "signal" <=> h.listener[h.watch[v].listener].rule.argument = NULL
          /\ h.watch[v].check # NULL => h.watch[v].type = "service"
      BY <3>1 DEF HeapOK, Kinds
    <3>3. g.listener[h.watch[v].listener].rule = h.listener[h.watch[v].listener].rule
      BY <1>5, <3>1
    <3> QED BY <1>3, <3>2, <3>3
  <2>2. ASSUME NEW k \in Id, g.listener[k] # NULL, g.listener[k].name_watch # 0
        PROVE  /\ g.listener[k].rule.argument = NULL
               /\ g.watch[g.listener[k].name_watch] # NULL => g.watch[g.listener[k].name_watch].type = "name"
    <3>1. h.listener[k] # NULL /\ g.listener[k].rule = h.listener[k].rule
          /\ g.listener[k].name_watch = h.listener[k].name_watch
      BY <1>5, <2>2
    <3>2. Kinds(h) /\ g.watch = h.watch
      BY <1>3 DEF HeapOK
    <3> QED BY ONLY <2>2, <3>1, <3>2 DEF Kinds
  <2> QED BY <2>1, <2>2 DEF Kinds
<1>7. Fresh(g)
  BY <1>3, <1>5 DEF HeapOK, Fresh
<1>8. CASE e.lock
  <2>1. Locks(g, c)
    BY <1>2, <1>3, <1>8 DEF HeapOK, Locks
  <2>2. Tidy(g, D)
    <3> SUFFICES ASSUME NEW k \in Id, g.listener[k] # NULL, g.listener[k].callbacks = <<>>,
                        ~g.listener[k].lock
                 PROVE  k \in D
      BY DEF Tidy
    <3>1. k # c
      BY <1>3, <1>8
    <3> QED BY <1>3, <3>1 DEF HeapOK, Tidy
  <2> QED BY <1>2, <1>3, <1>4, <1>6, <1>7, <1>8, <2>1, <2>2 DEF HeapOK, Places, Stands
<1>9. CASE ~e.lock
  <2>1. Locks(g, 0)
    BY <1>1, <1>3, <1>9 DEF HeapOK, Locks
  <2>2. Tidy(g, D \cup {c})
    BY <1>3 DEF HeapOK, Tidy
  <2> QED BY <1>2, <1>3, <1>4, <1>6, <1>7, <1>9, <2>1, <2>2 DEF HeapOK, Places, Stands
<1> QED BY <1>8, <1>9

(* An unlocked listener gets its watches back, or has to be noted.           *)
LEMMA UnlockKeeps ==
  ASSUME NEW h, NEW c \in Id, NEW D, HeapOK(h, c, D), h.listener[c].callbacks = <<>>,
         NEW g, g = Unlock(h, c)
  PROVE  HeapOK(g, 0, D \cup {c}) /\ Places(h, g, c)
<1>1. h \in HeapType /\ h.listener[c] # NULL
  BY DEF HeapOK, Lists, Locks
<1>2. PICK f \in Listener : f = h.listener[c]
  BY <1>1, HeapParts
<1>3. Sound(f)
  BY <1>1, <1>2 DEF HeapOK, Lists
<1>4. PICK e \in Listener :
        /\ g = Heap(h.listeners, [h.listener EXCEPT ![c] = e], h.watch, h.listener_id, h.rules)
        /\ e.rule = f.rule /\ e.owner = f.owner /\ ~e.lock /\ e.name_watch = f.name_watch
        /\ e.callbacks = f.processed /\ e.processed = <<>>
  <2>1. \E e \in Listener :
           /\ Unlock(h, c)
                = Heap(h.listeners, [h.listener EXCEPT ![c] = e], h.watch, h.listener_id, h.rules)
           /\ e.rule = f.rule /\ e.owner = f.owner /\ ~e.lock /\ e.name_watch = f.name_watch
           /\ e.callbacks = f.processed /\ e.processed = <<>>
    BY <1>1, <1>2, UnlockEffect, Zenon
  <2> QED BY <2>1
<1>5. \A w : ~Contains(<<>>, w)
  BY DEF Contains
<1>6. Sound(e)
  BY <1>3, <1>4, <1>5 DEF Sound, IsInjective
<1>7. \A w \in Id : Has(e, w) <=> Has(f, w)
  BY <1>2, <1>4, <1>5 DEF Has
<1>8. /\ HeapOK(h, c, D) /\ c \in Id /\ f = h.listener[c] /\ e \in Listener /\ f \in Listener
      /\ e.rule = f.rule /\ e.owner = f.owner /\ ~e.lock /\ e.name_watch = f.name_watch
      /\ g = Heap(h.listeners, [h.listener EXCEPT ![c] = e], h.watch, h.listener_id, h.rules)
  BY <1>2, <1>4
<1>9. Stands(h, g, c, e, D)
  BY ONLY <1>6, <1>7, <1>8, PlacesKeep
<1> QED BY <1>4, <1>9 DEF Stands

(* A watch called and kept is put aside.                                     *)
LEMMA ProcessedKeeps ==
  ASSUME NEW h, NEW c \in Id, NEW D, HeapOK(h, c, D), NEW w \in Id, Contains(h.listener[c].callbacks, w),
         NEW g, g = Processed(h, c, w)
  PROVE  /\ HeapOK(g, c, D) /\ Places(h, g, c)
         /\ \A v : Contains(g.listener[c].callbacks, v) <=> Contains(h.listener[c].callbacks, v) /\ v # w
<1>1. h \in HeapType /\ h.listener[c] # NULL /\ h.listener[c].lock
  BY DEF HeapOK, Lists, Locks
<1>2. PICK f \in Listener : f = h.listener[c]
  BY <1>1, HeapParts
<1>3. Sound(f) /\ f.callbacks \in Seq(Id) /\ f.processed \in Seq(Id)
  BY <1>1, <1>2, ListenerParts DEF HeapOK, Lists
<1>4. PICK e \in Listener :
        /\ g = Heap(h.listeners, [h.listener EXCEPT ![c] = e], h.watch, h.listener_id, h.rules)
        /\ e.rule = f.rule /\ e.owner = f.owner /\ e.lock = f.lock /\ e.name_watch = f.name_watch
        /\ e.callbacks = RemoveFirst(f.callbacks, w) /\ e.processed = Append(f.processed, w)
  <2>1. IsInjective(f.callbacks)
    BY <1>3 DEF Sound
  <2>2. \E e \in Listener :
           /\ Processed(h, c, w)
                = Heap(h.listeners, [h.listener EXCEPT ![c] = e], h.watch, h.listener_id, h.rules)
           /\ e.rule = f.rule /\ e.owner = f.owner /\ e.lock = f.lock /\ e.name_watch = f.name_watch
           /\ e.callbacks = RemoveFirst(f.callbacks, w) /\ e.processed = Append(f.processed, w)
    BY <1>1, <1>2, <2>1, ProcessedEffect, ZenonT(60)
  <2> QED BY <2>2
<1>5. IsInjective(e.callbacks) /\ \A v : Contains(e.callbacks, v) <=> Contains(f.callbacks, v) /\ v # w
  BY <1>3, <1>4, Removal DEF Sound
<1>6. IsInjective(e.processed) /\ \A v : Contains(e.processed, v) <=> Contains(f.processed, v) \/ v = w
  <2>1. ~Contains(f.processed, w) /\ IsInjective(f.processed)
    BY <1>2, <1>3 DEF Sound
  <2> QED BY <1>3, <1>4, <2>1, Addition
<1>7. Sound(e)
  BY <1>1, <1>2, <1>3, <1>4, <1>5, <1>6 DEF Sound
<1>8. \A v \in Id : Has(e, v) <=> Has(f, v)
  BY <1>2, <1>5, <1>6 DEF Has
<1>9. /\ HeapOK(h, c, D) /\ c \in Id /\ f = h.listener[c] /\ e \in Listener /\ f \in Listener
      /\ e.rule = f.rule /\ e.owner = f.owner /\ e.name_watch = f.name_watch
      /\ g = Heap(h.listeners, [h.listener EXCEPT ![c] = e], h.watch, h.listener_id, h.rules)
  BY <1>1, <1>2, <1>4
<1>10. HeapOK(g, c, D) /\ Places(h, g, c) /\ g.listener[c] = e
  <2>1. Stands(h, g, c, e, D)
    BY ONLY <1>7, <1>8, <1>9, PlacesKeep
  <2>2. e.lock
    BY <1>1, <1>2, <1>4
  <2> QED BY ONLY <2>1, <2>2 DEF Stands
<1>11. /\ g.listener[c] = e /\ h.listener[c] = f
       /\ \A v : Contains(e.callbacks, v) <=> Contains(f.callbacks, v) /\ v # w
  BY <1>2, <1>5, <1>10
<1>12. \A v : Contains(g.listener[c].callbacks, v) <=> Contains(h.listener[c].callbacks, v) /\ v # w
  BY ONLY <1>11
<1> QED BY ONLY <1>10, <1>12

(* What a call to the watch w at listener c leaves of the other watches: its *)
(* own one is no more to be called.                                          *)
Calls(h, g, c, w) ==
  /\ h.listener_id <= g.listener_id
  /\ \A v \in Live(g) : v <= h.listener_id =>
       /\ v \in Live(h)
       /\ g.watch[v].type = h.watch[v].type /\ g.watch[v].listener = h.watch[v].listener
       /\ g.listener[g.watch[v].listener].rule = h.listener[h.watch[v].listener].rule
       /\ h.listener[h.watch[v].listener].rule.name = NULL =>
            g.listener[g.watch[v].listener].owner = h.listener[h.watch[v].listener].owner
       /\ Before(g.listeners, c, g.watch[v].listener) <=> Before(h.listeners, c, h.watch[v].listener)
       /\ Contains(g.listener[c].callbacks, v) <=> Contains(h.listener[c].callbacks, v) /\ v # w

(* The watch called is gone after what client code did.                      *)
LEMMA EvolvesCalls ==
  ASSUME NEW h, NEW g, NEW c \in Id, NEW D, HeapOK(h, c, D), HeapOK(g, c, D), Evolves(h, g), NEW w \in Id,
         w \in Live(g) => ~Contains(g.listener[c].callbacks, w)
  PROVE  Calls(h, g, c, w)
<1>1. h \in HeapType /\ g \in HeapType /\ h.listener_id \in Nat
  BY HeapParts DEF HeapOK, Lists
<1>2. \A l \in Id : h.listener[l] # NULL => l <= h.listener_id
  <2>1. \A l \in Id : ~(l > h.listener_id) => l <= h.listener_id
    BY <1>1 DEF Id
  <2> QED BY <2>1 DEF HeapOK, Fresh
<1>3. g.listener[c] # NULL /\ h.listener[c] # NULL
  BY DEF HeapOK, Locks
<1>4. c <= h.listener_id
  BY <1>2, <1>3
<1>5. ASSUME NEW v \in Live(g), v <= h.listener_id
      PROVE  /\ v \in Live(h)
             /\ g.watch[v].type = h.watch[v].type /\ g.watch[v].listener = h.watch[v].listener
             /\ g.listener[g.watch[v].listener].rule = h.listener[h.watch[v].listener].rule
             /\ h.listener[h.watch[v].listener].rule.name = NULL =>
                  g.listener[g.watch[v].listener].owner = h.listener[h.watch[v].listener].owner
             /\ Before(g.listeners, c, g.watch[v].listener) <=> Before(h.listeners, c, h.watch[v].listener)
             /\ Contains(g.listener[c].callbacks, v) <=> Contains(h.listener[c].callbacks, v) /\ v # w
  <2>1. /\ v \in Live(h) /\ v \in Id
        /\ g.watch[v].type = h.watch[v].type /\ g.watch[v].listener = h.watch[v].listener
    BY <1>5 DEF Live, Evolves
  <2>2. PICK l \in Id : l = h.watch[v].listener
    BY <1>1, <2>1, HeapParts DEF Live, Callback
  <2>3. h.listener[l] # NULL /\ g.listener[l] # NULL /\ l <= h.listener_id
    <3>1. h.listener[l] # NULL
      BY <2>1, <2>2 DEF HeapOK, Lists
    <3>2. g.listener[l] # NULL
      BY <1>5, <2>1, <2>2 DEF HeapOK, Lists
    <3> QED BY <1>2, <3>1, <3>2
  <2>4. /\ g.listener[l].rule = h.listener[l].rule
        /\ h.listener[l].rule.name = NULL => g.listener[l].owner = h.listener[l].owner
        /\ Before(g.listeners, c, l) <=> Before(h.listeners, c, l)
    BY <1>3, <1>4, <2>3 DEF Evolves
  <2>5. Contains(g.listener[c].callbacks, v) <=> Contains(h.listener[c].callbacks, v)
    BY <1>3, <1>4, <1>5, <2>1 DEF Evolves, Live
  <2>6. v = w => ~Contains(g.listener[c].callbacks, v)
    BY <1>5
  <2> QED BY <2>1, <2>2, <2>4, <2>5, <2>6
<1>6. h.listener_id <= g.listener_id
  BY DEF Evolves
<1> QED BY <1>5, <1>6 DEF Calls

(* The watch called is put aside after what client code did.                 *)
LEMMA PlacesCalls ==
  ASSUME NEW h, NEW k, NEW g, NEW c \in Id, NEW D, HeapOK(h, c, D), HeapOK(k, c, D), HeapOK(g, c, D),
         Evolves(h, k), Places(k, g, c), NEW w \in Id,
         \A v : Contains(g.listener[c].callbacks, v) <=> Contains(k.listener[c].callbacks, v) /\ v # w
  PROVE  Calls(h, g, c, w)
<1>1. h \in HeapType /\ k \in HeapType /\ h.listener_id \in Nat
  BY HeapParts DEF HeapOK, Lists
<1>2. \A l \in Id : h.listener[l] # NULL => l <= h.listener_id
  <2>1. \A l \in Id : ~(l > h.listener_id) => l <= h.listener_id
    BY <1>1 DEF Id
  <2> QED BY <2>1 DEF HeapOK, Fresh
<1>3. k.listener[c] # NULL /\ h.listener[c] # NULL
  BY DEF HeapOK, Locks
<1>4. c <= h.listener_id
  BY <1>2, <1>3
<1>5. ASSUME NEW v \in Live(g), v <= h.listener_id
      PROVE  /\ v \in Live(h)
             /\ g.watch[v].type = h.watch[v].type /\ g.watch[v].listener = h.watch[v].listener
             /\ g.listener[g.watch[v].listener].rule = h.listener[h.watch[v].listener].rule
             /\ h.listener[h.watch[v].listener].rule.name = NULL =>
                  g.listener[g.watch[v].listener].owner = h.listener[h.watch[v].listener].owner
             /\ Before(g.listeners, c, g.watch[v].listener) <=> Before(h.listeners, c, h.watch[v].listener)
             /\ Contains(g.listener[c].callbacks, v) <=> Contains(h.listener[c].callbacks, v) /\ v # w
  <2>0. v \in Id /\ k.watch[v] # NULL /\ g.watch[v] = k.watch[v]
    BY <1>5 DEF Live, Places
  <2>1. /\ v \in Live(h)
        /\ g.watch[v].type = h.watch[v].type /\ g.watch[v].listener = h.watch[v].listener
    BY <1>5, <2>0 DEF Live, Evolves
  <2>2. PICK l \in Id : l = h.watch[v].listener
    BY <1>1, <2>1, HeapParts DEF Live, Callback
  <2>3. h.listener[l] # NULL /\ k.listener[l] # NULL /\ l <= h.listener_id
    <3>1. h.listener[l] # NULL
      BY <2>1, <2>2 DEF HeapOK, Lists
    <3>2. k.listener[l] # NULL
      BY <2>0, <2>1, <2>2 DEF HeapOK, Lists, Live
    <3> QED BY <1>2, <3>1, <3>2
  <2>4. /\ k.listener[l].rule = h.listener[l].rule
        /\ h.listener[l].rule.name = NULL => k.listener[l].owner = h.listener[l].owner
        /\ Before(k.listeners, c, l) <=> Before(h.listeners, c, l)
    BY <1>3, <1>4, <2>3 DEF Evolves
  <2>5. Contains(k.listener[c].callbacks, v) <=> Contains(h.listener[c].callbacks, v)
    BY <1>3, <1>4, <1>5, <2>0 DEF Evolves
  <2>6. /\ g.listener[l].rule = k.listener[l].rule /\ g.listener[l].owner = k.listener[l].owner
        /\ g.listeners = k.listeners
    BY DEF Places
  <2> QED BY <2>1, <2>2, <2>4, <2>5, <2>6
<1>6. h.listener_id <= g.listener_id
  BY DEF Evolves, Places
<1> QED BY <1>5, <1>6 DEF Calls

(* The listener at work stays.                                               *)
LEMMA RuleStays ==
  ASSUME NEW h, NEW g, NEW c \in Id, NEW D, HeapOK(h, c, D), HeapOK(g, c, D), Evolves(h, g)
  PROVE  g.listener[c].rule = h.listener[c].rule
<1>1. g.listener[c] # NULL /\ h.listener[c] # NULL /\ h.listener_id \in Nat
  BY HeapParts DEF HeapOK, Locks, Lists
<1>2. c <= h.listener_id
  BY <1>1 DEF HeapOK, Fresh, Id
<1> QED BY <1>1, <1>2 DEF Evolves

(* After its function has returned, the watch is done with, whatever the     *)
(* function did.                                                             *)
LEMMA AfterCallKeeps ==
  ASSUME NEW h, NEW k, NEW c \in Id, NEW D, HeapOK(h, c, D), HeapOK(k, c, D), Evolves(h, k), Asks(h, k),
         NEW w \in Id, NEW remove \in BOOLEAN, NEW g, g = AfterCall(k, c, w, remove)
  PROVE  HeapOK(g, c, D) /\ Calls(h, g, c, w) /\ Asks(h, g)
         /\ g.listener[c].rule = h.listener[c].rule
<1>1. h \in HeapType /\ k \in HeapType
  BY DEF HeapOK, Lists
<1>2. CASE ~Contains(k.listener[c].callbacks, w)
  <2>1. g = k
    BY <1>2 DEF AfterCall
  <2> QED BY <1>2, <2>1, EvolvesCalls, RuleStays
<1>3. CASE Contains(k.listener[c].callbacks, w) /\ remove
  <2>1. g = filter_data_remove_callback(k, w)
    BY <1>3 DEF AfterCall
  <2>2. w \in Live(k)
    BY <1>3 DEF HeapOK, Lists, Locks, Has, Live
  <2>3. HeapOK(g, c, D) /\ Evolves(k, g) /\ g.watch[w] = NULL /\ Prunes(k, g)
    BY ONLY HeapOK(k, c, D), <2>1, <2>2, RemoveKeeps
  <2>4. g \in HeapType
    BY <2>3 DEF HeapOK, Lists
  <2>5. Evolves(h, g)
    BY ONLY Evolves(h, k), <1>1, <2>3, <2>4, EvolvesTransitive
  <2>6. w \notin Live(g)
    BY <2>3 DEF Live
  <2>7. Calls(h, g, c, w)
    BY <2>3, <2>5, <2>6, EvolvesCalls
  <2>8. Asks(h, g)
    <3>1. Asks(k, g)
      BY ONLY <2>3, PrunesAsks
    <3> QED BY ONLY Asks(h, k), Evolves(h, k), <1>1, <2>3, <3>1, AsksBoth
  <2>9. g.listener[c].rule = h.listener[c].rule
    BY <2>3, <2>5, RuleStays
  <2> QED BY <2>3, <2>7, <2>8, <2>9
<1>4. CASE Contains(k.listener[c].callbacks, w) /\ ~remove
  <2>1. g = Processed(k, c, w)
    BY <1>4 DEF AfterCall
  <2>2. /\ HeapOK(g, c, D) /\ Places(k, g, c)
        /\ \A v : Contains(g.listener[c].callbacks, v) <=> Contains(k.listener[c].callbacks, v) /\ v # w
    BY <1>4, <2>1, ProcessedKeeps
  <2>3. Calls(h, g, c, w)
    BY <2>2, PlacesCalls
  <2>4. Asks(h, g)
    BY <2>2 DEF Places, Asks
  <2>5. g.listener[c].rule = h.listener[c].rule
    BY <2>2, RuleStays DEF Places
  <2> QED BY <2>2, <2>3, <2>4, <2>5
<1> QED BY <1>2, <1>3, <1>4

(* NextMatch is the first listener behind a position that the signal fits.   *)
LEMMA NextMatchFacts ==
  ASSUME NEW h \in HeapType, NEW i \in Nat, NEW m, NEW l, l = NextMatch(h, i, m)
  PROVE  \/ /\ l = 0
            /\ \A j \in 1 .. Len(h.listeners) : j > i => ~Matches(h.listener[h.listeners[j]], m)
         \/ \E n \in 1 .. Len(h.listeners) :
              /\ n > i /\ l = h.listeners[n] /\ l \in Id /\ Contains(h.listeners, l)
              /\ Matches(h.listener[l], m)
              /\ \A j \in 1 .. Len(h.listeners) :
                   j > i /\ Matches(h.listener[h.listeners[j]], m) => n <= j
<1>1. h.listeners \in Seq(Id)
  BY HeapParts
<1> DEFINE S == {j \in DOMAIN h.listeners : j > i /\ Matches(h.listener[h.listeners[j]], m)}
<1>2. l = IF S = {} THEN 0 ELSE h.listeners[Min(S)]
  BY DEF NextMatch
<1>3. CASE S = {}
  BY <1>1, <1>2, <1>3
<1>4. CASE S # {}
  <2>1. S \in SUBSET Nat
    BY <1>1
  <2>2. PICK n \in S : n = Min(S) /\ \A j \in S : n <= j
    BY <1>4, <2>1, Minimum
  <2>3. n \in 1 .. Len(h.listeners) /\ n > i /\ l = h.listeners[n] /\ Matches(h.listener[l], m)
    <3>1. n \in DOMAIN h.listeners /\ n > i /\ Matches(h.listener[h.listeners[n]], m)
      BY <2>2
    <3>2. l = h.listeners[Min(S)] /\ n = Min(S)
      BY <1>2, <1>4, <2>2
    <3>3. n \in 1 .. Len(h.listeners)
      BY <1>1, <3>1
    <3> QED BY ONLY <3>1, <3>2, <3>3
  <2>4. \A j \in 1 .. Len(h.listeners) : j > i /\ Matches(h.listener[h.listeners[j]], m) => n <= j
    BY <1>1, <2>2
  <2>5. l \in Id /\ Contains(h.listeners, l)
    BY <1>1, <2>3 DEF Contains
  <2> QED BY <2>3, <2>4, <2>5
<1> QED BY <1>3, <1>4

(* message_filter goes to the next listener, and locks it.                   *)
LEMMA EnterKeeps ==
  ASSUME NEW h, NEW D, HeapOK(h, 0, D), NEW i \in Nat, NEW m \in Signal,
         NEW l, l = NextMatch(h, i, m), NEW g, g = IF l = 0 THEN h ELSE Lock(h, l, m)
  PROVE  HeapOK(g, l, D) /\ l \in Id \cup {0} /\ Evolves(h, g) /\ (l # 0 => Matches(h.listener[l], m))
         /\ g.watch = h.watch /\ g.listeners = h.listeners /\ g.listener_id = h.listener_id
<1>1. h \in HeapType
  BY DEF HeapOK, Lists
<1>2. CASE l = 0
  BY <1>1, <1>2, EvolvesReflexive
<1>3. CASE l # 0
  <2>1. l \in Id /\ Contains(h.listeners, l) /\ Matches(h.listener[l], m)
    <3>1. l = NextMatch(h, i, m) /\ h \in HeapType /\ i \in Nat
      BY <1>1
    <3> QED BY ONLY <1>3, <3>1, NextMatchFacts
  <2>2. h.listener[l] # NULL
    BY <2>1 DEF HeapOK, Lists
  <2>3. PICK h1 : h1 = Locked(h, l)
    OBVIOUS
  <2>4. HeapOK(h1, l, D) /\ Evolves(h, h1)
        /\ h1.watch = h.watch /\ h1.listeners = h.listeners /\ h1.listener_id = h.listener_id
    BY <2>1, <2>2, <2>3, LockKeeps
  <2>5. CASE IsService(h.listener[l])
    <3>1. PICK f \in Listener : f = h.listener[l]
      BY <1>1, <2>1, <2>2, HeapParts
    <3>2. m.argument \in Sender /\ m.new \in Unique \cup {NULL, Nobody, Garbage}
      <4>1. f.rule.argument # NULL /\ f.rule.argument \in {NULL, m.argument}
        BY <2>1, <2>5, <3>1 DEF IsService, Matches
      <4> QED BY <4>1 DEF Signal
    <3>3. g = update_name_cache(h1, m.argument, m.new)
      BY <1>3, <2>3, <2>5 DEF Lock, Locked
    <3>4. /\ HeapOK(g, l, D) /\ Evolves(h1, g)
          /\ g.watch = h1.watch /\ g.listeners = h1.listeners /\ g.listener_id = h1.listener_id
      BY ONLY <2>4, <3>2, <3>3, CacheKeeps
    <3>5. h1 \in HeapType /\ g \in HeapType
      BY <2>4, <3>4 DEF HeapOK, Lists
    <3>6. Evolves(h, g)
      BY ONLY <1>1, <2>4, <3>4, <3>5, EvolvesTransitive
    <3> QED BY <2>1, <2>4, <3>4, <3>6
  <2>6. CASE ~IsService(h.listener[l])
    <3>1. g = h1
      BY <1>3, <2>3, <2>6 DEF Lock, Locked
    <3> QED BY <2>1, <2>4, <3>1
  <2> QED BY <2>5, <2>6
<1> QED BY <1>2, <1>3
-----------------------------------------------------------------------------
(* What every step does to the watches there are.                            *)
Ages(h, g) ==
  /\ h.listener_id <= g.listener_id
  /\ \A w \in Id : w <= h.listener_id /\ g.watch[w] # NULL =>
       h.watch[w] # NULL /\ g.watch[w].type = h.watch[w].type

(* The replies on the way stay true of the watches, and in the queue.        *)
LEMMA AnswersAge ==
  ASSUME NEW h \in HeapType, NEW g \in HeapType, Ages(h, g), NEW q, Answers(q, h)
  PROVE  Answers(q, g)
<1> SUFFICES ASSUME NEW i \in DOMAIN q, q[i] \in Reply
             PROVE  /\ q[i].watch <= g.listener_id
                    /\ g.watch[q[i].watch] # NULL => g.watch[q[i].watch].type = "service"
  BY DEF Answers
<1>1. PICK w \in Id : w = q[i].watch
  BY DEF Reply
<1>2. w <= h.listener_id /\ (h.watch[w] # NULL => h.watch[w].type = "service")
  BY <1>1 DEF Answers
<1>3. w \in Nat /\ h.listener_id \in Nat /\ g.listener_id \in Nat
  BY HeapParts DEF Id
<1>4. w <= g.listener_id
  BY <1>2, <1>3 DEF Ages
<1> QED BY <1>1, <1>2, <1>4 DEF Ages

LEMMA AnswersTail ==
  ASSUME NEW q \in Seq(Signal \cup Reply), q # <<>>, NEW h, Answers(q, h)
  PROVE  Tail(q) \in Seq(Signal \cup Reply) /\ Answers(Tail(q), h)
<1>1. PICK t : t = Tail(q)
  OBVIOUS
<1>2. t \in Seq(Signal \cup Reply) /\ \A i \in DOMAIN t : i + 1 \in DOMAIN q /\ t[i] = q[i + 1]
  BY <1>1, HeadTailProperties
<1> QED BY <1>1, <1>2 DEF Answers

LEMMA AnswersAppend ==
  ASSUME NEW q \in Seq(Signal \cup Reply), NEW h, Answers(q, h), NEW m \in Signal \cup Reply,
         m \in Reply => /\ m.watch <= h.listener_id
                        /\ h.watch[m.watch] # NULL => h.watch[m.watch].type = "service"
  PROVE  Append(q, m) \in Seq(Signal \cup Reply) /\ Answers(Append(q, m), h)
<1>1. PICK a : a = Append(q, m)
  OBVIOUS
<1>2. /\ a \in Seq(Signal \cup Reply)
      /\ \A i \in DOMAIN a : a[i] = m \/ (i \in DOMAIN q /\ a[i] = q[i])
  BY <1>1, AppendProperties
<1> QED BY <1>1, <1>2 DEF Answers

(* Signals are no replies.                                                   *)
LEMMA Apart == ASSUME NEW m \in Signal PROVE m \notin Reply
BY DEF Signal, Reply

(* Without watches.                                                          *)
LEMMA EmptyHeapOK == HeapOK(EmptyHeap, 0, ToSet(<<>>)) /\ EmptyHeap \in HeapType
<1>1. PICK h : h = EmptyHeap
  OBVIOUS
<1>2. MaxId \in Nat /\ MaxRules \in Nat
  BY WatchAssumption
<1>3. h = Heap(<<>>, [l \in Id |-> NULL], [w \in Id |-> NULL], 0, [r \in RuleInUse |-> 0])
  BY <1>1 DEF EmptyHeap, Heap
<1>4. /\ h.listeners = <<>> /\ h.listener_id = 0
      /\ \A i \in Id : h.listener[i] = NULL /\ h.watch[i] = NULL
      /\ \A r \in RuleInUse : h.rules[r] = 0
  BY <1>3 DEF Heap
<1>5. h \in HeapType
  <2>1. /\ <<>> \in Seq(Id) /\ 0 \in 0 .. MaxId /\ 0 \in 0 .. MaxRules
    BY <1>2, EmptySeq
  <2>2. /\ [l \in Id |-> NULL] \in [Id -> Listener \cup {NULL}]
        /\ [w \in Id |-> NULL] \in [Id -> Callback \cup {NULL}]
        /\ [r \in RuleInUse |-> 0] \in [RuleInUse -> 0 .. MaxRules]
    BY <2>1
  <2> QED BY <1>3, <2>1, <2>2, HeapTyped
<1>6. Lists(h)
  BY <1>4, <1>5 DEF Lists, Live, IsInjective, Contains
<1>7. Counted(h)
  <2>1. \A r : With(h, r) = {}
    BY <1>4 DEF With
  <2> QED BY <1>4, <2>1, FS_EmptySet DEF Counted
<1>8. Kinds(h) /\ Fresh(h) /\ Locks(h, 0) /\ Tidy(h, ToSet(<<>>))
  BY <1>4 DEF Kinds, Fresh, Locks, Tidy, Live, Id
<1> QED BY <1>1, <1>5, <1>6, <1>7, <1>8 DEF HeapOK

(* ListsInv holds at the start.                                              *)
LEMMA InitLists == Init => ListsInv
<1> SUFFICES ASSUME Init PROVE ListsInv
  OBVIOUS
<1> USE DEF Init
<1>1. heap \in HeapType /\ HeapOK(heap, current, ToSet(doomed))
  BY EmptyHeapOK
<1>2. TypeOK
  BY <1>1, EmptySeq DEF TypeOK
<1>3. owner \in [Sender -> Unique \cup {Nobody}] /\ doomed \in Seq(Id)
  BY EmptySeq
<1>4. Answers(inbox, heap)
  BY DEF Answers
<1> QED BY <1>1, <1>2, <1>3, <1>4 DEF ListsInv

(* Client code only makes older.                                             *)
LEMMA Evolved == ASSUME NEW h, NEW g, Evolves(h, g) PROVE Ages(h, g)
BY DEF Evolves, Ages

(* The heap of a state in which message_filter is not at work.               *)
LEMMA Resting ==
  ASSUME ListsInv, Idle
  PROVE  HeapOK(heap, 0, ToSet(<<>>)) /\ Answers(inbox, heap) /\ heap \in HeapType
BY DEF ListsInv, Idle, TypeOK
-----------------------------------------------------------------------------
(* Each action keeps ListsInv.                                               *)
LEMMA MessageLists == ASSUME ListsInv, message_filter PROVE ListsInv'
<1>1. PICK m \in Signal : m = Head(inbox)
  BY DEF message_filter
<1>2. /\ HeapOK(heap, 0, ToSet(<<>>)) /\ Answers(inbox, heap) /\ heap \in HeapType /\ doomed = <<>>
      /\ inbox \in Seq(Signal \cup Reply) /\ inbox # <<>> /\ status = "running"
  BY Resting DEF message_filter, ListsInv, Idle, TypeOK
<1>3. PICK l, g : l = NextMatch(heap, 0, m) /\ g = IF l = 0 THEN heap ELSE Lock(heap, l, m)
  OBVIOUS
<1>4. /\ HeapOK(g, l, ToSet(<<>>)) /\ l \in Id \cup {0} /\ Evolves(heap, g)
      /\ l # 0 => Matches(heap.listener[l], m)
  <2>1. 0 \in Nat
    OBVIOUS
  <2>2. PICK D : D = ToSet(<<>>)
    OBVIOUS
  <2>3. HeapOK(g, l, D) /\ l \in Id \cup {0} /\ Evolves(heap, g) /\ (l # 0 => Matches(heap.listener[l], m))
    BY ONLY <1>2, <1>3, <2>1, <2>2, EnterKeeps
  <2> QED BY <2>2, <2>3
<1>5. g \in HeapType
  BY <1>4 DEF HeapOK, Lists
<1>6. Tail(inbox) \in Seq(Signal \cup Reply) /\ Answers(Tail(inbox), g)
  <2>1. Tail(inbox) \in Seq(Signal \cup Reply) /\ Answers(Tail(inbox), heap)
    BY <1>2, AnswersTail
  <2> QED BY <1>2, <1>4, <1>5, <2>1, Evolved, AnswersAge
<1>7. current' = l /\ heap' = g
  BY <1>1, <1>3 DEF message_filter, Enter
<1>8. message' \in Signal \cup {NULL} /\ (current' # 0 => message' # NULL)
  BY <1>1, RecordsAssumption DEF message_filter
<1>9. inbox' = Tail(inbox) /\ UNCHANGED <<doomed, owner, status>>
  BY DEF message_filter
<1>10. owner \in [Sender -> Unique \cup {Nobody}] /\ <<>> \in Seq(Id)
  BY EmptySeq DEF ListsInv
<1> QED BY <1>2, <1>4, <1>5, <1>6, <1>7, <1>8, <1>9, <1>10 DEF ListsInv, TypeOK

(* The listener message_filter is at, and the watch it calls.                *)
LEMMA Calling ==
  ASSUME ListsInv, status = "running", current # 0, heap.listener[current].callbacks # <<>>
  PROVE  /\ current \in Id /\ Head(heap.listener[current].callbacks) \in Id
         /\ Contains(heap.listener[current].callbacks, Head(heap.listener[current].callbacks))
         /\ Head(heap.listener[current].callbacks) \in Live(heap)
         /\ heap.watch[Head(heap.listener[current].callbacks)].listener = current
         /\ HeapOK(heap, current, ToSet(doomed)) /\ Answers(inbox, heap)
         /\ heap \in HeapType /\ heap.listener[current] \in Listener /\ message \in Signal
<1>1. /\ HeapOK(heap, current, ToSet(doomed)) /\ Answers(inbox, heap) /\ heap \in HeapType
      /\ current \in Id /\ message \in Signal
  BY DEF ListsInv, TypeOK
<1>2. heap.listener[current] # NULL
  BY <1>1 DEF HeapOK, Locks
<1>3. heap.listener[current] \in Listener
  BY <1>1, <1>2, HeapParts
<1>4. PICK s \in Seq(Id) : s = heap.listener[current].callbacks
  BY <1>3, ListenerParts
<1>5. Head(s) \in Id /\ Contains(s, Head(s))
  BY <1>4, HeadTailProperties DEF Contains
<1>6. Has(heap.listener[current], Head(s))
  BY <1>4, <1>5 DEF Has
<1>7. heap.watch[Head(s)] # NULL /\ heap.watch[Head(s)].listener = current
  BY <1>1, <1>2, <1>5, <1>6 DEF HeapOK, Lists
<1> QED BY <1>1, <1>3, <1>4, <1>5, <1>7 DEF Live

(* A watch called keeps ListsInv.                                            *)
LEMMA CallLists ==
  ASSUME ListsInv, status = "running", current # 0, NEW D, D = ToSet(doomed),
         NEW w, HeapOK(heap', current, D), Calls(heap, heap', current, w),
         UNCHANGED <<filtering, owner, inbox, status>>
  PROVE  ListsInv'
<1>1. heap \in HeapType /\ heap' \in HeapType
  BY DEF HeapOK, Lists, ListsInv, TypeOK
<1>2. Ages(heap, heap')
  BY DEF Calls, Ages, Live
<1>3. Answers(inbox, heap')
  <2>1. Answers(inbox, heap)
    BY DEF ListsInv
  <2> QED BY <1>1, <1>2, <2>1, AnswersAge
<1> QED BY <1>1, <1>3 DEF ListsInv, TypeOK, filtering

(* What service_filter and signal_filter do to the heap.                     *)
LEMMA Filtered ==
  ASSUME ListsInv, status = "running", current # 0, heap.listener[current].callbacks # <<>>,
         service_filter \/ signal_filter
  PROVE  LET w == Head(heap.listener[current].callbacks) IN
         /\ HeapOK(heap', current, ToSet(doomed)) /\ Calls(heap, heap', current, w) /\ Asks(heap, heap')
         /\ heap'.listener[current].rule = heap.listener[current].rule
         /\ UNCHANGED <<filtering, owner, inbox, status>>
<1>1. PICK w : w = Head(heap.listener[current].callbacks)
  OBVIOUS
<1>2. /\ current \in Id /\ w \in Id /\ HeapOK(heap, current, ToSet(doomed)) /\ heap \in HeapType
  BY <1>1, Calling
<1>3. PICK k, remove : /\ k = heap \/ k \in ClientCode(heap)
                       /\ remove \in BOOLEAN /\ heap' = AfterCall(k, current, w, remove)
  <2>1. CASE service_filter
    <3> DEFINE remove == message.argument \in Unique /\ heap.watch[w].type # "service"
    <3>1. \E k : (k = heap \/ k \in ClientCode(heap)) /\ heap' = AfterCall(k, current, w, remove)
      BY <1>1, <2>1 DEF service_filter, SetHeap
    <3>2. remove \in BOOLEAN
      OBVIOUS
    <3> HIDE DEF remove
    <3> QED BY <3>1, <3>2
  <2>2. CASE signal_filter
    BY <1>1, <2>2 DEF signal_filter, SetHeap
  <2> QED BY <2>1, <2>2
<1>4. HeapOK(k, current, ToSet(doomed)) /\ Evolves(heap, k) /\ Asks(heap, k)
  <2>1. CASE k = heap
    BY <1>2, <2>1, EvolvesReflexive, Untouched
  <2>2. CASE k \in ClientCode(heap)
    BY ONLY <1>2, <2>2, ClientKeeps
  <2> QED BY <1>3, <2>1, <2>2
<1>5. PICK g : g = heap'
  OBVIOUS
<1>6. /\ HeapOK(g, current, ToSet(doomed)) /\ Calls(heap, g, current, w) /\ Asks(heap, g)
      /\ g.listener[current].rule = heap.listener[current].rule
  <2>1. g = AfterCall(k, current, w, remove) /\ remove \in BOOLEAN
    BY <1>3, <1>5
  <2> QED BY ONLY <1>2, <1>4, <2>1, AfterCallKeeps
<1>7. UNCHANGED <<filtering, owner, inbox, status>>
  BY DEF service_filter, signal_filter
<1> QED BY <1>1, <1>5, <1>6, <1>7

(* Both keep ListsInv.                                                       *)
LEMMA FilterLists ==
  ASSUME ListsInv, service_filter \/ signal_filter
  PROVE  ListsInv'
<1>1. status = "running" /\ current # 0 /\ heap.listener[current].callbacks # <<>>
  BY DEF service_filter, signal_filter
<1>2. PICK w : w = Head(heap.listener[current].callbacks)
  OBVIOUS
<1>3. /\ HeapOK(heap', current, ToSet(doomed)) /\ Calls(heap, heap', current, w)
      /\ UNCHANGED <<filtering, owner, inbox, status>>
  BY <1>1, <1>2, Filtered
<1> QED BY <1>1, <1>3, CallLists

(* A listener noted is the first of the list.                                *)
LEMMA NoteOne ==
  ASSUME NEW c \in Id, NEW d \in Seq(Id)
  PROVE  <<c>> \o d \in Seq(Id) /\ ToSet(<<c>> \o d) = ToSet(d) \cup {c} /\ <<c>> \o d # <<>>
<1>1. <<c>> \in Seq(Id) /\ Len(<<c>>) = 1 /\ <<c>>[1] = c
  OBVIOUS
<1>2. PICK e : e = <<c>> \o d
  OBVIOUS
<1>3. /\ e \in Seq(Id) /\ Len(e) = Len(d) + 1 /\ e[1] = c
      /\ \A i \in 1 .. Len(d) : e[i + 1] = d[i]
  BY <1>1, <1>2, ConcatProperties
<1>4. \A x : x \in ToSet(e) <=> x \in ToSet(d) \/ x = c
  <2>1. ASSUME NEW x, x \in ToSet(e), x # c PROVE x \in ToSet(d)
    <3>1. PICK i \in 1 .. Len(e) : e[i] = x
      BY <1>3, <2>1 DEF ToSet
    <3>2. i - 1 \in 1 .. Len(d) /\ d[i - 1] = x
      BY <1>3, <2>1, <3>1
    <3> QED BY <3>2 DEF ToSet
  <2>2. ASSUME NEW x, x \in ToSet(d) PROVE x \in ToSet(e)
    <3>1. PICK i \in 1 .. Len(d) : d[i] = x
      BY <2>2 DEF ToSet
    <3>2. i + 1 \in 1 .. Len(e) /\ e[i + 1] = x
      BY <1>3, <3>1
    <3> QED BY <1>3, <3>2 DEF ToSet
  <2>3. c \in ToSet(e)
    BY <1>3 DEF ToSet
  <2> QED BY <2>1, <2>2, <2>3
<1> QED BY <1>2, <1>3, <1>4

(* The heap between two listeners of next_listener.                          *)
LEMMA Unlocked ==
  ASSUME ListsInv, next_listener, NEW h, h = Unlock(heap, current)
  PROVE  /\ HeapOK(h, 0, ToSet(doomed')) /\ Places(heap, h, current) /\ h \in HeapType
         /\ doomed' \in Seq(Id) /\ (doomed = <<>> \/ doomed' # <<>>)
<1>1. /\ HeapOK(heap, current, ToSet(doomed)) /\ heap \in HeapType
      /\ current \in Id /\ heap.listener[current].callbacks = <<>> /\ doomed \in Seq(Id)
  BY DEF next_listener, ListsInv, TypeOK
<1>2. HeapOK(h, 0, ToSet(doomed) \cup {current}) /\ Places(heap, h, current)
  BY ONLY <1>1, h = Unlock(heap, current), UnlockKeeps
<1>3. doomed' = IF h.listener[current].callbacks = <<>> THEN <<current>> \o doomed ELSE doomed
  BY DEF next_listener
<1>4. CASE h.listener[current].callbacks = <<>>
  <2>1. doomed' = <<current>> \o doomed
    BY <1>3, <1>4
  <2>2. /\ doomed' \in Seq(Id) /\ ToSet(doomed') = ToSet(doomed) \cup {current} /\ doomed' # <<>>
    BY <1>1, <2>1, NoteOne
  <2> QED BY <1>2, <2>2 DEF HeapOK, Lists
<1>5. CASE h.listener[current].callbacks # <<>>
  <2>1. HeapOK(h, 0, ToSet(doomed))
    BY <1>2, <1>5, NotedLess DEF Spare
  <2> QED BY <1>1, <1>2, <1>3, <1>5, <2>1 DEF HeapOK, Lists
<1> QED BY <1>4, <1>5

(* next_listener unlocks one listener and locks the next.                    *)
LEMMA NextLists == ASSUME ListsInv, next_listener PROVE ListsInv'
<1>1. PICK h : h = Unlock(heap, current)
  OBVIOUS
<1>2. PICK D : D = ToSet(doomed')
  OBVIOUS
<1>3. /\ HeapOK(h, 0, D) /\ Places(heap, h, current) /\ h \in HeapType
      /\ doomed' \in Seq(Id)
  BY <1>1, <1>2, Unlocked
<1>4. /\ heap \in HeapType /\ Answers(inbox, heap) /\ message \in Signal /\ current \in Id
      /\ status = "running" /\ HeapOK(heap, current, ToSet(doomed))
  BY DEF next_listener, ListsInv, TypeOK
<1>5. PICK i \in Nat : i = Position(h.listeners, current)
  <2>1. heap.listener[current] # NULL /\ Contains(heap.listeners, current) /\ heap.listeners \in Seq(Id)
    BY <1>4, HeapParts DEF HeapOK, Locks, Lists
  <2>2. Contains(h.listeners, current) /\ h.listeners \in Seq(Id)
    BY <1>3, <2>1 DEF Places
  <2>3. Position(h.listeners, current) \in 1 .. Len(h.listeners)
    BY <2>2, FirstOf
  <2> QED BY <2>3
<1>6. PICK l, g : l = NextMatch(h, i, message) /\ g = IF l = 0 THEN h ELSE Lock(h, l, message)
  OBVIOUS
<1>7. HeapOK(g, l, D) /\ l \in Id \cup {0} /\ Evolves(h, g)
  BY ONLY <1>3, <1>4, <1>5, <1>6, EnterKeeps
<1>8. current' = l /\ heap' = g
  BY <1>1, <1>5, <1>6 DEF next_listener, Enter, Position
<1>9. g \in HeapType
  BY <1>7 DEF HeapOK, Lists
<1>10. Answers(inbox, g)
  <2>1. Ages(heap, h)
    BY <1>3, <1>4, HeapParts DEF Places, Ages
  <2>2. Answers(inbox, h)
    BY <1>3, <1>4, <2>1, AnswersAge
  <2> QED BY <1>3, <1>7, <1>9, <2>2, Evolved, AnswersAge
<1>11. UNCHANGED <<message, owner, inbox, status>>
  BY DEF next_listener
<1>12. message # NULL
  BY <1>4, RecordsAssumption
<1> QED BY <1>2, <1>3, <1>7, <1>8, <1>9, <1>10, <1>11, <1>12 DEF ListsInv, TypeOK

(* delete_listener frees what was noted, unless it got watches since.        *)
LEMMA Ended ==
  ASSUME ListsInv, delete_listener
  PROVE  /\ heap' \in HeapType /\ status' \in {"running", "undefined"}
         /\ status' = "running" => /\ HeapOK(heap', 0, ToSet(<<>>)) /\ Answers(inbox, heap')
                                  /\ Evolves(heap, heap') /\ Prunes(heap, heap')
<1>1. /\ HeapOK(heap, 0, ToSet(doomed)) /\ heap \in HeapType /\ Answers(inbox, heap)
      /\ current = 0 /\ doomed \in Seq(Id) /\ status = "running"
  BY DEF delete_listener, AtEnd, ListsInv, TypeOK
<1>2. Evolves(heap, heap) /\ Prunes(heap, heap)
  BY <1>1, EvolvesReflexive DEF Prunes
<1>3. /\ heap' \in HeapType /\ status' \in {"running", "undefined"}
      /\ status' = "running" => /\ HeapOK(heap', 0, ToSet(<<>>)) /\ Answers(inbox, heap')
                               /\ Evolves(heap, heap') /\ Prunes(heap, heap')
  <2>1. CASE doomed = <<>>
    BY <1>1, <1>2, <2>1 DEF delete_listener
  <2>2. CASE Len(doomed) = 1 /\ heap.listener[doomed[1]] # NULL
    <3>1. PICK l \in Id : l = doomed[1]
      <4>1. doomed[1] \in Id
        BY <1>1, <2>2, ElementOfSeq
      <4> QED BY <4>1
    <3>2. ToSet(doomed) = {l}
      BY <1>1, <2>2, <3>1 DEF ToSet
    <3>3. UNCHANGED status /\ doomed # <<>>
      <4>1. doomed # <<>>
        BY <2>2
      <4> QED BY <2>2, <4>1 DEF delete_listener
    <3>4. {l} \ {l} = ToSet(<<>>) /\ {l} = ToSet(<<>>) \cup {l}
      BY DEF ToSet
    <3>5. ~heap.listener[l].lock
      <4>1. l # 0
        BY DEF Id
      <4> QED BY <1>1, <2>2, <3>1, <4>1 DEF HeapOK, Locks
    <3>6. CASE heap.listener[l].callbacks # <<>>
      <4>1. heap' = heap
        BY <2>2, <3>1, <3>3, <3>6 DEF delete_listener
      <4>2. HeapOK(heap, 0, ToSet(<<>>))
        <5>1. HeapOK(heap, 0, ToSet(<<>>) \cup {l}) /\ ~Spare(heap, l)
          BY <1>1, <3>2, <3>4, <3>6 DEF Spare
        <5> QED BY ONLY <5>1, NotedLess
      <4> QED BY <1>1, <1>2, <3>3, <4>1, <4>2
    <3>7. CASE heap.listener[l].callbacks = <<>>
      <4>1. PICK g : g = filter_data_free(heap, l)
        OBVIOUS
      <4>2. heap' = g
        BY <2>2, <3>1, <3>3, <3>7, <4>1 DEF delete_listener
      <4>3. HeapOK(heap, 0, {l}) /\ heap.listener[l] # NULL
        BY <1>1, <2>2, <3>1, <3>2
      <4>4. HeapOK(g, 0, {l} \ {l}) /\ Evolves(heap, g) /\ Prunes(heap, g)
        BY ONLY <4>3, <3>1, <3>5, <3>7, <4>1, FreeKeeps
      <4>5. g \in HeapType
        BY <4>4 DEF HeapOK, Lists
      <4>6. Answers(inbox, g)
        BY <1>1, <4>4, <4>5, Evolved, AnswersAge
      <4> QED BY <1>1, <3>3, <3>4, <4>2, <4>4, <4>5, <4>6
    <3> QED BY <3>6, <3>7
  <2>3. CASE doomed # <<>> /\ ~(Len(doomed) = 1 /\ heap.listener[doomed[1]] # NULL)
    BY <1>1, <2>3 DEF delete_listener
  <2> QED BY <2>1, <2>2, <2>3
<1> QED BY <1>3

LEMMA EndLists == ASSUME ListsInv, delete_listener PROVE ListsInv'
<1>1. /\ current = 0 /\ message' = NULL /\ doomed' = <<>> /\ UNCHANGED <<current, owner, inbox>>
      /\ <<>> \in Seq(Id)
  BY EmptySeq DEF delete_listener, AtEnd
<1>2. owner \in [Sender -> Unique \cup {Nobody}] /\ inbox \in Seq(Signal \cup Reply)
  BY DEF ListsInv, TypeOK
<1> QED BY <1>1, <1>2, Ended DEF ListsInv, TypeOK

(* What a name watch is on.                                                  *)
LEMMA Names ==
  ASSUME NEW h, NEW c, NEW D, HeapOK(h, c, D), NEW w \in Live(h), h.watch[w].type # "signal"
  PROVE  h.listener[h.watch[w].listener].rule.argument \in Sender
<1>1. PICK l \in Id : l = h.watch[w].listener
  BY HeapParts DEF HeapOK, Lists, Live, Callback
<1>2. h.listener[l] # NULL /\ h.listener[l].rule.argument # NULL
  BY <1>1 DEF HeapOK, Lists, Kinds
<1>3. h.listener[l].rule \in RuleInUse
  BY <1>2, HeapParts, ListenerParts DEF HeapOK, Lists
<1>4. \A r \in RuleInUse : r.argument # NULL => r.argument \in Sender
  BY DEF RuleInUse, ServiceRule, SignalRule
<1> QED BY <1>1, <1>2, <1>3, <1>4

(* No watch's question is settled but that of f.                             *)
Settles(h, g, f) ==
  \A w \in Id : g.watch[w] # NULL =>
    /\ w <= h.listener_id => g.watch[w].check = IF w = f THEN NULL ELSE h.watch[w].check
    /\ w > h.listener_id /\ g.watch[w].type = "service" => g.watch[w].check # NULL

LEMMA AsksSettles == ASSUME NEW h, NEW g, Asks(h, g) PROVE Settles(h, g, 0)
BY DEF Asks, Settles, Id

(* update_service changes the cache and the watch, then the client's code    *)
(* runs.                                                                     *)
LEMMA AppearedKeeps ==
  ASSUME NEW h, NEW D, HeapOK(h, 0, D), NEW w \in Live(h), h.watch[w].type = "service",
         NEW read \in Unique \cup {NULL, Nobody, Garbage}, NEW n, n = h.listener[h.watch[w].listener].rule.argument,
         NEW k, k = update_name_cache(h, n, read), NEW g \in ClientCode([k EXCEPT !.watch[w].check = NULL])
  PROVE  HeapOK(g, 0, D) /\ Evolves(h, g) /\ g \in HeapType /\ Settles(h, g, w)
<1>1. n \in Sender
  BY Names
<1>2. HeapOK(k, 0, D) /\ Evolves(h, k) /\ k.watch = h.watch /\ k.listener_id = h.listener_id
  BY ONLY HeapOK(h, 0, D), <1>1, read \in Unique \cup {NULL, Nobody, Garbage},
          k = update_name_cache(h, n, read), CacheKeeps
<1>3. PICK f : f = [k EXCEPT !.watch[w].check = NULL]
  OBVIOUS
<1>4. HeapOK(f, 0, D) /\ Evolves(k, f) /\ Rechecked(k, f) /\ Asked(k, f, w, NULL)
  <2>1. w \in Live(k) /\ k.watch[w].type = "service"
    BY <1>2 DEF Live
  <2> DEFINE check == NULL
  <2>2. /\ check \in {NULL, "asked"} \cup Unique \cup {Nobody, Garbage}
        /\ f = [k EXCEPT !.watch[w].check = check]
    BY <1>3
  <2> HIDE DEF check
  <2>3. HeapOK(f, 0, D) /\ Evolves(k, f) /\ Rechecked(k, f) /\ Asked(k, f, w, check)
    BY ONLY <1>2, <2>1, <2>2, CheckKeeps
  <2> USE DEF check
  <2> QED BY <2>3
<1>5. HeapOK(g, 0, D) /\ Evolves(f, g) /\ Asks(f, g)
  <2>1. g \in ClientCode(f)
    BY <1>3
  <2> QED BY ONLY <1>4, <2>1, ClientKeeps
<1>6. h \in HeapType /\ k \in HeapType /\ f \in HeapType /\ g \in HeapType
  BY <1>2, <1>4, <1>5 DEF HeapOK, Lists
<1>7. Evolves(h, f)
  BY ONLY <1>2, <1>4, <1>6, EvolvesTransitive
<1>8. Evolves(h, g)
  BY ONLY <1>5, <1>6, <1>7, EvolvesTransitive
<1>9. Settles(h, g, w)
  <2>1. f.listener_id = h.listener_id
    BY <1>2, <1>4 DEF Rechecked
  <2>2. f.watch[w].check = NULL /\ \A v \in Id \ {w} : f.watch[v] = h.watch[v]
    BY <1>2, <1>4 DEF Asked
  <2> QED BY <1>5, <2>1, <2>2 DEF Asks, Settles
<1> QED BY <1>5, <1>6, <1>8, <1>9

(* A step that changes the heap while message_filter is not at work.         *)
LEMMA RestLists ==
  ASSUME ListsInv, Idle, HeapOK(heap', 0, ToSet(<<>>)), Evolves(heap, heap'), Answers(inbox', heap),
         inbox' \in Seq(Signal \cup Reply), UNCHANGED <<filtering, owner, status>>
  PROVE  ListsInv'
<1>1. heap \in HeapType /\ heap' \in HeapType
  BY DEF HeapOK, Lists, ListsInv, TypeOK
<1>2. Answers(inbox', heap')
  BY <1>1, Evolved, AnswersAge
<1>3. current = 0 /\ message = NULL /\ doomed = <<>> /\ status = "running"
  BY DEF Idle, ListsInv
<1> QED BY <1>1, <1>2, <1>3 DEF ListsInv, TypeOK, filtering

(* The owner read from the cache, and the one in a reply.                    *)
LEMMA Updated ==
  ASSUME ListsInv, NEW w \in Id, update_service(w)
  PROVE  HeapOK(heap', 0, ToSet(<<>>)) /\ Evolves(heap, heap') /\ UNCHANGED <<filtering, owner, inbox, status>>
         /\ Settles(heap, heap', w)
<1>1. HeapOK(heap, 0, ToSet(<<>>)) /\ heap \in HeapType
  BY Resting DEF update_service
<1>2. /\ w \in Live(heap) /\ heap.watch[w].type = "service"
      /\ heap.watch[w].check \in Unique \cup {NULL, Nobody, Garbage}
  BY <1>1, HeapParts DEF update_service, Live, HeapOK, Kinds, Callback
<1>3. PICK read \in Unique \cup {NULL, Nobody, Garbage} : Appeared(w, read, "cached")
  BY <1>2 DEF update_service
<1>4. PICK n, k : n = NameOf(w) /\ k = update_name_cache(heap, n, read)
  OBVIOUS
<1>5. heap' \in ClientCode([k EXCEPT !.watch[w].check = NULL])
  BY <1>3, <1>4 DEF Appeared, SetHeap
<1>6. n = heap.listener[heap.watch[w].listener].rule.argument
  BY <1>4 DEF NameOf
<1>7. HeapOK(heap', 0, ToSet(<<>>)) /\ Evolves(heap, heap') /\ Settles(heap, heap', w)
  BY ONLY <1>1, <1>2, <1>3, <1>4, <1>5, <1>6, AppearedKeeps
<1> QED BY <1>7 DEF update_service

LEMMA Replied ==
  ASSUME ListsInv, service_reply
  PROVE  /\ HeapOK(heap', 0, ToSet(<<>>)) /\ Evolves(heap, heap') /\ UNCHANGED <<filtering, owner, status>>
         /\ inbox' = Tail(inbox) /\ Settles(heap, heap', Head(inbox).watch)
<1>1. HeapOK(heap, 0, ToSet(<<>>)) /\ heap \in HeapType /\ Answers(inbox, heap)
  BY Resting DEF service_reply
<1>2. PICK m \in Reply : m = Head(inbox) /\ inbox # <<>>
  BY DEF service_reply
<1>3. PICK w \in Id : w = m.watch
  BY <1>2 DEF Reply
<1>4. heap.watch[w] # NULL => heap.watch[w].type = "service"
  <2>1. 1 \in DOMAIN inbox /\ m = inbox[1]
    BY <1>2 DEF ListsInv, TypeOK
  <2> QED BY <1>1, <1>3, <2>1 DEF Answers
<1>5. HeapOK(heap', 0, ToSet(<<>>)) /\ Evolves(heap, heap') /\ Settles(heap, heap', w)
  <2>1. CASE heap.watch[w] = NULL
    <3>1. heap' = heap
      BY <1>2, <1>3, <2>1 DEF service_reply
    <3>2. Settles(heap, heap, w)
      BY <1>1, <2>1 DEF HeapOK, Fresh, Settles
    <3> QED BY <1>1, <3>1, <3>2, EvolvesReflexive
  <2>2. CASE heap.watch[w] # NULL /\ m.owner = Nobody
    <3>1. heap' = [heap EXCEPT !.watch[w].check = NULL]
      BY <1>2, <1>3, <2>2 DEF service_reply, SetHeap
    <3>2. w \in Live(heap)
      BY <2>2 DEF Live
    <3> DEFINE check == NULL
    <3>3. /\ check \in {NULL, "asked"} \cup Unique \cup {Nobody, Garbage}
          /\ heap' = [heap EXCEPT !.watch[w].check = check] /\ heap.watch[w].type = "service"
      BY <1>4, <2>2, <3>1
    <3> HIDE DEF check
    <3>4. /\ HeapOK(heap', 0, ToSet(<<>>)) /\ Evolves(heap, heap') /\ Rechecked(heap, heap')
          /\ Asked(heap, heap', w, check)
      BY ONLY <1>1, <3>2, <3>3, CheckKeeps
    <3>5. heap'.watch[w].check = NULL /\ \A v \in Id \ {w} : heap'.watch[v] = heap.watch[v]
      BY <3>4 DEF Asked, check
    <3>6. Settles(heap, heap', w)
      BY <1>1, <3>5, <2>2 DEF HeapOK, Fresh, Settles
    <3> QED BY <3>4, <3>6
  <2>3. CASE heap.watch[w] # NULL /\ m.owner # Nobody
    <3>1. Appeared(w, m.owner, "connected")
      BY <1>2, <1>3, <2>3 DEF service_reply
    <3>2. PICK n, k, read : n = NameOf(w) /\ read = m.owner /\ k = update_name_cache(heap, n, read)
      OBVIOUS
    <3>3. heap' \in ClientCode([k EXCEPT !.watch[w].check = NULL])
      BY <3>1, <3>2 DEF Appeared, SetHeap
    <3>4. n = heap.listener[heap.watch[w].listener].rule.argument
      BY <3>2 DEF NameOf
    <3>5. read \in Unique \cup {NULL, Nobody, Garbage} /\ w \in Live(heap) /\ heap.watch[w].type = "service"
      BY <1>2, <1>3, <1>4, <2>3, <3>2 DEF Reply, Live
    <3> QED BY ONLY <1>1, <3>2, <3>3, <3>4, <3>5, AppearedKeeps
  <2> QED BY <2>1, <2>2, <2>3
<1> QED BY <1>2, <1>3, <1>5 DEF service_reply

(* All that changes the heap between two signals.                            *)
LEMMA RestfulLists ==
  ASSUME ListsInv, service_reply \/ Client \/ \E w \in Id : update_service(w)
  PROVE  /\ Idle /\ HeapOK(heap', 0, ToSet(<<>>)) /\ Evolves(heap, heap')
         /\ UNCHANGED <<filtering, owner, status>> /\ ListsInv'
<1>1. Idle
  BY DEF service_reply, Client, update_service
<1>2. HeapOK(heap, 0, ToSet(<<>>)) /\ Answers(inbox, heap) /\ inbox \in Seq(Signal \cup Reply)
  BY <1>1, Resting DEF ListsInv, TypeOK
<1>3. /\ HeapOK(heap', 0, ToSet(<<>>)) /\ Evolves(heap, heap')
      /\ UNCHANGED <<filtering, owner, status>> /\ Answers(inbox', heap)
      /\ inbox' \in Seq(Signal \cup Reply)
  <2>1. CASE service_reply
    <3>1. inbox # <<>>
      BY <2>1 DEF service_reply
    <3> QED BY <1>2, <2>1, <3>1, Replied, AnswersTail
  <2>2. CASE Client
    <3>1. heap' \in ClientCode(heap) /\ UNCHANGED <<filtering, owner, inbox, status>>
      BY <2>2 DEF Client, SetHeap
    <3>2. HeapOK(heap', 0, ToSet(<<>>)) /\ Evolves(heap, heap')
      BY ONLY <1>2, <3>1, ClientKeeps
    <3> QED BY <1>2, <3>1, <3>2
  <2>3. ASSUME NEW w \in Id, update_service(w)
        PROVE  /\ HeapOK(heap', 0, ToSet(<<>>)) /\ Evolves(heap, heap')
               /\ UNCHANGED <<filtering, owner, inbox, status>>
    BY <2>3, Updated
  <2> QED BY <1>2, <2>1, <2>2, <2>3
<1>4. ListsInv'
  BY <1>1, <1>3, RestLists
<1> QED BY <1>1, <1>3, <1>4

(* The remaining actions keep ListsInv too.                                  *)
LEMMA RemovedAll == ASSUME ListsInv, g_dbus_remove_all_watches PROVE ListsInv'
<1>1. heap' \in HeapType /\ status' = "undefined" /\ UNCHANGED <<filtering, owner, inbox>>
  BY EmptyHeapOK DEF g_dbus_remove_all_watches
<1> QED BY <1>1 DEF ListsInv, TypeOK, filtering

LEMMA SignalArrives ==
  ASSUME ListsInv, NEW m \in Signal, Deliver(m), EnvironmentMay,
         owner' \in [Sender -> Unique \cup {Nobody}]
  PROVE  ListsInv'
<1>1. UNCHANGED <<heap, filtering, status>> /\ status = "running"
  BY DEF EnvironmentMay
<1>2. HeapOK(heap, current, ToSet(doomed)) /\ Answers(inbox, heap) /\ inbox \in Seq(Signal \cup Reply)
  BY <1>1 DEF ListsInv, TypeOK
<1>3. inbox' \in Seq(Signal \cup Reply) /\ Answers(inbox', heap)
  <2>1. m \notin Reply
    BY Apart
  <2>2. Append(inbox, m) \in Seq(Signal \cup Reply) /\ Answers(Append(inbox, m), heap)
    BY <1>2, <2>1, AnswersAppend
  <2> QED BY <1>2, <2>2 DEF Deliver
<1> QED BY <1>1, <1>2, <1>3 DEF ListsInv, TypeOK, filtering

LEMMA EnvironmentLists == ASSUME ListsInv, Environment PROVE ListsInv'
<1>1. owner \in [Sender -> Unique \cup {Nobody}]
  BY DEF ListsInv
<1>2. \A n \in Sender, new \in Unique \cup {Nobody} : NameOwnerChanged(n, new) \in Signal
  BY WatchAssumption DEF NameOwnerChanged, Signal
<1>3. ASSUME NEW n \in Name, ReleaseName(n) PROVE ListsInv'
  <2>1. NameOwnerChanged(n, Nobody) \in Signal /\ owner' \in [Sender -> Unique \cup {Nobody}]
    BY <1>1, <1>2, <1>3 DEF ReleaseName, Sender
  <2> QED BY <1>3, <2>1, SignalArrives DEF ReleaseName
<1>4. ASSUME NEW n \in Name, NEW u \in Unique, RequestName(n, u) PROVE ListsInv'
  <2>1. NameOwnerChanged(n, u) \in Signal /\ owner' \in [Sender -> Unique \cup {Nobody}]
    BY <1>1, <1>2, <1>4 DEF RequestName, Sender
  <2> QED BY <1>4, <2>1, SignalArrives DEF RequestName
<1>5. ASSUME NEW u \in Unique, Disconnect(u) PROVE ListsInv'
  <2>1. NameOwnerChanged(u, Nobody) \in Signal /\ owner' \in [Sender -> Unique \cup {Nobody}]
    BY <1>1, <1>2, <1>5 DEF Disconnect, Sender
  <2> QED BY <1>5, <2>1, SignalArrives DEF Disconnect
<1>6. ASSUME NEW u \in Unique, NEW t \in Topic, EmitSignal(u, t) PROVE ListsInv'
  <2>1. [sender |-> u, topic |-> t, argument |-> NULL, new |-> NULL] \in Signal
    BY DEF Signal
  <2>2. owner' = owner
    BY <1>6 DEF EmitSignal
  <2> QED BY <1>1, <1>6, <2>1, <2>2, SignalArrives DEF EmitSignal
<1> QED BY <1>3, <1>4, <1>5, <1>6 DEF Environment

LEMMA AskLists == ASSUME ListsInv, NEW w \in Id, GetNameOwner(w) PROVE ListsInv'
<1>1. UNCHANGED <<heap, filtering, owner, status>> /\ status = "running"
  BY DEF GetNameOwner
<1>2. HeapOK(heap, current, ToSet(doomed)) /\ Answers(inbox, heap) /\ inbox \in Seq(Signal \cup Reply)
  BY <1>1 DEF ListsInv, TypeOK
<1>3. w \in Live(heap) /\ heap.watch[w].type = "service"
  <2>1. w \in Live(heap) /\ heap.watch[w].check # NULL
    <3>1. heap.watch[w].check = "asked" /\ heap.watch[w] # NULL /\ NULL # "asked"
      BY RecordsAssumption DEF GetNameOwner
    <3> QED BY <3>1 DEF Live
  <2> QED BY <1>2, <2>1 DEF HeapOK, Kinds
<1>4. NameOf(w) \in Sender
  BY <1>2, <1>3, Names DEF NameOf
<1>5. PICK m : m = [watch |-> w, owner |-> owner[NameOf(w)]]
  OBVIOUS
<1>6. m \in Reply /\ m.watch = w
  BY <1>4, <1>5 DEF ListsInv, Reply
<1>7. w <= heap.listener_id
  <2>1. heap.listener_id \in Nat
    BY <1>2, HeapParts DEF HeapOK, Lists
  <2> QED BY <1>2, <1>3, <2>1 DEF HeapOK, Fresh, Live, Id
<1>8. Append(inbox, m) \in Seq(Signal \cup Reply) /\ Answers(Append(inbox, m), heap)
  BY <1>2, <1>3, <1>6, <1>7, AnswersAppend
<1>9. inbox' = Append(inbox, m)
  BY <1>5 DEF GetNameOwner
<1> QED BY <1>1, <1>2, <1>8, <1>9 DEF ListsInv, TypeOK, filtering

(* ListsInv is inductive.                                                    *)
LEMMA ListsStep == ListsInv /\ [Next]_vars => ListsInv'
<1> SUFFICES ASSUME ListsInv, [Next]_vars PROVE ListsInv'
  OBVIOUS
<1>1. CASE UNCHANGED vars
  BY <1>1 DEF vars, ListsInv, TypeOK
<1>2. CASE Filter
  BY <1>2, MessageLists, FilterLists, NextLists, EndLists DEF Filter
<1>3. CASE service_reply \/ Client \/ \E w \in Id : update_service(w)
  BY <1>3, RestfulLists
<1>4. CASE g_dbus_remove_all_watches
  BY <1>4, RemovedAll
<1>5. CASE \E w \in Id : GetNameOwner(w)
  BY <1>5, AskLists
<1>6. CASE Environment
  BY <1>6, EnvironmentLists
<1> QED BY <1>1, <1>2, <1>3, <1>4, <1>5, <1>6 DEF Next

(* The lists and the caches are sound, whatever the functions called do.     *)
LEMMA ListsAlways == Spec => []ListsInv
BY InitLists, ListsStep, PTL DEF Spec
-----------------------------------------------------------------------------
(* A call to one watch leaves the others where they were.                    *)
LEMMA Undisturbed ==
  ASSUME NEW h, NEW g, NEW c \in Id, NEW w, Calls(h, g, c, w),
         NEW v \in Live(g), v <= h.listener_id, v # w
  PROVE  /\ v \in Live(h) /\ (InTurn(g, c, v) <=> InTurn(h, c, v))
         /\ \A m : /\ Unfit(g, m, v) <=> Unfit(h, m, v)
                   /\ Fits(h, m, v) => Fits(g, m, v)
<1>1. /\ v \in Live(h)
      /\ g.watch[v].type = h.watch[v].type /\ g.watch[v].listener = h.watch[v].listener
      /\ g.listener[g.watch[v].listener].rule = h.listener[h.watch[v].listener].rule
      /\ h.listener[h.watch[v].listener].rule.name = NULL =>
           g.listener[g.watch[v].listener].owner = h.listener[h.watch[v].listener].owner
      /\ Before(g.listeners, c, g.watch[v].listener) <=> Before(h.listeners, c, h.watch[v].listener)
      /\ Contains(g.listener[c].callbacks, v) <=> Contains(h.listener[c].callbacks, v)
  BY DEF Calls
<1>2. InTurn(g, c, v) <=> InTurn(h, c, v)
  BY <1>1 DEF InTurn
<1>3. \A m : Unfit(g, m, v) <=> Unfit(h, m, v)
  BY <1>1 DEF Unfit
<1>4. \A m : Fits(h, m, v) => Fits(g, m, v)
  BY <1>1 DEF Fits, Matches
<1> QED BY <1>1, <1>2, <1>3, <1>4

(* Its own turn is over.                                                     *)
LEMMA Over ==
  ASSUME NEW h, NEW g, NEW c \in Id, NEW D, HeapOK(h, c, D), HeapOK(g, c, D), NEW w \in Live(h),
         w \in Live(g), h.watch[w].listener = c, Calls(h, g, c, w)
  PROVE  ~InTurn(g, c, w) /\ g.watch[w].type = h.watch[w].type
         /\ \A m : Fits(h, m, w) => Fits(g, m, w)
<1>1. w <= h.listener_id
  <2>1. h.listener_id \in Nat /\ w \in Id
    BY HeapParts DEF HeapOK, Lists, Live
  <2> QED BY <2>1 DEF HeapOK, Fresh, Live, Id
<1>2. /\ g.watch[w].type = h.watch[w].type /\ g.watch[w].listener = c
      /\ g.listener[c].rule = h.listener[c].rule
      /\ h.listener[c].rule.name = NULL => g.listener[c].owner = h.listener[c].owner
      /\ ~Contains(g.listener[c].callbacks, w)
  BY <1>1 DEF Calls
<1>3. ~Before(g.listeners, c, c)
  <2>1. IsInjective(g.listeners) /\ g.listeners \in Seq(Id)
    BY HeapParts DEF HeapOK, Lists
  <2>2. \A i, j \in 1 .. Len(g.listeners) : g.listeners[i] = g.listeners[j] => i = j
    BY <2>1 DEF IsInjective
  <2> QED BY <2>1, <2>2 DEF Before
<1>4. ~InTurn(g, c, w)
  BY <1>2, <1>3 DEF InTurn
<1>5. \A m : Fits(h, m, w) => Fits(g, m, w)
  BY <1>2 DEF Fits, Matches
<1> QED BY <1>2, <1>4, <1>5

(* What the call is recorded as.                                             *)
LEMMA Recorded ==
  ASSUME ListsInv, Turns, service_filter \/ signal_filter,
         NEW w, w = Head(heap.listener[current].callbacks)
  PROVE  /\ called[w] # "called"
         /\ called' = [called EXCEPT ![w] = "called"]
              \/ (called' = called /\ Unfit(heap, message, w))
<1>1. /\ status = "running" /\ current # 0 /\ heap.listener[current].callbacks # <<>>
  BY DEF service_filter, signal_filter
<1>2. /\ current \in Id /\ w \in Live(heap) /\ heap.watch[w].listener = current
      /\ Contains(heap.listener[current].callbacks, w) /\ HeapOK(heap, current, ToSet(doomed))
  BY <1>1, Calling
<1>3. InTurn(heap, current, w)
  BY <1>1, <1>2 DEF InTurn
<1>4. called[w] # "called" /\ w \in Id /\ called[w] \in {"new", "due", "called"}
  BY <1>1, <1>2, <1>3 DEF Turns, InOrder, Live
<1>5. Called(w) => called' = [called EXCEPT ![w] = "called"]
  BY <1>4 DEF Called
<1>6. CASE signal_filter
  BY <1>4, <1>5, <1>6 DEF signal_filter
<1>7. CASE service_filter
  <2>1. heap.watch[w].type # "signal"
    BY <1>2, <1>7 DEF service_filter, IsService, HeapOK, Kinds
  <2>2. Called(w) \/ (called' = called /\ ~HasFunction(heap.watch[w].type, message.new))
    BY <1>7 DEF service_filter
  <2> QED BY <1>4, <1>5, <2>1, <2>2 DEF Unfit
<1> QED BY <1>6, <1>7

(* Calls keep Turns.                                                         *)
LEMMA FilterTurns ==
  ASSUME ListsInv, Turns, service_filter \/ signal_filter
  PROVE  Turns'
<1>1. status = "running" /\ current # 0 /\ heap.listener[current].callbacks # <<>>
  BY DEF service_filter, signal_filter
<1>2. PICK w : w = Head(heap.listener[current].callbacks)
  OBVIOUS
<1>3. /\ current \in Id /\ w \in Live(heap) /\ w \in Id /\ heap.watch[w].listener = current
      /\ HeapOK(heap, current, ToSet(doomed)) /\ heap \in HeapType /\ message \in Signal
  BY <1>1, <1>2, Calling
<1>4. PICK g : g = heap'
  OBVIOUS
<1>5. /\ HeapOK(g, current, ToSet(doomed)) /\ Calls(heap, g, current, w)
      /\ UNCHANGED <<current, message, status>> /\ g \in HeapType
  BY <1>1, <1>2, <1>4, Filtered DEF filtering, HeapOK, Lists
<1>6. /\ called[w] # "called"
      /\ called' = [called EXCEPT ![w] = "called"]
           \/ (called' = called /\ Unfit(heap, message, w))
  BY <1>2, Recorded
<1>7. called' \in [Id -> {"new", "due", "called"}]
  BY <1>3, <1>6 DEF Turns
<1>8. \A v \in Id : v # w => called'[v] = called[v]
  BY <1>3, <1>6 DEF Turns
<1>9. heap.listener_id <= g.listener_id /\ heap.listener_id \in Nat /\ g.listener_id \in Nat
  BY <1>3, <1>5, HeapParts DEF Calls
<1>10. w <= heap.listener_id
  BY <1>3, <1>9 DEF HeapOK, Fresh, Live, Id
<1>11. ASSUME NEW v \in Id, called'[v] # "new" PROVE v <= g.listener_id /\ message' # NULL
  <2>1. v <= heap.listener_id
    BY <1>8, <1>10, <1>11 DEF Turns
  <2> QED BY <1>3, <1>5, <1>9, <2>1, RecordsAssumption DEF Id
<1>12. ASSUME NEW v \in Live(g) PROVE InOrder(g, current, message, v, called'[v])
  <2>1. CASE v > heap.listener_id
    <3>1. v \in Id /\ ~(v <= heap.listener_id) /\ v # w
      BY <1>9, <1>10, <2>1 DEF Live, Id
    <3>2. called'[v] = "new"
      BY <1>8, <3>1 DEF Turns
    <3> QED BY <3>2 DEF InOrder
  <2>2. CASE v <= heap.listener_id /\ v # w
    <3>1. /\ v \in Live(heap) /\ (InTurn(g, current, v) <=> InTurn(heap, current, v))
          /\ Unfit(g, message, v) <=> Unfit(heap, message, v)
          /\ Fits(heap, message, v) => Fits(g, message, v)
      BY ONLY <1>3, <1>5, <1>12, <2>2, Undisturbed
    <3>2. InOrder(heap, current, message, v, called[v])
      BY <1>1, <3>1 DEF Turns
    <3>3. called'[v] = called[v]
      BY <1>8, <2>2 DEF Live
    <3> QED BY <3>1, <3>2, <3>3 DEF InOrder
  <2>3. CASE v = w
    <3>1. /\ ~InTurn(g, current, w) /\ g.watch[w].type = heap.watch[w].type
          /\ \A m : Fits(heap, m, w) => Fits(g, m, w)
      <4>1. w \in Live(g)
        BY <1>12, <2>3
      <4> QED BY ONLY <1>3, <1>5, <4>1, Over
    <3>2. CASE called' = [called EXCEPT ![w] = "called"]
      <4>1. called'[w] = "called"
        BY <1>3, <3>2 DEF Turns
      <4> QED BY <2>3, <3>1, <4>1 DEF InOrder
    <3>3. CASE called' = called /\ Unfit(heap, message, w)
      <4>1. InOrder(heap, current, message, w, called[w])
        BY <1>1, <1>3 DEF Turns
      <4>2. Unfit(g, message, w)
        BY <3>1, <3>3 DEF Unfit
      <4> QED BY <1>6, <2>3, <3>1, <3>3, <4>1, <4>2 DEF InOrder
    <3> QED BY <1>6, <3>2, <3>3
  <2>4. v > heap.listener_id \/ v <= heap.listener_id
    BY <1>9 DEF Live, Id
  <2> QED BY <2>1, <2>2, <2>3, <2>4
<1>13. \A v \in Live(heap') : InOrder(heap', current', message', v, called'[v])
  BY <1>4, <1>5, <1>12
<1> QED BY <1>4, <1>5, <1>7, <1>11, <1>13 DEF Turns

(* Whose turn it is once message_filter has gone on from the position i: all *)
(* behind it that the signal fits, none before.                              *)
LEMMA TurnsTaken ==
  ASSUME NEW h, NEW D, HeapOK(h, 0, D), NEW i \in Nat, NEW m \in Signal,
         NEW l, l = NextMatch(h, i, m), NEW g, g = IF l = 0 THEN h ELSE Lock(h, l, m),
         NEW w \in Live(h), NEW p \in 1 .. Len(h.listeners), h.listeners[p] = h.watch[w].listener
  PROVE  /\ Unfit(h, m, w) => Unfit(g, m, w)
         /\ Fits(h, m, w) => Fits(g, m, w)
         /\ p <= i => ~InTurn(g, l, w)
         /\ p > i /\ Fits(h, m, w) => l # 0 /\ InTurn(g, l, w)
<1>1. /\ HeapOK(g, l, D) /\ l \in Id \cup {0} /\ Evolves(h, g) /\ (l # 0 => Matches(h.listener[l], m))
      /\ g.watch = h.watch /\ g.listeners = h.listeners /\ g.listener_id = h.listener_id
  BY ONLY HeapOK(h, 0, D), i \in Nat, m \in Signal, l = NextMatch(h, i, m),
          g = IF l = 0 THEN h ELSE Lock(h, l, m), EnterKeeps
<1>2. h \in HeapType /\ h.listeners \in Seq(Id) /\ h.listener_id \in Nat /\ IsInjective(h.listeners)
  BY HeapParts DEF HeapOK, Lists
<1>3. PICK k \in Id : k = h.listeners[p]
  BY <1>2, ElementOfSeq
<1>4. Contains(h.listeners, k) /\ h.listener[k] # NULL /\ k = h.watch[w].listener
  <2>1. Contains(h.listeners, k)
    BY <1>2, <1>3 DEF Contains
  <2> QED BY <1>3, <2>1 DEF HeapOK, Lists
<1>5. g.listener[k] # NULL
  BY <1>1, <1>3, <1>4 DEF HeapOK, Lists
<1>6. \A x \in Id : ~(x > h.listener_id) => x <= h.listener_id
  BY <1>2 DEF Id
<1>7. k <= h.listener_id /\ w <= h.listener_id /\ w \in Id /\ h.watch[w] # NULL
  BY <1>4, <1>6 DEF HeapOK, Fresh, Live
<1>8. /\ g.listener[k].rule = h.listener[k].rule
      /\ h.listener[k].rule.name = NULL => g.listener[k].owner = h.listener[k].owner
      /\ Contains(g.listener[k].callbacks, w) <=> Contains(h.listener[k].callbacks, w)
  BY <1>1, <1>5, <1>7 DEF Evolves
<1>9. Unfit(h, m, w) => Unfit(g, m, w)
  BY <1>1 DEF Unfit
<1>10. Fits(h, m, w) => Fits(g, m, w)
  BY <1>1, <1>4, <1>8 DEF Fits, Matches
<1>11. Contains(h.listener[k].callbacks, w)
  <2>1. Has(h.listener[k], w) /\ ~h.listener[k].lock /\ Sound(h.listener[k])
    <3>1. k # 0
      BY DEF Id
    <3> QED BY <1>4, <1>7, <3>1 DEF HeapOK, Lists, Locks
  <2>2. ~Contains(<<>>, w)
    BY DEF Contains
  <2> QED BY <2>1, <2>2 DEF Has, Sound
<1>12. CASE l = 0
  <2>1. ~InTurn(g, l, w)
    BY <1>12 DEF InTurn
  <2>2. ~(p > i /\ Fits(h, m, w))
    <3>1. \A j \in 1 .. Len(h.listeners) : j > i => ~Matches(h.listener[h.listeners[j]], m)
      <4>1. 0 \notin Id
        BY DEF Id
      <4> QED BY ONLY <1>2, <1>12, <4>1, i \in Nat, l = NextMatch(h, i, m), NextMatchFacts
    <3> QED BY <1>3, <1>4, <3>1 DEF Fits
  <2> QED BY <1>9, <1>10, <2>1, <2>2
<1>13. CASE l # 0
  <2>1. PICK n \in 1 .. Len(h.listeners) :
          /\ n > i /\ l = h.listeners[n] /\ l \in Id
          /\ \A j \in 1 .. Len(h.listeners) :
               j > i /\ Matches(h.listener[h.listeners[j]], m) => n <= j
    BY ONLY <1>2, <1>13, i \in Nat, l = NextMatch(h, i, m), NextMatchFacts
  <2>2. ASSUME p <= i PROVE ~InTurn(g, l, w)
    <3>1. n # p /\ ~(n < p)
      BY <2>1, <2>2
    <3>2. l # k
      BY <1>2, <1>3, <2>1, <3>1 DEF IsInjective
    <3>3. ~Contains(g.listener[l].callbacks, w)
      <4>1. g.listener[l] # NULL
        BY <1>1, <2>1 DEF HeapOK, Locks
      <4>2. l \in Id /\ Has(g.listener[l], w) => g.watch[w].listener = l
        BY <1>1, <1>7, <2>1, <4>1 DEF HeapOK, Lists
      <4>3. g.watch[w].listener = k
        BY <1>1, <1>4
      <4> QED BY <2>1, <3>2, <4>2, <4>3 DEF Has
    <3>4. ~Before(g.listeners, l, k)
      <4>1. \A a, b \in 1 .. Len(h.listeners) :
              h.listeners[a] = l /\ h.listeners[b] = k => a = n /\ b = p
        BY <1>2, <1>3, <2>1 DEF IsInjective
      <4>2. ASSUME NEW a \in 1 .. Len(h.listeners), NEW b \in 1 .. Len(h.listeners), a < b,
                   h.listeners[a] = l, h.listeners[b] = k
            PROVE  FALSE
        <5>1. a = n /\ b = p
          BY <4>1, <4>2
        <5> QED BY <3>1, <4>2, <5>1
      <4> QED BY <1>1, <4>2 DEF Before
    <3> QED BY <1>1, <1>4, <3>3, <3>4 DEF InTurn
  <2>3. ASSUME p > i, Fits(h, m, w) PROVE InTurn(g, l, w)
    <3>1. n <= p
      BY <1>3, <1>4, <2>1, <2>3 DEF Fits
    <3>2. CASE n = p
      BY <1>3, <1>8, <1>11, <1>13, <2>1, <3>2 DEF InTurn
    <3>3. CASE n < p
      <4>1. Before(h.listeners, l, k)
        BY <1>2, <1>3, <2>1, <3>3 DEF Before
      <4> QED BY <1>1, <1>4, <1>13, <4>1 DEF InTurn
    <3> QED BY <3>1, <3>2, <3>3
  <2> QED BY <1>9, <1>10, <1>13, <2>2, <2>3
<1> QED BY <1>12, <1>13

(* Where the listener of a watch is.                                         *)
LEMMA Placed ==
  ASSUME NEW h, NEW c, NEW D, HeapOK(h, c, D), NEW w \in Live(h)
  PROVE  /\ w \in Id /\ w <= h.listener_id /\ h.listeners \in Seq(Id)
         /\ \E p \in 1 .. Len(h.listeners) : h.listeners[p] = h.watch[w].listener
<1>1. h.listeners \in Seq(Id) /\ h.listener_id \in Nat /\ w \in Id /\ h.watch[w] # NULL
  BY HeapParts DEF HeapOK, Lists, Live
<1>2. PICK l \in Id : l = h.watch[w].listener
  BY <1>1, HeapParts DEF HeapOK, Lists, Callback
<1>3. Contains(h.listeners, l)
  BY <1>2 DEF HeapOK, Lists
<1>4. w <= h.listener_id
  BY <1>1 DEF HeapOK, Fresh, Id
<1> QED BY <1>1, <1>2, <1>3, <1>4 DEF Contains

(* A signal is due to the watches of all listeners it fits.                  *)
LEMMA MessageTurns == ASSUME ListsInv, Turns, message_filter PROVE Turns'
<1>1. PICK m \in Signal : m = Head(inbox)
  BY DEF message_filter
<1>2. HeapOK(heap, 0, ToSet(<<>>)) /\ heap \in HeapType /\ status = "running"
  BY Resting DEF message_filter, Idle
<1>3. PICK l, g : l = NextMatch(heap, 0, m) /\ g = IF l = 0 THEN heap ELSE Lock(heap, l, m)
  OBVIOUS
<1>4. /\ HeapOK(g, l, ToSet(<<>>)) /\ l \in Id \cup {0} /\ g.watch = heap.watch /\ g.listener_id = heap.listener_id
  <2>1. 0 \in Nat
    OBVIOUS
  <2> QED BY ONLY <1>1, <1>2, <1>3, <2>1, EnterKeeps
<1>5. /\ current' = l /\ heap' = g /\ status' = status
      /\ message' = IF l = 0 THEN NULL ELSE m
      /\ called' = [w \in Id |-> IF Due(w, m) THEN "due" ELSE "new"]
  BY <1>1, <1>3 DEF message_filter, Enter
<1>6. ASSUME NEW w \in Id, called'[w] # "new"
      PROVE  w <= g.listener_id /\ message' = m /\ m # NULL /\ Fits(g, m, w) /\ InTurn(g, l, w)
  <2>1. w \in Live(heap) /\ Fits(heap, m, w)
    BY <1>5, <1>6 DEF Due, Fits
  <2>2. PICK p \in 1 .. Len(heap.listeners) : heap.listeners[p] = heap.watch[w].listener
    BY ONLY <1>2, <2>1, Placed
  <2>3. w <= heap.listener_id /\ p > 0 /\ 0 \in Nat
    BY <1>2, <2>1, <2>2, Placed
  <2>4. Fits(g, m, w) /\ l # 0 /\ InTurn(g, l, w)
    BY ONLY <1>1, <1>2, <1>3, <2>1, <2>2, <2>3, TurnsTaken
  <2>5. m # NULL
    BY RecordsAssumption
  <2> QED BY <1>4, <1>5, <2>3, <2>4, <2>5
<1>7. \A w \in Id : called'[w] \in {"new", "due"}
  BY <1>5
<1>8. ASSUME NEW w \in Live(g) PROVE InOrder(g, l, message', w, called'[w])
  BY <1>6, <1>7 DEF InOrder, Live
<1> QED BY <1>5, <1>6, <1>7, <1>8 DEF Turns

(* What next_listener does to the heap: it gives its watches other places,   *)
(* and goes on.                                                              *)
LEMMA NextHeap ==
  ASSUME ListsInv, next_listener
  PROVE  \E h, D :
           /\ h \in HeapType
           /\ HeapOK(heap, current, ToSet(doomed)) /\ HeapOK(h, 0, D) /\ Places(heap, h, current)
           /\ HeapOK(heap', current', D) /\ Evolves(h, heap')
           /\ heap'.watch = h.watch /\ heap'.listener_id = h.listener_id
           /\ current' # 0 => current' \in Id /\ Matches(h.listener[current'], message)
           /\ heap'.watch = heap.watch /\ heap'.listener_id = heap.listener_id
<1>1. PICK h : h = Unlock(heap, current)
  OBVIOUS
<1>2. PICK D : D = ToSet(doomed')
  OBVIOUS
<1>3. HeapOK(h, 0, D) /\ Places(heap, h, current) /\ h \in HeapType
  BY <1>1, <1>2, Unlocked
<1>4. /\ heap \in HeapType /\ message \in Signal /\ current \in Id /\ HeapOK(heap, current, ToSet(doomed))
  BY DEF next_listener, ListsInv, TypeOK
<1>5. PICK i \in Nat : i = Position(h.listeners, current)
  <2>1. heap.listener[current] # NULL /\ Contains(heap.listeners, current) /\ heap.listeners \in Seq(Id)
    BY <1>4, HeapParts DEF HeapOK, Locks, Lists
  <2>2. Contains(h.listeners, current) /\ h.listeners \in Seq(Id)
    BY <1>3, <2>1 DEF Places
  <2>3. Position(h.listeners, current) \in 1 .. Len(h.listeners)
    BY <2>2, FirstOf
  <2> QED BY <2>3
<1>6. PICK l, g : l = NextMatch(h, i, message) /\ g = IF l = 0 THEN h ELSE Lock(h, l, message)
  OBVIOUS
<1>7. /\ HeapOK(g, l, D) /\ l \in Id \cup {0} /\ Evolves(h, g) /\ (l # 0 => Matches(h.listener[l], message))
      /\ g.watch = h.watch /\ g.listener_id = h.listener_id
  BY ONLY <1>3, <1>4, <1>5, <1>6, EnterKeeps
<1>8. current' = l /\ heap' = g
  BY <1>1, <1>5, <1>6 DEF next_listener, Enter, Position
<1> QED BY <1>3, <1>4, <1>7, <1>8 DEF Places

(* The watches of a listener gone through are not called again; those behind *)
(* it still are.                                                             *)
LEMMA NextTurn ==
  ASSUME ListsInv, next_listener, NEW w \in Live(heap)
  PROVE  /\ Unfit(heap, message, w) => Unfit(heap', message, w)
         /\ Fits(heap, message, w) => Fits(heap', message, w)
         /\ InTurn(heap', current', w) => InTurn(heap, current, w)
         /\ InTurn(heap, current, w) /\ Fits(heap, message, w) => InTurn(heap', current', w)
<1>1. PICK h : h = Unlock(heap, current)
  OBVIOUS
<1>2. PICK D : D = ToSet(doomed')
  OBVIOUS
<1>3. HeapOK(h, 0, D) /\ Places(heap, h, current) /\ h \in HeapType
  BY <1>1, <1>2, Unlocked
<1>4. /\ heap \in HeapType /\ message \in Signal /\ current \in Id /\ HeapOK(heap, current, ToSet(doomed))
      /\ heap.listener[current].callbacks = <<>>
  BY DEF next_listener, ListsInv, TypeOK
<1>5. PICK i \in 1 .. Len(h.listeners) : i = Position(h.listeners, current) /\ h.listeners[i] = current
  <2>1. heap.listener[current] # NULL /\ Contains(heap.listeners, current) /\ heap.listeners \in Seq(Id)
    BY <1>4, HeapParts DEF HeapOK, Locks, Lists
  <2>2. Contains(h.listeners, current) /\ h.listeners \in Seq(Id)
    BY <1>3, <2>1 DEF Places
  <2> QED BY <2>2, FirstOf
<1>6. PICK l, g : l = NextMatch(h, i, message) /\ g = IF l = 0 THEN h ELSE Lock(h, l, message)
  OBVIOUS
<1>7. current' = l /\ heap' = g
  BY <1>1, <1>5, <1>6 DEF next_listener, Enter, Position
<1>8. w \in Live(h) /\ h.watch[w] = heap.watch[w] /\ h.listeners = heap.listeners
  BY <1>3 DEF Live, Places
<1>9. PICK p \in 1 .. Len(h.listeners) : h.listeners[p] = h.watch[w].listener
  BY ONLY <1>3, <1>8, Placed
<1>10. /\ Unfit(h, message, w) => Unfit(g, message, w)
       /\ Fits(h, message, w) => Fits(g, message, w)
       /\ p <= i => ~InTurn(g, l, w)
       /\ p > i /\ Fits(h, message, w) => l # 0 /\ InTurn(g, l, w)
  <2>1. i \in Nat
    OBVIOUS
  <2> QED BY ONLY <1>3, <1>4, <1>6, <1>8, <1>9, <2>1, TurnsTaken
<1>11. p > i => InTurn(heap, current, w)
  <2>1. h.listeners \in Seq(Id) /\ current # 0
    BY <1>3, <1>4, HeapParts DEF Id
  <2>2. ASSUME p > i PROVE Before(heap.listeners, current, heap.watch[w].listener)
    BY <1>5, <1>8, <1>9, <2>1, <2>2 DEF Before
  <2> QED BY <2>1, <2>2 DEF InTurn
<1>12. InTurn(heap, current, w) => p > i
  <2>1. ASSUME InTurn(heap, current, w) PROVE Before(h.listeners, current, h.watch[w].listener)
    <3>1. ~Contains(<<>>, w)
      BY DEF Contains
    <3> QED BY <1>4, <1>8, <2>1, <3>1 DEF InTurn
  <2>2. \A a, b \in 1 .. Len(h.listeners) :
          h.listeners[a] = current /\ h.listeners[b] = h.watch[w].listener => a = i /\ b = p
    BY <1>3, <1>5, <1>9 DEF HeapOK, Lists, IsInjective
  <2>3. h.listeners \in Seq(Id)
    BY <1>3, HeapParts
  <2> QED BY <2>1, <2>2, <2>3 DEF Before
<1>13. Unfit(heap, message, w) => Unfit(h, message, w)
  BY <1>8 DEF Unfit
<1>14. Fits(heap, message, w) => Fits(h, message, w)
  <2>1. PICK k \in Id : k = h.watch[w].listener
    BY <1>3, <1>8, HeapParts DEF Live, Callback
  <2>2. h.listener[k].rule = heap.listener[k].rule /\ h.listener[k].owner = heap.listener[k].owner
    BY <1>3 DEF Places
  <2> QED BY <1>8, <2>1, <2>2 DEF Fits, Matches
<1>15. p <= i \/ p > i
  OBVIOUS
<1> QED BY <1>7, <1>10, <1>11, <1>12, <1>13, <1>14, <1>15

LEMMA NextTurns == ASSUME ListsInv, Turns, next_listener PROVE Turns'
<1>1. UNCHANGED <<message, status, called>> /\ status = "running"
  BY DEF next_listener
<1>2. Live(heap') = Live(heap) /\ heap'.listener_id = heap.listener_id
  BY NextHeap DEF Live
<1>3. ASSUME NEW w \in Live(heap) PROVE InOrder(heap', current', message, w, called[w])
  BY <1>1, <1>3, NextTurn DEF Turns, InOrder
<1> QED BY <1>1, <1>2, <1>3 DEF Turns

(* No signal is under way: all other steps leave the watches as they are, or *)
(* make no difference.                                                       *)
LEMMA OtherTurns ==
  ASSUME ListsInv, Turns,
         \/ delete_listener \/ service_reply \/ Client \/ g_dbus_remove_all_watches
         \/ (\E w \in Id : update_service(w) \/ GetNameOwner(w)) \/ Environment \/ UNCHANGED vars
  PROVE  Turns'
<1>1. CASE delete_listener
  <2>1. called' = [w \in Id |-> "new"]
    BY <1>1 DEF delete_listener
  <2> QED BY <2>1 DEF Turns, InOrder, Live
<1>2. CASE service_reply \/ Client \/ g_dbus_remove_all_watches \/ \E w \in Id : update_service(w)
  <2>1. Idle /\ UNCHANGED called
    BY <1>2 DEF service_reply, Client, g_dbus_remove_all_watches, update_service
  <2>2. \A w \in Id : called[w] = "new"
    BY <2>1 DEF Idle, Turns
  <2> QED BY <2>1, <2>2 DEF Turns, InOrder, Live
<1>3. CASE (\E w \in Id : GetNameOwner(w)) \/ Environment \/ UNCHANGED vars
  <2>1. UNCHANGED <<heap, current, message, status, called>>
    BY <1>3 DEF GetNameOwner, Environment, ReleaseName, RequestName, Disconnect, EmitSignal,
                EnvironmentMay, filtering, vars
  <2> QED BY <2>1 DEF Turns, Live
<1> QED BY <1>1, <1>2, <1>3

(* Turns is inductive, given ListsInv.                                       *)
LEMMA TurnsStep == ListsInv /\ Turns /\ [Next]_vars => Turns'
<1> SUFFICES ASSUME ListsInv, Turns, [Next]_vars PROVE Turns'
  OBVIOUS
<1>1. CASE Filter
  BY <1>1, MessageTurns, FilterTurns, NextTurns, OtherTurns DEF Filter
<1>2. CASE ~Filter
  BY <1>2, OtherTurns DEF Next
<1> QED BY <1>1, <1>2

LEMMA InitTurns == Init => Turns
BY DEF Init, Turns, InOrder, Live

LEMMA TurnsAlways == Spec => []Turns
BY InitTurns, TurnsStep, ListsAlways, PTL DEF Spec
-----------------------------------------------------------------------------
(* A concatenation of two lists without a common element.                    *)
LEMMA Concatenated ==
  ASSUME NEW a \in Seq(Id), NEW b \in Seq(Id), IsInjective(a), IsInjective(b),
         \A w \in Id : ~(Contains(a, w) /\ Contains(b, w))
  PROVE  /\ IsInjective(a \o b)
         /\ \A w : w \in ToSet(a \o b) <=> Contains(a, w) \/ Contains(b, w)
<1>1. PICK s : s = a \o b
  OBVIOUS
<1>2. /\ s \in Seq(Id) /\ Len(s) = Len(a) + Len(b)
      /\ \A i \in 1 .. Len(a) : s[i] = a[i]
      /\ \A i \in 1 .. Len(b) : s[i + Len(a)] = b[i]
  BY <1>1, ConcatProperties
<1>3. \A i \in 1 .. Len(s) : \/ i \in 1 .. Len(a) /\ s[i] = a[i]
                             \/ i - Len(a) \in 1 .. Len(b) /\ s[i] = b[i - Len(a)]
  <2> SUFFICES ASSUME NEW i \in 1 .. Len(s), i \notin 1 .. Len(a)
               PROVE  i - Len(a) \in 1 .. Len(b) /\ s[i] = b[i - Len(a)]
    BY <1>2
  <2>1. i - Len(a) \in 1 .. Len(b)
    BY <1>2
  <2>2. s[(i - Len(a)) + Len(a)] = b[i - Len(a)]
    BY <1>2, <2>1
  <2>3. (i - Len(a)) + Len(a) = i
    BY <1>2
  <2> QED BY <2>1, <2>2, <2>3
<1>4. IsInjective(s)
  <2> SUFFICES ASSUME NEW i \in 1 .. Len(s), NEW j \in 1 .. Len(s), s[i] = s[j] PROVE i = j
    BY <1>2 DEF IsInjective
  <2>1. \A k \in 1 .. Len(a) : a[k] \in Id /\ Contains(a, a[k])
    BY DEF Contains
  <2>2. \A k \in 1 .. Len(b) : Contains(b, b[k])
    BY DEF Contains
  <2>3. CASE i \in 1 .. Len(a) /\ s[i] = a[i] /\ j \in 1 .. Len(a) /\ s[j] = a[j]
    <3>1. \A x, y \in 1 .. Len(a) : a[x] = a[y] => x = y
      BY DEF IsInjective
    <3>2. a[i] = a[j]
      BY <2>3
    <3> QED BY <2>3, <3>1, <3>2
  <2>4. CASE /\ i - Len(a) \in 1 .. Len(b) /\ s[i] = b[i - Len(a)]
             /\ j - Len(a) \in 1 .. Len(b) /\ s[j] = b[j - Len(a)]
    <3>1. \A x, y \in 1 .. Len(b) : b[x] = b[y] => x = y
      BY DEF IsInjective
    <3>2. i - Len(a) = j - Len(a)
      BY <2>4, <3>1
    <3> QED BY <1>2, <3>2
  <2> QED BY <1>3, <2>1, <2>2, <2>3, <2>4
<1>5. ASSUME NEW w, w \in ToSet(s) PROVE Contains(a, w) \/ Contains(b, w)
  BY <1>2, <1>3, <1>5 DEF ToSet, Contains
<1>6. ASSUME NEW w, Contains(a, w) PROVE w \in ToSet(s)
  BY <1>2, <1>6 DEF ToSet, Contains
<1>7. ASSUME NEW w, Contains(b, w) PROVE w \in ToSet(s)
  <2>1. PICK i \in 1 .. Len(b) : b[i] = w
    BY <1>7 DEF Contains
  <2>2. i + Len(a) \in 1 .. Len(s) /\ s[i + Len(a)] = w
    BY <1>2, <2>1
  <2> QED BY <1>2, <2>2 DEF ToSet
<1> QED BY <1>1, <1>4, <1>5, <1>6, <1>7

(* ListsInv is the inductive form of ListsExact.                             *)
LEMMA ListsAreExact == ListsInv => ListsExact
<1> SUFFICES ASSUME ListsInv, status = "running" PROVE ListsExact
  BY DEF ListsExact
<1>1. /\ HeapOK(heap, current, ToSet(doomed)) /\ heap \in HeapType
      /\ heap.listeners \in Seq(Id)
  BY HeapParts DEF ListsInv, TypeOK
<1>2. \A l : l \in ToSet(heap.listeners) <=> Contains(heap.listeners, l)
  BY <1>1 DEF ToSet, Contains
<1>3. \A l \in ToSet(heap.listeners) : l \in Id /\ heap.listener[l] # NULL
  <2>1. \A l \in ToSet(heap.listeners) : l \in Id
    BY <1>1 DEF ToSet
  <2> QED BY <1>1, <1>2, <2>1 DEF HeapOK, Lists
<1>4. ASSUME NEW l \in ToSet(heap.listeners)
      PROVE  /\ IsInjective(Listed(l))
             /\ ToSet(Listed(l)) = {w \in Live(heap) : heap.watch[w].listener = l}
             /\ Idle => /\ heap.listener[l].callbacks # <<>> /\ heap.listener[l].processed = <<>>
                        /\ ~heap.listener[l].lock
  <2>1. PICK f \in Listener : f = heap.listener[l] /\ Sound(f)
    BY <1>1, <1>3, HeapParts DEF HeapOK, Lists
  <2>2. /\ f.callbacks \in Seq(Id) /\ f.processed \in Seq(Id)
        /\ IsInjective(f.callbacks) /\ IsInjective(f.processed)
        /\ \A w \in Id : ~(Contains(f.callbacks, w) /\ Contains(f.processed, w))
    BY <2>1, ListenerParts DEF Sound
  <2>3. /\ IsInjective(Listed(l))
        /\ \A w : w \in ToSet(Listed(l)) <=> Has(f, w)
    <3>1. /\ IsInjective(f.callbacks \o f.processed)
          /\ \A w : w \in ToSet(f.callbacks \o f.processed)
                      <=> Contains(f.callbacks, w) \/ Contains(f.processed, w)
      BY ONLY <2>2, Concatenated
    <3> QED BY <2>1, <3>1 DEF Listed, Has
  <2>4. \A w \in Id : Has(f, w) <=> heap.watch[w] # NULL /\ heap.watch[w].listener = l
    BY <1>1, <1>3, <2>1 DEF HeapOK, Lists
  <2>5. \A w : Has(f, w) => w \in Id
    BY <2>2 DEF Has, Contains
  <2>6. ToSet(Listed(l)) = {w \in Live(heap) : heap.watch[w].listener = l}
    BY <2>3, <2>4, <2>5 DEF Live
  <2>7. ASSUME Idle
        PROVE  /\ heap.listener[l].callbacks # <<>> /\ heap.listener[l].processed = <<>>
               /\ ~heap.listener[l].lock
    <3>1. HeapOK(heap, 0, ToSet(<<>>))
      BY <2>7, Resting
    <3>2. ~f.lock
      <4>1. l # 0
        BY <1>3 DEF Id
      <4> QED BY <1>3, <2>1, <3>1, <4>1 DEF HeapOK, Locks
    <3>3. ToSet(<<>>) = {}
      BY DEF ToSet
    <3>4. f.callbacks # <<>>
      BY <1>3, <2>1, <3>1, <3>2, <3>3 DEF HeapOK, Tidy
    <3> QED BY <2>1, <3>2, <3>4 DEF Sound
  <2> QED BY <2>3, <2>6, <2>7
<1>5. \A l \in Id : heap.listener[l] # NULL <=> Contains(heap.listeners, l)
  BY <1>1 DEF HeapOK, Lists
<1>6. \A r \in RuleInUse :
        heap.rules[r] = Cardinality({l \in ToSet(heap.listeners) : heap.listener[l].rule = r})
  <2>1. \A r : With(heap, r) = {l \in ToSet(heap.listeners) : heap.listener[l].rule = r}
    BY <1>2, <1>3, <1>5 DEF With
  <2> QED BY <1>1, <2>1 DEF HeapOK, Counted
<1> QED BY <1>4, <1>5, <1>6 DEF ListsExact

(* All variables keep their types: no list ever holds what is not a watch,   *)
(* and the bus is never asked to remove a rule it does not hold.             *)
THEOREM WatchTypes == Spec => []TypeOK
BY ListsAlways, PTL DEF ListsInv

(* Whatever the functions called add and remove, each watch is in one list   *)
(* of its listener, once, and the bus holds exactly the listeners' rules.    *)
THEOREM ListsStayExact == Spec => []ListsExact
BY ListsAlways, ListsAreExact, PTL

(* A signal reaches each watch it is due to that is still there, and none    *)
(* twice.                                                                    *)
THEOREM EachDeliveredOnce == Spec => []DeliveredOnce
<1>1. Turns => DeliveredOnce
  <2> SUFFICES ASSUME Turns PROVE DeliveredOnce
    OBVIOUS
  <2>1. \A w \in Id : called[w] # "again"
    BY DEF Turns
  <2>2. ASSUME AtEnd, NEW w \in Live(heap), called[w] = "due" PROVE Unfit(heap, message, w)
    BY <2>2 DEF AtEnd, Turns, InOrder, InTurn
  <2> QED BY <2>1, <2>2 DEF DeliveredOnce, Unfit
<1> QED BY <1>1, TurnsAlways, PTL
-----------------------------------------------------------------------------
(* What watches are told of a name, against what the bus says of it: every   *)
(* departure comes to all who had been told that the name was there, and a   *)
(* service watch knows whether its service is there once all that was sent   *)
(* to it has been handled. For any number of names, rules and watches, and   *)
(* whatever the functions called do.                                         *)

(* What the steps of the program keep of the watches there were.             *)
RuleOf(h, w) == h.listener[h.watch[w].listener].rule
Kept(h, g) ==
  /\ h.listener_id <= g.listener_id
  /\ \A v \in Live(g) : v <= h.listener_id =>
       v \in Live(h) /\ g.watch[v].type = h.watch[v].type /\ RuleOf(g, v) = RuleOf(h, v)

(* Client code keeps the kind of the watches that stay, and the rule they    *)
(* are on.                                                                   *)
LEMMA EvolvesKept ==
  ASSUME NEW h, NEW c, NEW D, HeapOK(h, c, D), NEW g, NEW d, NEW E, HeapOK(g, d, E), Evolves(h, g)
  PROVE  Kept(h, g)
<1>1. h \in HeapType /\ h.listener_id \in Nat /\ g \in HeapType
  BY HeapParts DEF HeapOK, Lists
<1>2. ASSUME NEW v \in Live(g), v <= h.listener_id
      PROVE  v \in Live(h) /\ g.watch[v].type = h.watch[v].type /\ RuleOf(g, v) = RuleOf(h, v)
  <2>1. v \in Id /\ v \in Live(h) /\ g.watch[v].type = h.watch[v].type /\ g.watch[v].listener = h.watch[v].listener
    BY <1>2 DEF Live, Evolves
  <2>2. PICK l \in Id : l = h.watch[v].listener
    BY <1>1, <2>1, HeapParts DEF Live, Callback
  <2>3. g.listener[l] # NULL /\ h.listener[l] # NULL
    BY <1>2, <2>1, <2>2 DEF HeapOK, Lists
  <2>4. l <= h.listener_id
    BY <1>1, <2>3 DEF HeapOK, Fresh, Id
  <2>5. g.listener[l].rule = h.listener[l].rule
    BY <2>3, <2>4 DEF Evolves
  <2> QED BY <2>1, <2>2, <2>5 DEF RuleOf
<1>3. h.listener_id <= g.listener_id
  BY DEF Evolves
<1> QED BY <1>2, <1>3 DEF Kept

(* So does the locking and unlocking of a listener.                          *)
LEMMA PlacesKept ==
  ASSUME NEW h, NEW c, NEW D, HeapOK(h, c, D), NEW g, NEW l, Places(h, g, l)
  PROVE  Kept(h, g)
<1>1. h \in HeapType /\ h.listener_id \in Nat
  BY HeapParts DEF HeapOK, Lists
<1>2. ASSUME NEW v \in Live(g) PROVE v \in Live(h) /\ g.watch[v].type = h.watch[v].type /\ RuleOf(g, v) = RuleOf(h, v)
  <2>1. v \in Live(h)
    BY <1>2 DEF Live, Places
  <2>2. h.watch[v].listener \in Id
    BY <1>1, <2>1, HeapParts DEF Live, Callback
  <2> QED BY <2>1, <2>2 DEF Places, RuleOf
<1> QED BY <1>1, <1>2 DEF Kept, Places

(* One after another.                                                        *)
LEMMA KeptBoth ==
  ASSUME NEW h \in HeapType, NEW f \in HeapType, NEW g \in HeapType, Kept(h, f), Kept(f, g)
  PROVE  Kept(h, g)
<1>1. h.listener_id \in Nat /\ f.listener_id \in Nat /\ g.listener_id \in Nat
  BY HeapParts
<1>2. h.listener_id <= g.listener_id
  BY <1>1 DEF Kept
<1>3. ASSUME NEW v \in Live(g), v <= h.listener_id PROVE v <= f.listener_id
  BY <1>1, <1>3 DEF Kept, Live, Id
<1> QED BY <1>2, <1>3 DEF Kept

(* next_listener keeps them, and tells no watch anything.                    *)
LEMMA NextKept ==
  ASSUME ListsInv, next_listener
  PROVE  /\ Kept(heap, heap') /\ heap'.watch = heap.watch
         /\ UNCHANGED <<message, inbox, owner, status, told, called, doubtful>>
<1>1. heap \in HeapType
  BY DEF ListsInv, TypeOK
<1>2. PICK h, D :
        /\ h \in HeapType
        /\ HeapOK(heap, current, ToSet(doomed)) /\ HeapOK(h, 0, D) /\ Places(heap, h, current)
        /\ HeapOK(heap', current', D) /\ Evolves(h, heap') /\ heap'.watch = heap.watch
  BY NextHeap
<1>3. Kept(heap, h) /\ Kept(h, heap') /\ heap' \in HeapType
  BY <1>2, PlacesKept, EvolvesKept DEF HeapOK, Lists
<1>4. Kept(heap, heap')
  BY ONLY <1>1, <1>2, <1>3, KeptBoth
<1> QED BY <1>2, <1>4 DEF next_listener

(* So does message_filter, which changes no watch.                           *)
LEMMA MessageKept ==
  ASSUME ListsInv, message_filter
  PROVE  /\ Kept(heap, heap') /\ Evolves(heap, heap')
         /\ heap'.watch = heap.watch /\ heap'.listener_id = heap.listener_id
         /\ HeapOK(heap, 0, ToSet(<<>>)) /\ HeapOK(heap', current', ToSet(<<>>))
         /\ current' # 0 => current' \in Id /\ Matches(heap.listener[current'], Head(inbox))
<1>1. PICK m \in Signal : m = Head(inbox)
  BY DEF message_filter
<1>2. HeapOK(heap, 0, ToSet(<<>>))
  BY Resting DEF message_filter
<1>3. PICK l, g : l = NextMatch(heap, 0, m) /\ g = IF l = 0 THEN heap ELSE Lock(heap, l, m)
  OBVIOUS
<1>4. /\ HeapOK(g, l, ToSet(<<>>)) /\ Evolves(heap, g) /\ g.watch = heap.watch
      /\ g.listener_id = heap.listener_id
      /\ l \in Id \cup {0} /\ (l # 0 => Matches(heap.listener[l], m))
  <2>1. 0 \in Nat
    OBVIOUS
  <2> QED BY ONLY <1>1, <1>2, <1>3, <2>1, EnterKeeps
<1>5. heap' = g /\ current' = l
  BY <1>1, <1>3 DEF message_filter, Enter
<1> QED BY <1>1, <1>2, <1>4, <1>5, EvolvesKept

(* So do the calls.                                                          *)
LEMMA FilterKept ==
  ASSUME ListsInv, service_filter \/ signal_filter
  PROVE  Kept(heap, heap')
<1>1. status = "running" /\ current # 0 /\ heap.listener[current].callbacks # <<>>
  BY DEF service_filter, signal_filter
<1>2. PICK w : w = Head(heap.listener[current].callbacks)
  OBVIOUS
<1>3. Calls(heap, heap', current, w)
  BY <1>1, <1>2, Filtered
<1> QED BY <1>3 DEF Calls, Kept, RuleOf

(* So does what happens between two signals.                                 *)
LEMMA RestKept ==
  ASSUME ListsInv, service_reply \/ Client \/ (\E w \in Id : update_service(w))
  PROVE  Kept(heap, heap')
<1>1. HeapOK(heap, 0, ToSet(<<>>)) /\ HeapOK(heap', 0, ToSet(<<>>)) /\ Evolves(heap, heap')
  BY RestfulLists, Resting
<1> QED BY <1>1, EvolvesKept

(* A watch that is told it was there: it was before.                         *)
LEMMA SaidBefore ==
  ASSUME ListsInv, status = "running", NEW said, SetHeap(heap', said), Kept(heap, heap'),
         heap' \in HeapType,
         NEW w \in Live(heap'), heap'.watch[w].type = "disconnect",
         told'[w] = "present", RuleOf(heap', w).argument \notin Present
  PROVE  /\ w \in Live(heap) /\ said[w] = "present"
         /\ heap'.watch[w].type = heap.watch[w].type /\ RuleOf(heap', w) = RuleOf(heap, w)
<1>1. w \in Id /\ heap'.watch[w] # NULL
  BY DEF Live
<1>2. heap.watch[w] # NULL /\ said[w] = "present"
  <2>1. told'[w] = IF heap'.watch[w] = NULL \/ heap'.watch[w].type \in {"signal", "name"} THEN NULL
                   ELSE IF heap.watch[w] # NULL THEN said[w]
                   ELSE IF RuleOf(heap', w).argument \in Present THEN "present" ELSE "absent"
    BY <1>1 DEF SetHeap, RuleOf
  <2> QED BY <1>1, <2>1
<1>3. w \in Live(heap) /\ w <= heap.listener_id
  <2>1. heap.listener_id \in Nat /\ HeapOK(heap, current, ToSet(doomed))
    BY HeapParts DEF ListsInv, TypeOK
  <2> QED BY <1>1, <1>2, <2>1 DEF HeapOK, Fresh, Live, Id
<1> QED BY <1>2, <1>3 DEF Kept

(* No departure of a client that was there is lost on the way: its signal    *)
(* waits, or is being filtered and due to the watch.                         *)
Departed(n) == NameOwnerChanged(n, Nobody)
Reported ==
  status = "running" =>
    \A w \in Live(heap) :
      heap.watch[w].type = "disconnect" /\ told[w] = "present" /\ NameOf(w) \notin Present =>
        \/ Contains(inbox, Departed(NameOf(w)))
        \/ message = Departed(NameOf(w)) /\ called[w] = "due"

(* What is in a queue after its head is taken, and after a message is sent.  *)
LEMMA InTail ==
  ASSUME NEW S, NEW q \in Seq(S), q # <<>>, NEW d, Contains(q, d), d # Head(q)
  PROVE  Contains(Tail(q), d)
<1>1. PICK t : t = Tail(q)
  OBVIOUS
<1>2. /\ t \in Seq(S) /\ Len(t) = Len(q) - 1 /\ \A i \in 1 .. Len(t) : t[i] = q[i + 1]
  BY <1>1, HeadTailProperties
<1>3. PICK i \in 1 .. Len(q) : q[i] = d
  BY DEF Contains
<1>4. i - 1 \in 1 .. Len(t) /\ t[i - 1] = d
  BY <1>2, <1>3
<1> QED BY <1>1, <1>4 DEF Contains

(* The message sent is in it, with all there were.                           *)
LEMMA InAppended ==
  ASSUME NEW S, NEW q \in Seq(S), NEW e \in S
  PROVE  /\ Contains(Append(q, e), e)
         /\ \A d : Contains(q, d) => Contains(Append(q, e), d)
<1>1. PICK t : t = Append(q, e)
  OBVIOUS
<1>2. /\ t \in Seq(S) /\ Len(t) = Len(q) + 1 /\ \A i \in 1 .. Len(q) : t[i] = q[i]
      /\ t[Len(q) + 1] = e
  BY <1>1, AppendProperties
<1>3. Len(q) + 1 \in 1 .. Len(t) /\ \A i \in 1 .. Len(q) : i \in 1 .. Len(t)
  BY <1>2
<1>4. Contains(t, e)
  BY <1>2, <1>3 DEF Contains
<1>5. \A d : Contains(q, d) => Contains(t, d)
  BY <1>2, <1>3 DEF Contains
<1> QED BY <1>1, <1>4, <1>5

(* A departure is news of a name.                                            *)
LEMMA DepartedIsSignal == ASSUME NEW n \in Sender PROVE Departed(n) \in Signal
BY WatchAssumption DEF Departed, NameOwnerChanged, Signal

(* The listener of a watch on a name fits every signal about that name.      *)
LEMMA OnService ==
  ASSUME NEW h, NEW c, NEW D, HeapOK(h, c, D), NEW w \in Live(h), h.watch[w].type # "signal"
  PROVE  /\ RuleOf(h, w).argument \in Sender /\ RuleOf(h, w) = ServiceRule(RuleOf(h, w).argument)
         /\ \A m : m.topic = OwnerChanged /\ m.argument = RuleOf(h, w).argument => Fits(h, m, w)
         /\ h.rules[RuleOf(h, w)] > 0
<1>1. PICK l \in Id : l = h.watch[w].listener
  BY HeapParts DEF HeapOK, Lists, Live, Callback
<1>2. h.listener[l] # NULL /\ h.listener[l].rule.argument # NULL /\ Sound(h.listener[l])
  BY <1>1 DEF HeapOK, Lists, Kinds
<1>3. h.listener[l].rule \in RuleInUse
  BY <1>2, HeapParts, ListenerParts DEF HeapOK, Lists
<1>4. RuleOf(h, w) = h.listener[l].rule
  BY <1>1 DEF RuleOf
<1>5. PICK n \in Sender : RuleOf(h, w) = ServiceRule(n)
  <2>1. \A r \in RuleInUse : r.argument = NULL \/ \E n \in Sender : r = ServiceRule(n)
    BY DEF RuleInUse, SignalRule
  <2> QED BY <1>2, <1>3, <1>4, <2>1
<1>6. /\ RuleOf(h, w).argument = n /\ RuleOf(h, w).name = NULL /\ RuleOf(h, w).owner = NULL
      /\ RuleOf(h, w).topic = OwnerChanged
  BY <1>5 DEF ServiceRule
<1>7. h.listener[l].owner = NULL
  BY <1>2, <1>4, <1>6 DEF Sound
<1>8. \A m : m.topic = OwnerChanged /\ m.argument = n => Fits(h, m, w)
  BY <1>1, <1>4, <1>6, <1>7 DEF Fits, Matches
<1>9. h.rules[h.listener[l].rule] > 0
  <2>1. PICK W : W = With(h, h.listener[l].rule)
    OBVIOUS
  <2>2. l \in W /\ W \subseteq Id
    BY <1>2, <2>1 DEF With
  <2>3. IsFiniteSet(W)
    BY <2>2, FiniteIds, FS_Subset
  <2>4. Cardinality(W) # 0 /\ Cardinality(W) \in Nat
    BY <2>2, <2>3, FS_EmptySet, FS_CardinalityType
  <2>5. h.rules[h.listener[l].rule] = Cardinality(W)
    BY <1>3, <2>1 DEF HeapOK, Counted
  <2> QED BY <2>4, <2>5
<1> QED BY <1>4, <1>5, <1>6, <1>8, <1>9

(* Steps of the program other than message_filter.                           *)
LEMMA StillReported ==
  ASSUME ListsInv, Turns, Reported, status = "running",
         NEW said, SetHeap(heap', said), Kept(heap, heap'),
         heap' \in HeapType, UNCHANGED <<message, owner>>,
         \A n \in Sender : Contains(inbox, Departed(n)) => Contains(inbox', Departed(n)),
         \A w \in Live(heap) : heap.watch[w].type = "disconnect" /\ said[w] = "present" =>
            told[w] = "present" /\ called'[w] = called[w]
  PROVE  Reported'
<1> SUFFICES ASSUME NEW w \in Live(heap'), heap'.watch[w].type = "disconnect", told'[w] = "present",
                    RuleOf(heap', w).argument \notin Present'
             PROVE  \/ Contains(inbox', Departed(RuleOf(heap', w).argument))
                    \/ message' = Departed(RuleOf(heap', w).argument) /\ called'[w] = "due"
  BY DEF Reported, NameOf, RuleOf, Departed, NameOwnerChanged
<1>1. Present' = Present
  BY DEF Present
<1>2. /\ w \in Live(heap) /\ said[w] = "present"
      /\ heap'.watch[w].type = heap.watch[w].type /\ RuleOf(heap', w) = RuleOf(heap, w)
  BY <1>1, SaidBefore
<1>3. told[w] = "present" /\ called'[w] = called[w]
  BY <1>2
<1>4. NameOf(w) = RuleOf(heap', w).argument
  BY <1>2 DEF NameOf, RuleOf
<1>5. \/ Contains(inbox, Departed(NameOf(w)))
      \/ message = Departed(NameOf(w)) /\ called[w] = "due"
  BY <1>1, <1>2, <1>3, <1>4 DEF Reported
<1>6. NameOf(w) \in Sender
  <2>1. HeapOK(heap, current, ToSet(doomed)) /\ heap.watch[w].type # "signal"
    BY <1>2 DEF ListsInv
  <2> QED BY <1>2, <2>1, Names DEF NameOf
<1> QED BY <1>3, <1>4, <1>5, <1>6

Word == {NULL, "present", "absent", "connected", "disconnected", "cached"}
Words == told \in [Id -> Word]

(* What a call changes of the histories: what the watch called is told.      *)
LEMMA FilterSays ==
  ASSUME ListsInv, Words, service_filter \/ signal_filter
  PROVE  LET w == Head(heap.listener[current].callbacks) IN
         \E said \in [Id -> Word] :
           /\ SetHeap(heap', said)
           /\ \A v \in Id \ {w} : said[v] = told[v] /\ called'[v] = called[v]
           /\ heap.watch[w].type = "disconnect" =>
                said[w] # "present" \/ (said[w] = told[w] /\ called'[w] = called[w])
<1>1. PICK w : w = Head(heap.listener[current].callbacks)
  OBVIOUS
<1>2. /\ w \in Id /\ w \in Live(heap) /\ heap.watch[w].listener = current /\ HeapOK(heap, current, ToSet(doomed))
  BY <1>1, Calling DEF service_filter, signal_filter
<1>3. Called(w) => \A v \in Id \ {w} : called'[v] = called[v]
  BY DEF Called
<1>4. CASE signal_filter
  <2>1. Called(w) /\ SetHeap(heap', told)
    BY <1>1, <1>4, ZenonT(60) DEF signal_filter, SetHeap
  <2>2. heap.watch[w].type = "signal"
    BY <1>2, <1>4 DEF signal_filter, IsService, HeapOK, Kinds
  <2> QED BY <1>1, <1>3, <2>1, <2>2 DEF Words
<1>5. CASE service_filter /\ HasFunction(heap.watch[w].type, message.new)
  <2> DEFINE told_as == IF message.new = Nobody THEN "disconnected" ELSE "connected"
  <2>0. PICK what : what = told_as
    OBVIOUS
  <2>1. what \in {"disconnected", "connected"} /\ SetHeap(heap', Says(w, what))
    <3>1. \E h : SetHeap(h, Says(w, what))
      <4>1. PICK h : SetHeap(AfterCall(h, current, w, message.argument \in Unique /\ heap.watch[w].type # "service"),
                             Says(w, told_as))
        BY ONLY <1>1, <1>5 DEF service_filter
      <4> QED BY ONLY <4>1, <2>0
    <3>2. PICK h : SetHeap(h, Says(w, what))
      BY ONLY <3>1
    <3>3. heap' = h
      BY ONLY <3>2 DEF SetHeap
    <3> QED BY ONLY <2>0, <3>2, <3>3
  <2>2. Called(w)
    BY <1>1, <1>5 DEF service_filter
  <2>3. PICK said : said = Says(w, what)
    OBVIOUS
  <2>4. said \in [Id -> Word] /\ said[w] = what /\ \A v \in Id \ {w} : said[v] = told[v]
    BY <1>2, <2>1, <2>3 DEF Says, Words, Word
  <2>5. said[w] # "present"
    BY <2>1, <2>4
  <2> QED BY <1>1, <1>3, <2>1, <2>2, <2>3, <2>4, <2>5
<1>6. CASE service_filter /\ ~HasFunction(heap.watch[w].type, message.new)
  <2>1. called' = called /\ SetHeap(heap', told)
    BY <1>1, <1>6 DEF service_filter, SetHeap
  <2> QED BY <1>1, <2>1 DEF Words
<1> QED BY <1>4, <1>5, <1>6

(* Words is inductive: no other words are said.                              *)
LEMMA SaidWords ==
  ASSUME NEW h, NEW said \in [Id -> Word], SetHeap(h, said)
  PROVE  Words'
<1>1. told' \in [Id -> Word]
  BY DEF SetHeap, Word
<1> QED BY <1>1 DEF Words

(* Functions are called by the two filters and by update_service only.       *)
LEMMA WordsStep == ASSUME ListsInv, Words, [Next]_vars PROVE Words'
<1>1. CASE service_filter \/ signal_filter
  BY <1>1, FilterSays, SaidWords
<1>2. ASSUME NEW w \in Id, NEW read, NEW how \in Word, Appeared(w, read, how) PROVE Words'
  <2>1. PICK said : said = Says(w, how)
    OBVIOUS
  <2>2. said \in [Id -> Word]
    BY <2>1 DEF Says, Words
  <2>3. \E h : SetHeap(h, said)
    BY <1>2, <2>1 DEF Appeared
  <2> QED BY <2>2, <2>3, SaidWords
<1>3. CASE service_reply
  <2>1. Head(inbox) \in Reply /\ Head(inbox).watch \in Id
    BY <1>3 DEF service_reply, Reply
  <2>2. UNCHANGED told \/ (\E h : SetHeap(h, told)) \/ Appeared(Head(inbox).watch, Head(inbox).owner, "connected")
    BY <1>3 DEF service_reply
  <2>3. "connected" \in Word
    BY DEF Word
  <2> QED BY <1>2, <2>1, <2>2, <2>3, SaidWords DEF Words
<1>4. CASE \E w \in Id : update_service(w)
  <2>1. "cached" \in Word
    BY DEF Word
  <2> QED BY <1>2, <1>4, <2>1 DEF update_service
<1>5. CASE Client
  BY <1>5, SaidWords DEF Client, Words
<1>6. CASE message_filter \/ next_listener \/ delete_listener \/ g_dbus_remove_all_watches
             \/ (\E w \in Id : GetNameOwner(w)) \/ Environment \/ UNCHANGED vars
  BY <1>6 DEF message_filter, next_listener, delete_listener, g_dbus_remove_all_watches, GetNameOwner,
              Environment, ReleaseName, RequestName, Disconnect, EmitSignal, EnvironmentMay, vars, Words
<1> QED BY <1>1, <1>3, <1>4, <1>5, <1>6 DEF Next, Filter

(* Each action keeps Reported.                                               *)
LEMMA FilterReported ==
  ASSUME ListsInv, Turns, Words, Reported, service_filter \/ signal_filter
  PROVE  Reported'
<1>1. /\ status = "running" /\ current # 0 /\ heap.listener[current].callbacks # <<>>
  BY DEF service_filter, signal_filter
<1>2. PICK w : w = Head(heap.listener[current].callbacks)
  OBVIOUS
<1>3. /\ HeapOK(heap', current, ToSet(doomed)) /\ UNCHANGED <<filtering, owner, inbox, status>>
  BY <1>1, <1>2, Filtered
<1>4. PICK said \in [Id -> Word] :
        /\ SetHeap(heap', said)
        /\ \A v \in Id \ {w} : said[v] = told[v] /\ called'[v] = called[v]
        /\ heap.watch[w].type = "disconnect" =>
             said[w] # "present" \/ (said[w] = told[w] /\ called'[w] = called[w])
  BY <1>2, FilterSays
<1>5. \A v \in Live(heap) : heap.watch[v].type = "disconnect" /\ said[v] = "present" =>
        told[v] = "present" /\ called'[v] = called[v]
  BY <1>4 DEF Live
<1>6. heap' \in HeapType /\ UNCHANGED <<message, owner, inbox>>
  BY <1>3 DEF HeapOK, Lists, filtering
<1> QED BY <1>1, <1>4, <1>5, <1>6, FilterKept, StillReported

(* Whoever is told of a service was not told of its departure.               *)
LEMMA AppearedReported ==
  ASSUME ListsInv, Turns, Words, Reported, Idle, NEW w \in Id, NEW read,
         NEW how \in {"connected", "cached"},
         Appeared(w, read, how), Kept(heap, heap'), heap' \in HeapType, UNCHANGED <<message, owner, called>>,
         \A n \in Sender : Contains(inbox, Departed(n)) => Contains(inbox', Departed(n))
  PROVE  Reported'
<1>1. PICK said : said = Says(w, how)
  OBVIOUS
<1>2. SetHeap(heap', said)
  BY <1>1 DEF Appeared, SetHeap
<1>3. said[w] = how /\ \A v \in Id \ {w} : said[v] = told[v]
  BY <1>1 DEF Says, Words
<1>4. \A v \in Live(heap) : said[v] = "present" => told[v] = "present" /\ called'[v] = called[v]
  BY <1>3 DEF Live
<1>5. status = "running"
  BY DEF Idle
<1> QED BY <1>2, <1>4, <1>5, StillReported

(* Replies, client code and update_service.                                  *)
LEMMA RestReported ==
  ASSUME ListsInv, Turns, Words, Reported, service_reply \/ Client \/ \E w \in Id : update_service(w)
  PROVE  Reported'
<1>1. /\ Idle /\ HeapOK(heap', 0, ToSet(<<>>)) /\ UNCHANGED <<filtering, owner, status>>
      /\ Kept(heap, heap') /\ status = "running" /\ inbox \in Seq(Signal \cup Reply)
  BY RestfulLists, RestKept DEF Idle, ListsInv, TypeOK
<1>2. heap' \in HeapType /\ UNCHANGED <<message, owner, called>>
  BY <1>1 DEF HeapOK, Lists, filtering, service_reply, Client, update_service
<1>3. CASE Client
  <2>1. SetHeap(heap', told) /\ UNCHANGED inbox
    BY <1>3 DEF Client, SetHeap
  <2> QED BY <1>1, <1>2, <2>1, StillReported
<1>4. ASSUME NEW w \in Id, update_service(w) PROVE Reported'
  <2>1. \E read : Appeared(w, read, "cached")
    BY <1>4 DEF update_service
  <2>2. UNCHANGED inbox
    BY <1>4 DEF update_service
  <2>3. "cached" \in {"connected", "cached"}
    OBVIOUS
  <2> QED BY <1>1, <1>2, <2>1, <2>2, <2>3, AppearedReported
<1>5. CASE service_reply
  <2>1. PICK m \in Reply : m = Head(inbox) /\ inbox # <<>> /\ inbox' = Tail(inbox)
    BY <1>5 DEF service_reply
  <2>2. ASSUME NEW n \in Sender, Contains(inbox, Departed(n)) PROVE Contains(inbox', Departed(n))
    <3>1. Departed(n) # m
      BY DepartedIsSignal, Apart
    <3> QED BY <1>1, <2>1, <2>2, <3>1, InTail
  <2>3. CASE SetHeap(heap', told)
    BY <1>1, <1>2, <2>2, <2>3, StillReported
  <2>4. CASE Appeared(m.watch, m.owner, "connected")
    <3>1. m.watch \in Id /\ "connected" \in {"connected", "cached"}
      BY DEF Reply
    <3> QED BY <1>1, <1>2, <2>2, <2>4, <3>1, AppearedReported
  <2>5. CASE UNCHANGED <<heap, told, doubtful>>
    <3>1. ASSUME NEW w \in Live(heap), heap.watch[w].type = "disconnect", told[w] = "present", NameOf(w) \notin Present
          PROVE  Contains(inbox', Departed(NameOf(w)))
      <4>1. Contains(inbox, Departed(NameOf(w)))
        <5>1. /\ HeapOK(heap, current, ToSet(doomed)) /\ heap.watch[w].type # "signal" /\ message \notin Signal
          BY <1>1, <3>1, RecordsAssumption DEF ListsInv, Idle
        <5>2. NameOf(w) \in Sender
          BY <5>1, Names DEF NameOf
        <5> QED BY <1>1, <3>1, <5>1, <5>2, DepartedIsSignal DEF Reported
      <4>2. NameOf(w) \in Sender
        <5>1. HeapOK(heap, current, ToSet(doomed)) /\ heap.watch[w].type # "signal"
          BY <1>1, <3>1 DEF ListsInv
        <5> QED BY <5>1, Names DEF NameOf
      <4> QED BY <2>2, <4>1, <4>2
    <3>2. Live(heap') = Live(heap) /\ Present' = Present /\ \A w : NameOf(w)' = NameOf(w)
      BY <1>2, <2>5 DEF Live, Present, NameOf
    <3> QED BY <2>5, <3>1, <3>2 DEF Reported, Departed, NameOwnerChanged
  <2>6. SetHeap(heap', told) \/ Appeared(m.watch, m.owner, "connected") \/ UNCHANGED <<heap, told, doubtful>>
    BY <1>5, <2>1 DEF service_reply, SetHeap
  <2> QED BY <2>3, <2>4, <2>5, <2>6
<1> QED BY <1>3, <1>4, <1>5

(* Steps that call no function and change no watch.                          *)
LEMMA ReportedGoesOn ==
  ASSUME ListsInv, Reported, status = "running", Kept(heap, heap'), UNCHANGED <<told, owner>>, heap' \in HeapType,
         Live(heap') \subseteq Live(heap),
         \A w \in Live(heap') :
           LET d == Departed(NameOf(w))
           IN  /\ heap.watch[w].type = "disconnect" /\ NameOf(w) \in Sender
               /\ Contains(inbox, d) \/ (message = d /\ called[w] = "due")
               => Contains(inbox', d) \/ (message' = d /\ called'[w] = "due")
  PROVE  Reported'
<1> SUFFICES ASSUME NEW w \in Live(heap'), heap'.watch[w].type = "disconnect", told[w] = "present",
                    RuleOf(heap', w).argument \notin Present'
             PROVE  \/ Contains(inbox', Departed(RuleOf(heap', w).argument))
                    \/ message' = Departed(RuleOf(heap', w).argument) /\ called'[w] = "due"
  BY DEF Reported, NameOf, RuleOf, Departed, NameOwnerChanged
<1>1. w \in Live(heap) /\ w \in Id /\ HeapOK(heap, current, ToSet(doomed)) /\ Present' = Present
  BY DEF Live, ListsInv, Present
<1>2. w <= heap.listener_id
  BY <1>1, Placed
<1>3. heap.watch[w].type = "disconnect" /\ RuleOf(heap', w).argument = NameOf(w)
  BY <1>2 DEF Kept, RuleOf, NameOf
<1>4. NameOf(w) \in Sender
  BY <1>1, <1>3, Names DEF NameOf
<1> QED BY <1>1, <1>3, <1>4 DEF Reported

(* A departure taken from the queue is due to every disconnect watch of the  *)
(* name.                                                                     *)
LEMMA MessageReported == ASSUME ListsInv, Turns, Reported, message_filter PROVE Reported'
<1>1. PICK m \in Signal : m = Head(inbox) /\ inbox # <<>> /\ inbox' = Tail(inbox)
  BY DEF message_filter
<1>2. /\ Kept(heap, heap') /\ heap'.watch = heap.watch /\ status = "running" /\ UNCHANGED <<told, owner>>
      /\ HeapOK(heap, 0, ToSet(<<>>)) /\ inbox \in Seq(Signal \cup Reply) /\ message = NULL
  BY MessageKept, Resting DEF message_filter, Idle, ListsInv, TypeOK
<1>3. heap' \in HeapType /\ Live(heap') = Live(heap)
  BY <1>2, MessageLists DEF Live, ListsInv, TypeOK
<1>4. ASSUME NEW w \in Live(heap'), heap.watch[w].type = "disconnect", NameOf(w) \in Sender,
             NEW d, d = Departed(NameOf(w)),
             Contains(inbox, d) \/ (message = d /\ called[w] = "due")
      PROVE  Contains(inbox', d) \/ (message' = d /\ called'[w] = "due")
  <2>1. d \in Signal /\ d # NULL
    BY <1>4, DepartedIsSignal, RecordsAssumption
  <2>2. CASE d # m
    BY <1>1, <1>2, <1>4, <2>1, <2>2, InTail
  <2>3. CASE d = m
    <3>1. Fits(heap, m, w)
      <4>1. heap.watch[w].type # "signal" /\ w \in Live(heap) /\ NameOf(w) = RuleOf(heap, w).argument
        BY <1>3, <1>4 DEF NameOf, RuleOf
      <4>2. m.topic = OwnerChanged /\ m.argument = NameOf(w)
        BY <1>4, <2>3 DEF Departed, NameOwnerChanged
      <4> QED BY <1>2, <4>1, <4>2, OnService
    <3>2. called'[w] = "due"
      <4>1. Due(w, m) /\ w \in Id
        BY <1>3, <1>4, <3>1 DEF Due, Fits, Live
      <4> QED BY <1>1, <4>1 DEF message_filter
    <3>3. message' # NULL
      BY <1>4, <3>2, MessageTurns DEF Turns, Live
    <3>4. message' = m
      BY <1>1, <3>3 DEF message_filter
    <3> QED BY <2>3, <3>2, <3>4
  <2> QED BY <2>2, <2>3
<1> QED BY <1>2, <1>3, <1>4, ReportedGoesOn

(* The watches of a listener gone through have been called.                  *)
LEMMA NextReported == ASSUME ListsInv, Turns, Reported, next_listener PROVE Reported'
<1>1. Kept(heap, heap') /\ UNCHANGED <<message, inbox, owner, told, called>> /\ Live(heap') = Live(heap)
  BY NextKept DEF Live
<1>2. heap' \in HeapType /\ status = "running"
  BY NextLists DEF ListsInv, TypeOK, next_listener
<1> QED BY <1>1, <1>2, ReportedGoesOn

(* A disconnect watch fits a departure, so it has been called.               *)
LEMMA EndReported == ASSUME ListsInv, Turns, Reported, delete_listener PROVE Reported'
<1>1. /\ HeapOK(heap, current, ToSet(doomed)) /\ current = 0 /\ status = "running"
      /\ UNCHANGED <<inbox, told, owner>>
  BY DEF delete_listener, AtEnd, ListsInv
<1>2. CASE status' # "running"
  BY <1>2 DEF Reported
<1>3. CASE status' = "running"
  <2>1. HeapOK(heap', 0, ToSet(<<>>)) /\ Evolves(heap, heap') /\ Prunes(heap, heap') /\ heap' \in HeapType
    BY <1>3, Ended
  <2>2. Kept(heap, heap') /\ Live(heap') \subseteq Live(heap)
    BY <1>1, <2>1, EvolvesKept DEF Prunes, Live
  <2>3. ASSUME NEW w \in Live(heap'), heap.watch[w].type = "disconnect",
               message = Departed(NameOf(w)), called[w] = "due"
        PROVE  FALSE
    <3>1. Unfit(heap, message, w)
      BY <1>1, <2>2, <2>3 DEF Turns, InOrder, InTurn
    <3>2. message.new = Nobody
      BY <2>3 DEF Departed, NameOwnerChanged
    <3> QED BY <2>3, <3>1, <3>2 DEF Unfit, HasFunction
  <2> QED BY <1>1, <2>1, <2>2, <2>3, ReportedGoesOn
<1> QED BY <1>2, <1>3

(* The bus sends every departure to those who have a watch.                  *)
LEMMA Listens ==
  ASSUME ListsInv, status = "running", NEW n \in Sender, NEW new, heap.rules[ServiceRule(n)] > 0
  PROVE  Subscribed(NameOwnerChanged(n, new))
<1>1. ServiceRule(n) \in RuleInUse
  BY DEF RuleInUse
<1> QED BY <1>1 DEF Subscribed, ServiceRule, NameOwnerChanged

(* The environment sends the departure with the change of the owner.         *)
LEMMA SignalReported ==
  ASSUME ListsInv, Reported, NEW m \in Signal, Deliver(m), EnvironmentMay,
         \A n \in Sender \ Present' : n \in Present => m = Departed(n)
  PROVE  Reported'
<1>1. /\ UNCHANGED <<heap, filtering, status, told, called>> /\ status = "running"
      /\ inbox \in Seq(Signal \cup Reply) /\ HeapOK(heap, current, ToSet(doomed))
  BY DEF EnvironmentMay, ListsInv, TypeOK
<1>2. \A d : Contains(inbox, d) => Contains(inbox', d)
  BY <1>1, InAppended DEF Deliver
<1>3. ASSUME NEW w \in Live(heap), heap.watch[w].type = "disconnect", told[w] = "present", NameOf(w) \notin Present'
      PROVE  \/ Contains(inbox', Departed(NameOf(w)))
             \/ message' = Departed(NameOf(w)) /\ called'[w] = "due"
  <2>1. heap.watch[w].type # "signal"
    BY <1>3
  <2>2. PICK r : r = RuleOf(heap, w)
    OBVIOUS
  <2>3. r.argument \in Sender /\ r = ServiceRule(r.argument) /\ heap.rules[r] > 0
    BY ONLY <1>1, <1>3, <2>1, <2>2, OnService
  <2>4. PICK n \in Sender : n = NameOf(w) /\ heap.rules[ServiceRule(n)] > 0
    BY <2>2, <2>3 DEF NameOf, RuleOf
  <2>5. CASE n \notin Present
    BY <1>1, <1>2, <1>3, <2>4, <2>5 DEF Reported, filtering
  <2>6. CASE n \in Present
    <3>1. m = Departed(n) /\ Subscribed(m)
      BY <1>1, <1>3, <2>4, <2>6, Listens DEF Departed
    <3>2. Contains(inbox', m)
      BY <1>1, <3>1, InAppended DEF Deliver
    <3> QED BY <2>4, <3>1, <3>2
  <2> QED BY <2>5, <2>6
<1>4. Live(heap') = Live(heap) /\ \A w : NameOf(w)' = NameOf(w)
  BY <1>1 DEF Live, NameOf
<1> QED BY <1>1, <1>3, <1>4 DEF Reported, Departed, NameOwnerChanged

(* Only ReleaseName and Disconnect make a name depart.                       *)
LEMMA EnvironmentReported == ASSUME ListsInv, Reported, Environment PROVE Reported'
<1>1. owner \in [Sender -> Unique \cup {Nobody}]
  BY DEF ListsInv
<1>2. \A n \in Sender, new \in Unique \cup {Nobody} : NameOwnerChanged(n, new) \in Signal
  BY WatchAssumption DEF NameOwnerChanged, Signal
<1>3. ASSUME NEW n \in Sender, Deliver(Departed(n)), EnvironmentMay, owner' = [owner EXCEPT ![n] = Nobody]
      PROVE  Reported'
  <2>1. \A k \in Sender \ Present' : k \in Present => k = n
    BY <1>1, <1>3 DEF Present
  <2> QED BY <1>3, <2>1, DepartedIsSignal, SignalReported
<1>4. ASSUME NEW n \in Name, ReleaseName(n) PROVE Reported'
  BY <1>3, <1>4 DEF ReleaseName, Departed, Sender
<1>5. ASSUME NEW u \in Unique, Disconnect(u) PROVE Reported'
  BY <1>3, <1>5 DEF Disconnect, Departed, Sender
<1>6. ASSUME NEW n \in Name, NEW u \in Unique, RequestName(n, u) PROVE Reported'
  <2>1. NameOwnerChanged(n, u) \in Signal
    BY <1>2 DEF Sender
  <2>2. Present \subseteq Present'
    BY <1>1, <1>6 DEF RequestName, Present
  <2> QED BY <1>6, <2>1, <2>2, SignalReported DEF RequestName
<1>7. ASSUME NEW u \in Unique, NEW t \in Topic, EmitSignal(u, t) PROVE Reported'
  <2>1. [sender |-> u, topic |-> t, argument |-> NULL, new |-> NULL] \in Signal
    BY DEF Signal
  <2>2. Present' = Present
    BY <1>7 DEF EmitSignal, Present
  <2> QED BY <1>7, <2>1, <2>2, SignalReported DEF EmitSignal
<1> QED BY <1>4, <1>5, <1>6, <1>7 DEF Environment

(* A question changes no watch.                                              *)
LEMMA AskReported == ASSUME ListsInv, Reported, NEW w \in Id, GetNameOwner(w) PROVE Reported'
<1>1. /\ UNCHANGED <<heap, filtering, owner, status, told, called>> /\ status = "running"
      /\ inbox \in Seq(Signal \cup Reply) /\ heap \in HeapType /\ Kept(heap, heap')
  BY HeapParts DEF GetNameOwner, ListsInv, TypeOK, Kept, Live, RuleOf
<1>2. ListsInv'
  BY AskLists
<1>3. PICK r : inbox' = Append(inbox, r)
  BY DEF GetNameOwner
<1>4. \A d : Contains(inbox, d) => Contains(inbox', d)
  <2>1. PICK S : S = Signal \cup Reply \cup {r}
    OBVIOUS
  <2>2. inbox \in Seq(S) /\ r \in S
    BY <1>1, <2>1
  <2> QED BY <1>3, <2>2, InAppended
<1> QED BY <1>1, <1>4, ReportedGoesOn DEF Live, filtering

(* Reported is inductive, given ListsInv and Turns.                          *)
LEMMA ReportedStep == ListsInv /\ Turns /\ Words /\ Reported /\ [Next]_vars => Reported'
<1> SUFFICES ASSUME ListsInv, Turns, Words, Reported, [Next]_vars PROVE Reported'
  OBVIOUS
<1>1. CASE Filter
  BY <1>1, MessageReported, FilterReported, NextReported, EndReported DEF Filter
<1>2. CASE service_reply \/ Client \/ \E w \in Id : update_service(w)
  BY <1>2, RestReported
<1>3. CASE g_dbus_remove_all_watches
  BY <1>3 DEF g_dbus_remove_all_watches, Reported
<1>4. CASE Environment
  BY <1>4, EnvironmentReported
<1>5. CASE \E w \in Id : GetNameOwner(w)
  BY <1>5, AskReported
<1>6. CASE UNCHANGED vars
  BY <1>6 DEF vars, Reported, Live, NameOf, Present, Departed, NameOwnerChanged
<1> QED BY <1>1, <1>2, <1>3, <1>4, <1>5, <1>6 DEF Next

(* A client that was there when a disconnect watch was put on it and has     *)
(* left since was reported to it, whatever functions ran meanwhile and       *)
(* whichever watches share its rule.                                         *)
THEOREM DeparturesReported == Spec => []DepartureReported
<1>1. Init => Words /\ Reported
  BY DEF Init, Words, Word, Reported, Live, EmptyHeap
<1>2. ListsInv /\ Words /\ [Next]_vars => Words'
  BY WordsStep
<1>3. ListsInv /\ Reported => DepartureReported
  <2>1. \A d : ~Contains(<<>>, d)
    BY DEF Contains
  <2>2. ASSUME Idle,
               NEW w \in Live(heap), message = Departed(NameOf(w)), ListsInv, heap.watch[w].type = "disconnect" PROVE FALSE
    <3>1. HeapOK(heap, current, ToSet(doomed)) /\ heap.watch[w].type # "signal" /\ message = NULL
      BY <2>2 DEF ListsInv, Idle
    <3>2. NameOf(w) \in Sender
      BY <3>1, Names DEF NameOf
    <3> QED BY <2>2, <3>1, <3>2, DepartedIsSignal, RecordsAssumption
  <2> QED BY <2>1, <2>2 DEF Reported, DepartureReported, Quiet, Idle
<1> QED BY <1>1, <1>2, <1>3, ReportedStep, ListsAlways, TurnsAlways, PTL DEF Spec

-----------------------------------------------------------------------------
(* What the queue says of the name n, or to the watch w: news of the name    *)
(* behind a position, the reply on its way.                                  *)
About(m, n) == m \in Signal /\ m.argument = n
Later(q, i, n) == \E j \in DOMAIN q : j > i /\ About(q[j], n)
ReplyTo(m, w) == m \in Reply /\ m.watch = w
Answered(q, w) == \E i \in DOMAIN q : ReplyTo(q[i], w)
Positive(q, w) == \E i \in DOMAIN q : ReplyTo(q[i], w) /\ q[i].owner # Nobody
Single(q) ==
  \A i, j \in DOMAIN q : q[i] \in Reply /\ q[j] \in Reply /\ q[i].watch = q[j].watch => i = j

(* A signal or reply is true of the names present, or later news come.       *)
Tells(m, n, P) == m.new # Nobody <=> n \in P
Current(q, n, P) ==
  \A i \in DOMAIN q : About(q[i], n) => Tells(q[i], n, P) \/ Later(q, i, n)
Trusted(q, w, n, P) ==
  \A i \in DOMAIN q : ReplyTo(q[i], w) /\ q[i].owner # Nobody => n \in P \/ Later(q, i, n)

(* What a service watch was told, s, is so, or it will hear.                 *)
Aware(s, check, q, w, n, P) ==
  /\ s = "connected" => n \in P \/ Later(q, 0, n)
  /\ n \in P => \/ s \in {"connected", "cached"} \/ Later(q, 0, n) \/ Positive(q, w)
                \/ check # NULL /\ ~Answered(q, w)

(* p is the queue q without its first d elements.                            *)
Shifted(q, p, d) ==
  /\ q \in Seq(Signal \cup Reply) /\ p \in Seq(Signal \cup Reply)
  /\ d \in {0, 1} /\ Len(p) = Len(q) - d
  /\ \A i \in 1 .. Len(p) : p[i] = q[i + d]

(* A queue of which nothing or the head is taken.                            *)
LEMMA Unshifted == ASSUME NEW q \in Seq(Signal \cup Reply) PROVE Shifted(q, q, 0)
BY DEF Shifted

(* Its head taken.                                                           *)
LEMMA TailShifted ==
  ASSUME NEW q \in Seq(Signal \cup Reply), q # <<>>, NEW p, p = Tail(q)
  PROVE  Shifted(q, p, 1) /\ q[1] = Head(q)
<1>1. /\ p \in Seq(Signal \cup Reply) /\ Len(p) = Len(q) - 1 /\ \A i \in 1 .. Len(p) : p[i] = q[i + 1]
  BY HeadTailProperties
<1> QED BY <1>1 DEF Shifted

(* News behind a position, and replies.                                      *)
LEMMA LaterShifted ==
  ASSUME NEW q, NEW p, NEW d, Shifted(q, p, d), NEW n
  PROVE  /\ \A i \in Nat : Later(q, i + d, n) => Later(p, i, n)
         /\ Later(q, 0, n) /\ (d = 1 => ~About(q[1], n)) => Later(p, 0, n)
<1>1. /\ DOMAIN q = 1 .. Len(q) /\ DOMAIN p = 1 .. Len(p) /\ Len(q) \in Nat /\ d \in {0, 1}
      /\ Len(p) = Len(q) - d /\ \A i \in 1 .. Len(p) : p[i] = q[i + d]
  BY DEF Shifted
<1>2. ASSUME NEW i \in Nat, Later(q, i + d, n) PROVE Later(p, i, n)
  <2>1. PICK j \in 1 .. Len(q) : j > i + d /\ About(q[j], n)
    BY <1>1, <1>2 DEF Later
  <2>2. j - d \in 1 .. Len(p) /\ (j - d) + d = j /\ j - d > i
    BY <1>1, <2>1
  <2>3. p[j - d] = q[j]
    BY <1>1, <2>2
  <2> QED BY <1>1, <2>1, <2>2, <2>3 DEF Later
<1>3. ASSUME Later(q, 0, n), d = 1 => ~About(q[1], n) PROVE Later(q, 0 + d, n)
  <2>1. PICK j \in 1 .. Len(q) : j > 0 /\ About(q[j], n)
    BY <1>1, <1>3 DEF Later
  <2>2. j > 0 + d
    BY <1>1, <1>3, <2>1
  <2> QED BY <1>1, <2>1, <2>2 DEF Later
<1> QED BY <1>2, <1>3

(* A reply still in the queue was there before.                              *)
LEMMA RepliesShifted ==
  ASSUME NEW q, NEW p, NEW d, Shifted(q, p, d)
  PROVE  /\ Single(q) => Single(p)
         /\ \A w : /\ Answered(p, w) => Answered(q, w)
                   /\ Positive(q, w) /\ (d = 1 => ~ReplyTo(q[1], w)) => Positive(p, w)
<1>1. /\ DOMAIN q = 1 .. Len(q) /\ DOMAIN p = 1 .. Len(p) /\ Len(q) \in Nat /\ d \in {0, 1}
      /\ Len(p) = Len(q) - d /\ \A i \in 1 .. Len(p) : i + d \in 1 .. Len(q) /\ p[i] = q[i + d]
  BY DEF Shifted
<1>2. ASSUME Single(q), NEW i \in 1 .. Len(p), NEW j \in 1 .. Len(p),
             p[i] \in Reply, p[j] \in Reply, p[i].watch = p[j].watch
      PROVE  i = j
  <2>1. i + d = j + d
    BY <1>1, <1>2 DEF Single
  <2> QED BY <1>1, <2>1
<1>3. ASSUME NEW w, Answered(p, w) PROVE Answered(q, w)
  BY <1>1, <1>3 DEF Answered
<1>4. ASSUME NEW w, Positive(q, w), d = 1 => ~ReplyTo(q[1], w) PROVE Positive(p, w)
  <2>1. PICK j \in 1 .. Len(q) : ReplyTo(q[j], w) /\ q[j].owner # Nobody
    BY <1>1, <1>4 DEF Positive
  <2>2. j - d \in 1 .. Len(p) /\ (j - d) + d = j
    BY <1>1, <1>4, <2>1
  <2>3. p[j - d] = q[j]
    BY <1>1, <2>2
  <2> QED BY <1>1, <2>1, <2>2, <2>3 DEF Positive
<1> QED BY <1>1, <1>2, <1>3, <1>4 DEF Single

(* What was true of the queue stays so when its head is taken.               *)
LEMMA NewsShifted ==
  ASSUME NEW q, NEW p, NEW d, Shifted(q, p, d), NEW n, NEW P
  PROVE  /\ Current(q, n, P) => Current(p, n, P)
         /\ \A w : Trusted(q, w, n, P) => Trusted(p, w, n, P)
<1>1. /\ DOMAIN q = 1 .. Len(q) /\ DOMAIN p = 1 .. Len(p)
      /\ \A i \in 1 .. Len(p) : i \in Nat /\ i + d \in 1 .. Len(q) /\ p[i] = q[i + d]
  BY DEF Shifted
<1>2. \A i \in Nat : Later(q, i + d, n) => Later(p, i, n)
  BY LaterShifted
<1>3. Current(q, n, P) => Current(p, n, P)
  BY <1>1, <1>2 DEF Current
<1>4. ASSUME NEW w, Trusted(q, w, n, P) PROVE Trusted(p, w, n, P)
  BY <1>1, <1>2, <1>4 DEF Trusted
<1> QED BY <1>3, <1>4

(* A reply taken from the queue changes nothing for the other watches.       *)
LEMMA AwareShifted ==
  ASSUME NEW q, NEW p, NEW d, Shifted(q, p, d), NEW w, d = 1 => ~ReplyTo(q[1], w),
         NEW n, d = 1 => ~About(q[1], n), NEW P, NEW s, NEW check, Aware(s, check, q, w, n, P)
  PROVE  Aware(s, check, p, w, n, P)
<1>1. Later(q, 0, n) => Later(p, 0, n)
  BY LaterShifted
<1>2. (Answered(p, w) => Answered(q, w)) /\ (Positive(q, w) => Positive(p, w))
  BY RepliesShifted
<1> QED BY <1>1, <1>2 DEF Aware

Lengthened(q, p, m) ==
  /\ p \in Seq(Signal \cup Reply)
  /\ Len(q) \in Nat /\ DOMAIN q = 1 .. Len(q) /\ DOMAIN p = 1 .. Len(q) + 1
  /\ p[Len(q) + 1] = m /\ \A i \in 1 .. Len(q) : p[i] = q[i]
  /\ \A i, n : Later(q, i, n) => Later(p, i, n)
  /\ \A i, n : i \in 0 .. Len(q) /\ About(m, n) => Later(p, i, n)

(* What comes new.                                                           *)
LEMMA Appended ==
  ASSUME NEW q \in Seq(Signal \cup Reply), NEW m \in Signal \cup Reply, NEW p, p = Append(q, m)
  PROVE  Lengthened(q, p, m)
<1>1. /\ p \in Seq(Signal \cup Reply) /\ Len(p) = Len(q) + 1 /\ Len(q) \in Nat /\ p[Len(q) + 1] = m
      /\ \A i \in 1 .. Len(q) : p[i] = q[i]
  BY AppendProperties
<1>2. DOMAIN q = 1 .. Len(q) /\ DOMAIN p = 1 .. Len(q) + 1
  BY <1>1
<1>3. \A i \in 1 .. Len(q) : i \in 1 .. Len(q) + 1
  BY <1>1
<1>4. \A i, n : Later(q, i, n) => Later(p, i, n)
  BY <1>1, <1>2, <1>3 DEF Later
<1>5. ASSUME NEW i \in 0 .. Len(q), NEW n, About(m, n) PROVE Later(p, i, n)
  <2>1. Len(q) + 1 \in DOMAIN p /\ Len(q) + 1 > i
    BY <1>1, <1>2
  <2> QED BY <1>1, <1>5, <2>1 DEF Later
<1> QED BY <1>1, <1>2, <1>4, <1>5 DEF Lengthened

(* A signal sent is no reply, and the last news of its name.                 *)
LEMMA SignalQueued ==
  ASSUME NEW q \in Seq(Signal \cup Reply), NEW m \in Signal, NEW p, p = Append(q, m)
  PROVE  /\ Single(q) => Single(p)
         /\ \A w : (Answered(p, w) <=> Answered(q, w)) /\ (Positive(p, w) <=> Positive(q, w))
<1>1. /\ DOMAIN q = 1 .. Len(q) /\ DOMAIN p = 1 .. Len(q) + 1 /\ Len(q) \in Nat
      /\ p[Len(q) + 1] = m /\ \A i \in 1 .. Len(q) : p[i] = q[i]
  <2>1. m \in Signal \cup Reply /\ q \in Seq(Signal \cup Reply) /\ p = Append(q, m)
    OBVIOUS
  <2>2. Lengthened(q, p, m)
    BY ONLY <2>1, Appended
  <2> QED BY <2>2 DEF Lengthened
<1>2. m \notin Reply
  BY Apart
<1>3. \A i \in 1 .. Len(q) + 1 : i \in 1 .. Len(q) \/ i = Len(q) + 1
  BY <1>1
<1>4. \A i \in 1 .. Len(q) : i \in 1 .. Len(q) + 1
  BY <1>1
<1>5. Single(q) => Single(p)
  BY <1>1, <1>2, <1>3 DEF Single
<1>6. ASSUME NEW w PROVE (Answered(p, w) <=> Answered(q, w)) /\ (Positive(p, w) <=> Positive(q, w))
  BY <1>1, <1>2, <1>3, <1>4 DEF Answered, Positive, ReplyTo
<1> QED BY <1>5, <1>6

(* The queue stays current when a signal says what is so now.                *)
LEMMA SignalAppended ==
  ASSUME NEW q \in Seq(Signal \cup Reply), NEW m \in Signal, NEW p, p = Append(q, m),
         NEW n, NEW P, NEW R, IF About(m, n) THEN Tells(m, n, R) ELSE n \in R <=> n \in P
  PROVE  /\ Current(q, n, P) => Current(p, n, R)
         /\ \A w : Trusted(q, w, n, P) => Trusted(p, w, n, R)
         /\ \A s, check, w : Aware(s, check, q, w, n, P) => Aware(s, check, p, w, n, R)
<1>1. /\ DOMAIN q = 1 .. Len(q) /\ DOMAIN p = 1 .. Len(q) + 1 /\ Len(q) \in Nat
      /\ p[Len(q) + 1] = m /\ \A i \in 1 .. Len(q) : p[i] = q[i]
      /\ \A i : Later(q, i, n) => Later(p, i, n)
      /\ \A i \in 0 .. Len(q) : About(m, n) => Later(p, i, n)
  <2>1. m \in Signal \cup Reply /\ q \in Seq(Signal \cup Reply) /\ p = Append(q, m)
    OBVIOUS
  <2>2. Lengthened(q, p, m)
    BY ONLY <2>1, Appended
  <2> QED BY <2>2 DEF Lengthened
<1>2. m \notin Reply
  BY Apart
<1>3. \A i \in 1 .. Len(q) + 1 : i \in 1 .. Len(q) \/ i = Len(q) + 1
  BY <1>1
<1>4. \A i \in 1 .. Len(q) : i \in 1 .. Len(q) + 1 /\ i \in 0 .. Len(q)
  BY <1>1
<1>5. Current(q, n, P) => Current(p, n, R)
  <2> SUFFICES ASSUME Current(q, n, P), NEW i \in 1 .. Len(q) + 1, About(p[i], n)
               PROVE  Tells(p[i], n, R) \/ Later(p, i, n)
    BY <1>1 DEF Current
  <2>1. CASE i = Len(q) + 1
    BY <1>1, <2>1
  <2>2. CASE i \in 1 .. Len(q)
    BY <1>1, <1>4, <2>2 DEF Current, Tells
  <2> QED BY <1>3, <2>1, <2>2
<1>6. \A w : (Answered(p, w) <=> Answered(q, w)) /\ (Positive(p, w) <=> Positive(q, w))
  BY SignalQueued
<1>7. ASSUME NEW w, Trusted(q, w, n, P) PROVE Trusted(p, w, n, R)
  <2> SUFFICES ASSUME NEW i \in 1 .. Len(q) + 1, ReplyTo(p[i], w), p[i].owner # Nobody
               PROVE  n \in R \/ Later(p, i, n)
    BY <1>1 DEF Trusted
  <2>1. i \in 1 .. Len(q) /\ p[i] = q[i]
    BY <1>1, <1>2, <1>3 DEF ReplyTo
  <2>2. n \in P \/ Later(q, i, n)
    BY <1>1, <1>7, <2>1 DEF Trusted
  <2> QED BY <1>1, <1>4, <2>1, <2>2
<1>8. ASSUME NEW s, NEW check, NEW w, Aware(s, check, q, w, n, P) PROVE Aware(s, check, p, w, n, R)
  <2>1. CASE About(m, n)
    <3>1. Later(p, 0, n)
      BY <1>1, <2>1
    <3> QED BY <3>1 DEF Aware
  <2>2. CASE ~About(m, n)
    BY <1>1, <1>6, <1>8, <2>2 DEF Aware
  <2> QED BY <2>1, <2>2
<1> QED BY <1>5, <1>7, <1>8

(* A reply sent says what is so now to the one watch that asked.             *)
LEMMA ReplyAppended ==
  ASSUME NEW q \in Seq(Signal \cup Reply), NEW m \in Reply,
         NEW p, p = Append(q, m), ~Answered(q, m.watch)
  PROVE  /\ Single(q) => Single(p)
         /\ \A n, P : Current(q, n, P) => Current(p, n, P)
         /\ \A w : Answered(p, w) <=> Answered(q, w) \/ w = m.watch
         /\ \A w, n, P : Trusted(q, w, n, P) /\ (w = m.watch /\ m.owner # Nobody => n \in P) => Trusted(p, w, n, P)
         /\ \A s, check, w, n, P :
              Aware(s, check, q, w, n, P) /\ (w = m.watch /\ n \in P => m.owner # Nobody)
                => Aware(s, check, p, w, n, P)
<1>1. /\ DOMAIN q = 1 .. Len(q) /\ DOMAIN p = 1 .. Len(q) + 1 /\ Len(q) \in Nat
      /\ p[Len(q) + 1] = m /\ \A i \in 1 .. Len(q) : p[i] = q[i]
      /\ \A i, n : Later(q, i, n) => Later(p, i, n)
  <2>1. m \in Signal \cup Reply /\ q \in Seq(Signal \cup Reply) /\ p = Append(q, m)
    OBVIOUS
  <2>2. Lengthened(q, p, m)
    BY ONLY <2>1, Appended
  <2> QED BY <2>2 DEF Lengthened
<1>2. m \notin Signal
  BY Apart
<1>3. \A i \in 1 .. Len(q) + 1 : i \in 1 .. Len(q) \/ i = Len(q) + 1
  BY <1>1
<1>4. /\ \A i \in 1 .. Len(q) : i \in 1 .. Len(q) + 1
      /\ Len(q) + 1 \in 1 .. Len(q) + 1
  BY <1>1
<1>5. Single(q) => Single(p)
  <2> SUFFICES ASSUME Single(q), NEW i \in 1 .. Len(q) + 1, NEW j \in 1 .. Len(q) + 1,
                      p[i] \in Reply, p[j] \in Reply, p[i].watch = p[j].watch
               PROVE  i = j
    BY <1>1 DEF Single
  <2>1. \A k \in 1 .. Len(q) : q[k] \in Reply => q[k].watch # m.watch
    BY <1>1 DEF Answered, ReplyTo
  <2> QED BY <1>1, <1>3, <2>1 DEF Single
<1>6. ASSUME NEW n, NEW P, Current(q, n, P) PROVE Current(p, n, P)
  <2> SUFFICES ASSUME NEW i \in 1 .. Len(q) + 1, About(p[i], n) PROVE Tells(p[i], n, P) \/ Later(p, i, n)
    BY <1>1 DEF Current
  <2>1. i \in 1 .. Len(q) /\ p[i] = q[i]
    BY <1>1, <1>2, <1>3 DEF About
  <2> QED BY <1>1, <1>6, <2>1 DEF Current
<1>7. ASSUME NEW w PROVE Answered(p, w) <=> Answered(q, w) \/ w = m.watch
  BY <1>1, <1>3, <1>4 DEF Answered, ReplyTo
<1>8. ASSUME NEW w, NEW n, NEW P, Trusted(q, w, n, P), w = m.watch /\ m.owner # Nobody => n \in P
      PROVE  Trusted(p, w, n, P)
  <2> SUFFICES ASSUME NEW i \in 1 .. Len(q) + 1, ReplyTo(p[i], w), p[i].owner # Nobody
               PROVE  n \in P \/ Later(p, i, n)
    BY <1>1 DEF Trusted
  <2>1. CASE i = Len(q) + 1
    BY <1>1, <1>8, <2>1 DEF ReplyTo
  <2>2. CASE i \in 1 .. Len(q)
    BY <1>1, <1>8, <2>2 DEF Trusted
  <2> QED BY <1>3, <2>1, <2>2
<1>9. ASSUME NEW s, NEW check, NEW w, NEW n, NEW P, Aware(s, check, q, w, n, P),
             w = m.watch /\ n \in P => m.owner # Nobody
      PROVE  Aware(s, check, p, w, n, P)
  <2>1. Positive(q, w) => Positive(p, w)
    BY <1>1, <1>4 DEF Positive
  <2>2. w = m.watch /\ m.owner # Nobody => Positive(p, w)
    BY <1>1, <1>4 DEF Positive, ReplyTo
  <2>3. Later(q, 0, n) => Later(p, 0, n)
    BY <1>1
  <2>4. w # m.watch => (Answered(p, w) <=> Answered(q, w))
    BY <1>7
  <2> QED BY <1>9, <2>1, <2>2, <2>3, <2>4 DEF Aware
<1> QED BY <1>5, <1>6, <1>7, <1>8, <1>9

(* What the program has heard of the name n, and each service watch of its   *)
(* name, once a rule for it was there before any signal that still waits.    *)
Known(n) == heap.rules[ServiceRule(n)] > 0 /\ n \notin doubtful
Hears(w) ==
  IF message # NULL /\ message.argument = NameOf(w) /\ InTurn(heap, current, w)
  THEN IF message.new = Nobody THEN "disconnected" ELSE "connected" ELSE told[w]
UpToDate(n) ==
  Known(n) =>
    /\ Current(inbox, n, Present)
    /\ message # NULL /\ message.argument = n => Tells(message, n, Present) \/ Later(inbox, 0, n)
Informed(w) ==
  /\ Answered(inbox, w) => heap.watch[w].check = "asked"
  /\ Known(NameOf(w)) =>
       /\ Trusted(inbox, w, NameOf(w), Present)
       /\ Aware(Hears(w), heap.watch[w].check, inbox, w, NameOf(w), Present)

(* Only the bus names others in its signals; a service listener is locked    *)
(* for a signal about its name.                                              *)
Genuine(m) == m.argument # NULL => m.topic = OwnerChanged
AtMatch ==
  current # 0 /\ IsService(heap.listener[current]) =>
    heap.listener[current].rule.argument = message.argument
Knows ==
  status = "running" =>
    /\ Single(inbox) /\ AtMatch
    /\ \A m \in Waiting : Genuine(m)
    /\ \A n \in Sender : UpToDate(n)
    /\ \A w \in Live(heap) : heap.watch[w].type = "service" => Informed(w)

(* The messages in the queue after one was sent.                             *)
LEMMA Sent ==
  ASSUME NEW q \in Seq(Signal \cup Reply), NEW m \in Signal \cup Reply
  PROVE  ToSet(Append(q, m)) = ToSet(q) \cup {m}
<1>1. PICK p : p = Append(q, m)
  OBVIOUS
<1>2. /\ DOMAIN q = 1 .. Len(q) /\ DOMAIN p = 1 .. Len(q) + 1 /\ Len(q) \in Nat
      /\ p[Len(q) + 1] = m /\ \A i \in 1 .. Len(q) : p[i] = q[i]
  BY <1>1, AppendProperties
<1>3. /\ \A i \in 1 .. Len(q) + 1 : i \in 1 .. Len(q) \/ i = Len(q) + 1
      /\ \A i \in 1 .. Len(q) : i \in 1 .. Len(q) + 1
      /\ Len(q) + 1 \in 1 .. Len(q) + 1
  BY <1>2
<1> QED BY <1>1, <1>2, <1>3 DEF ToSet

(* The environment: the bus tells of every change.                           *)
LEMMA SignalNews ==
  ASSUME ListsInv, NEW m \in Signal, Deliver(m), EnvironmentMay, Genuine(m), NEW n \in Sender,
         heap.rules[ServiceRule(n)] > 0,
         IF About(m, n) THEN Tells(m, n, Present') ELSE n \in Present' <=> n \in Present
  PROVE  /\ Current(inbox, n, Present) => Current(inbox', n, Present')
         /\ Tells(message, n, Present) \/ Later(inbox, 0, n) => Tells(message, n, Present') \/ Later(inbox', 0, n)
         /\ \A w : Trusted(inbox, w, n, Present) => Trusted(inbox', w, n, Present')
         /\ \A s, check, w : Aware(s, check, inbox, w, n, Present) => Aware(s, check, inbox', w, n, Present')
<1>1. inbox \in Seq(Signal \cup Reply) /\ status = "running"
  BY DEF ListsInv, TypeOK, EnvironmentMay
<1>2. CASE Subscribed(m)
  <2>1. inbox' = Append(inbox, m)
    BY <1>2 DEF Deliver
  <2>2. PICK P, R, p, q : P = Present /\ R = Present' /\ p = inbox' /\ q = inbox
    OBVIOUS
  <2>3. /\ Current(q, n, P) => Current(p, n, R)
        /\ \A w : Trusted(q, w, n, P) => Trusted(p, w, n, R)
        /\ \A s, check, w : Aware(s, check, q, w, n, P) => Aware(s, check, p, w, n, R)
    <3>1. q \in Seq(Signal \cup Reply) /\ p = Append(q, m)
      BY <1>1, <2>1, <2>2
    <3>2. IF About(m, n) THEN Tells(m, n, R) ELSE n \in R <=> n \in P
      BY <2>2
    <3> QED BY ONLY m \in Signal, <3>1, <3>2, SignalAppended
  <2>4. Tells(message, n, P) \/ Later(q, 0, n) => Tells(message, n, R) \/ Later(p, 0, n)
    <3>1. m \in Signal \cup Reply /\ q \in Seq(Signal \cup Reply) /\ p = Append(q, m)
      BY <1>1, <2>1, <2>2
    <3>2. Lengthened(q, p, m)
      BY ONLY <3>1, Appended
    <3>3. 0 \in 0 .. Len(q)
      BY <3>2 DEF Lengthened
    <3> QED BY <2>2, <3>2, <3>3 DEF Lengthened, Tells
  <2> QED BY <2>2, <2>3, <2>4
<1>3. CASE ~Subscribed(m)
  <2>1. inbox' = inbox
    BY <1>3 DEF Deliver
  <2>2. ~About(m, n)
    <3>1. ServiceRule(n) \in RuleInUse /\ n # NULL
      BY WatchAssumption DEF RuleInUse, Sender
    <3> QED BY <1>3, <3>1 DEF About, Genuine, Subscribed, ServiceRule
  <2> QED BY <2>1, <2>2 DEF Current, Tells, Trusted, Aware
<1> QED BY <1>2, <1>3

(* A signal that says what is so now keeps Knows.                            *)
LEMMA SignalKnows ==
  ASSUME ListsInv, Knows, NEW m \in Signal, Deliver(m), EnvironmentMay, Genuine(m),
         \A n \in Sender : IF About(m, n) THEN Tells(m, n, Present') ELSE n \in Present' <=> n \in Present
  PROVE  Knows'
<1>1. /\ UNCHANGED <<heap, filtering, status, told, doubtful>> /\ status = "running"
      /\ inbox \in Seq(Signal \cup Reply) /\ HeapOK(heap, current, ToSet(doomed))
  BY DEF EnvironmentMay, ListsInv, TypeOK
<1>2. /\ Live(heap') = Live(heap) /\ \A w : NameOf(w)' = NameOf(w) /\ Hears(w)' = Hears(w)
      /\ \A n : Known(n)' <=> Known(n)
  BY <1>1 DEF Live, NameOf, Hears, Known, filtering
<1>3. /\ Single(inbox) => Single(inbox')
      /\ \A w : Answered(inbox', w) => Answered(inbox, w)
  <2>1. PICK p : p = Append(inbox, m)
    OBVIOUS
  <2>2. /\ Single(inbox) => Single(p)
        /\ \A w : (Answered(p, w) <=> Answered(inbox, w)) /\ (Positive(p, w) <=> Positive(inbox, w))
    BY ONLY <1>1, m \in Signal, <2>1, SignalQueued
  <2> QED BY <2>1, <2>2 DEF Deliver
<1>4. \A k \in Waiting' : Genuine(k)
  <2>1. ToSet(inbox') \subseteq ToSet(inbox) \cup {m}
    <3>1. m \in Signal \cup Reply
      OBVIOUS
    <3>2. ToSet(Append(inbox, m)) = ToSet(inbox) \cup {m}
      BY ONLY <1>1, <3>1, Sent
    <3> QED BY <3>2 DEF Deliver
  <2>2. Waiting' \subseteq Waiting \cup {m}
    BY <1>1, <2>1 DEF Waiting, filtering
  <2> QED BY <1>1, <2>2 DEF Knows
<1>5. ASSUME NEW n \in Sender PROVE UpToDate(n)'
  <2>1. heap.rules[ServiceRule(n)] > 0 =>
          /\ Current(inbox, n, Present) => Current(inbox', n, Present')
          /\ Tells(message, n, Present) \/ Later(inbox, 0, n) => Tells(message, n, Present') \/ Later(inbox', 0, n)
    BY SignalNews
  <2>2. UpToDate(n) /\ message' = message
    BY <1>1 DEF Knows, filtering
  <2> QED BY <1>2, <2>1, <2>2 DEF UpToDate, Known
<1>6. ASSUME NEW w \in Live(heap), heap.watch[w].type = "service" PROVE Informed(w)'
  <2>1. NameOf(w) \in Sender
    BY <1>1, <1>6, Names DEF NameOf
  <2>2. heap.rules[ServiceRule(NameOf(w))] > 0 =>
          /\ Trusted(inbox, w, NameOf(w), Present) => Trusted(inbox', w, NameOf(w), Present')
          /\ \A s, check : Aware(s, check, inbox, w, NameOf(w), Present) => Aware(s, check, inbox', w, NameOf(w), Present')
    BY <2>1, SignalNews
  <2>3. Informed(w) /\ heap'.watch = heap.watch
    BY <1>1, <1>6 DEF Knows
  <2> QED BY <1>2, <1>3, <2>2, <2>3 DEF Informed, Known
<1>7. AtMatch' <=> AtMatch
  BY <1>1 DEF AtMatch, filtering, IsService
<1> QED BY <1>1, <1>2, <1>3, <1>4, <1>5, <1>6, <1>7 DEF Knows

(* Each signal of the environment does.                                      *)
LEMMA EnvironmentKnows == ASSUME ListsInv, Knows, Environment PROVE Knows'
<1>1. owner \in [Sender -> Unique \cup {Nobody}]
  BY DEF ListsInv
<1>2. \A n \in Sender, new \in Unique \cup {Nobody} : NameOwnerChanged(n, new) \in Signal
  BY WatchAssumption DEF NameOwnerChanged, Signal
<1>3. ASSUME NEW n \in Sender,
             NEW new \in Unique \cup {Nobody}, Deliver(NameOwnerChanged(n, new)), EnvironmentMay,
             owner' = [owner EXCEPT ![n] = new]
      PROVE  Knows'
  <2>1. PICK m \in Signal : m = NameOwnerChanged(n, new)
    BY <1>2
  <2>2. m.topic = OwnerChanged /\ m.argument = n /\ m.new = new
    BY <2>1 DEF NameOwnerChanged
  <2>3. ASSUME NEW k \in Sender
        PROVE  IF About(m, k) THEN Tells(m, k, Present') ELSE k \in Present' <=> k \in Present
    BY <1>1, <1>3, <2>2 DEF About, Tells, Present
  <2> QED BY <1>3, <2>1, <2>2, <2>3, SignalKnows DEF Genuine
<1>4. ASSUME NEW n \in Name, ReleaseName(n) PROVE Knows'
  BY <1>3, <1>4 DEF ReleaseName, Sender
<1>5. ASSUME NEW u \in Unique, Disconnect(u) PROVE Knows'
  BY <1>3, <1>5 DEF Disconnect, Sender
<1>6. ASSUME NEW n \in Name, NEW u \in Unique, RequestName(n, u) PROVE Knows'
  BY <1>3, <1>6 DEF RequestName, Sender
<1>7. ASSUME NEW u \in Unique, NEW t \in Topic, EmitSignal(u, t) PROVE Knows'
  <2>1. PICK m \in Signal : m = [sender |-> u, topic |-> t, argument |-> NULL, new |-> NULL]
    BY DEF Signal
  <2>2. Genuine(m) /\ \A k \in Sender : ~About(m, k)
    BY <2>1, WatchAssumption DEF Genuine, About, Sender
  <2>3. Present' = Present
    BY <1>7 DEF EmitSignal, Present
  <2> QED BY <1>7, <2>1, <2>2, <2>3, SignalKnows DEF EmitSignal
<1> QED BY <1>4, <1>5, <1>6, <1>7 DEF Environment

(* The bus answers with the owner there is.                                  *)
LEMMA AskKnows == ASSUME ListsInv, Knows, NEW w \in Id, GetNameOwner(w) PROVE Knows'
<1>1. /\ UNCHANGED <<heap, filtering, owner, status, told, called, doubtful>> /\ status = "running"
      /\ HeapOK(heap, current, ToSet(doomed)) /\ inbox \in Seq(Signal \cup Reply)
  BY DEF GetNameOwner, ListsInv, TypeOK
<1>2. w \in Live(heap) /\ heap.watch[w].check = "asked" /\ heap.watch[w].type = "service"
  <2>1. w \in Live(heap) /\ heap.watch[w].check = "asked" /\ NULL # "asked"
    BY RecordsAssumption DEF GetNameOwner, Live
  <2> QED BY <1>1, <2>1 DEF HeapOK, Kinds
<1>3. NameOf(w) \in Sender
  BY <1>1, <1>2, Names DEF NameOf
<1>4. PICK m \in Reply : m = [watch |-> w, owner |-> owner[NameOf(w)]]
  BY <1>3 DEF Reply, ListsInv
<1>5. m.watch = w /\ (m.owner # Nobody <=> NameOf(w) \in Present)
  BY <1>3, <1>4 DEF Present
<1>6. PICK p : p = Append(inbox, m) /\ inbox' = p
  BY <1>4 DEF GetNameOwner
<1>7. ~Answered(inbox, m.watch)
  BY <1>5 DEF GetNameOwner, Answered, ReplyTo
<1>8. /\ Single(inbox) => Single(p)
      /\ \A n, P : Current(inbox, n, P) => Current(p, n, P)
      /\ \A v : Answered(p, v) <=> Answered(inbox, v) \/ v = m.watch
      /\ \A v, n, P : Trusted(inbox, v, n, P) /\ (v = m.watch /\ m.owner # Nobody => n \in P) => Trusted(p, v, n, P)
      /\ \A s, check, v, n, P :
           Aware(s, check, inbox, v, n, P) /\ (v = m.watch /\ n \in P => m.owner # Nobody)
             => Aware(s, check, p, v, n, P)
  <2>1. p = Append(inbox, m)
    BY <1>6
  <2> QED BY ONLY <1>1, <1>7, <2>1, m \in Reply, ReplyAppended
<1>9. \A n : Later(inbox, 0, n) => Later(p, 0, n)
  <2>1. m \in Signal \cup Reply /\ p = Append(inbox, m)
    BY <1>6
  <2>2. Lengthened(inbox, p, m)
    BY ONLY <1>1, <2>1, Appended
  <2> QED BY <2>2 DEF Lengthened
<1>10. Waiting' = Waiting
  <2>1. m \in Signal \cup Reply /\ m \notin Signal
    BY Apart
  <2>2. ToSet(p) = ToSet(inbox) \cup {m}
    BY <1>1, <1>6, <2>1, Sent
  <2> QED BY <1>1, <1>6, <2>1, <2>2 DEF Waiting, filtering
<1>11. /\ Live(heap') = Live(heap) /\ \A v : NameOf(v)' = NameOf(v) /\ Hears(v)' = Hears(v)
       /\ \A n : Known(n)' <=> Known(n)
       /\ Present' = Present /\ message' = message
  BY <1>1 DEF Live, NameOf, Hears, Known, filtering, Present
<1>12. ASSUME NEW n \in Sender PROVE UpToDate(n)'
  <2>1. UpToDate(n)
    BY <1>1 DEF Knows
  <2> QED BY <1>6, <1>8, <1>9, <1>11, <2>1 DEF UpToDate
<1>13. ASSUME NEW v \in Live(heap), heap.watch[v].type = "service" PROVE Informed(v)'
  <2>1. Informed(v) /\ heap'.watch = heap.watch
    BY <1>1, <1>13 DEF Knows
  <2>2. Answered(p, v) => heap.watch[v].check = "asked"
    BY <1>2, <1>5, <1>8, <2>1 DEF Informed
  <2>3. ASSUME Known(NameOf(v))
        PROVE  /\ Trusted(p, v, NameOf(v), Present)
               /\ Aware(Hears(v), heap.watch[v].check, p, v, NameOf(v), Present)
    BY <1>5, <1>8, <2>1, <2>3 DEF Informed
  <2> QED BY <1>6, <1>11, <2>1, <2>2, <2>3 DEF Informed
<1>14. (AtMatch' <=> AtMatch) /\ Single(inbox') /\ \A k \in Waiting' : Genuine(k)
  BY <1>1, <1>6, <1>8, <1>10 DEF AtMatch, filtering, IsService, Knows
<1> QED BY <1>1, <1>11, <1>12, <1>13, <1>14 DEF Knows

-----------------------------------------------------------------------------
(* A name that becomes known has no rule so far, and nothing of it waits.    *)
LEMMA NewlyKnown ==
  ASSUME ListsInv, status = "running", NEW said, SetHeap(heap', said),
         NEW n \in Sender, Known(n)', ~Known(n)
  PROVE  /\ heap.rules[ServiceRule(n)] = 0
         /\ \A i \in DOMAIN inbox : ~About(inbox[i], n)
         /\ message # NULL => message.argument # n
<1>1. n \notin doubtful' /\ heap'.rules[ServiceRule(n)] > 0
  BY DEF Known
<1>2. n \notin doubtful /\ (heap.rules[ServiceRule(n)] = 0 => n \notin {m.argument : m \in Waiting})
  BY <1>1 DEF SetHeap
<1>3. heap.rules[ServiceRule(n)] \in Nat
  <2>1. heap.rules \in [RuleInUse -> 0 .. MaxRules] /\ ServiceRule(n) \in RuleInUse
    BY HeapParts DEF ListsInv, TypeOK, RuleInUse
  <2> QED BY <2>1, WatchAssumption
<1>4. heap.rules[ServiceRule(n)] = 0
  BY <1>2, <1>3 DEF Known
<1> QED BY <1>2, <1>4 DEF Waiting, About, ToSet

(* Steps of the program other than message_filter: what they leave of a      *)
(* name's news.                                                              *)
LEMMA SetUpToDate ==
  ASSUME ListsInv, Knows, status = "running",
         NEW said, SetHeap(heap', said), UNCHANGED <<message, owner>>,
         NEW d, Shifted(inbox, inbox', d), d = 1 => inbox[1] \in Reply, NEW n \in Sender
  PROVE  UpToDate(n)'
<1> SUFFICES ASSUME Known(n)'
             PROVE  /\ Current(inbox', n, Present')
                    /\ message' # NULL /\ message'.argument = n => Tells(message', n, Present') \/ Later(inbox', 0, n)
  BY DEF UpToDate
<1>1. Present' = Present
  BY DEF Present
<1>2. CASE Known(n)
  <2>1. /\ Current(inbox, n, Present)
        /\ message # NULL /\ message.argument = n => Tells(message, n, Present) \/ Later(inbox, 0, n)
    BY <1>2 DEF Knows, UpToDate
  <2>2. d = 1 => ~About(inbox[1], n)
    BY Apart DEF About
  <2>3. Later(inbox, 0, n) => Later(inbox', 0, n)
    BY <2>2, LaterShifted
  <2>4. Current(inbox', n, Present)
    BY <2>1, NewsShifted
  <2> QED BY <1>1, <2>1, <2>3, <2>4
<1>3. CASE ~Known(n)
  <2>1. /\ \A i \in DOMAIN inbox : ~About(inbox[i], n)
        /\ message # NULL => message.argument # n
    BY <1>3, NewlyKnown
  <2>2. \A i \in DOMAIN inbox' : ~About(inbox'[i], n)
    <3>1. /\ DOMAIN inbox = 1 .. Len(inbox) /\ DOMAIN inbox' = 1 .. Len(inbox')
          /\ \A i \in 1 .. Len(inbox') : i + d \in 1 .. Len(inbox) /\ inbox'[i] = inbox[i + d]
      BY DEF Shifted
    <3> QED BY <2>1, <3>1
  <2> QED BY <2>1, <2>2 DEF Current
<1> QED BY <1>2, <1>3

(* A watch there was, whose question is not settled.                         *)
LEMMA SetInformed ==
  ASSUME ListsInv, Knows, status = "running", Kept(heap, heap'), UNCHANGED owner,
         NEW d, Shifted(inbox, inbox', d), d = 1 => inbox[1] \in Reply,
         NEW w \in Live(heap'), w <= heap.listener_id, heap'.watch[w].type = "service",
         heap'.watch[w].check = heap.watch[w].check, Hears(w)' = Hears(w),
         d = 1 => ~ReplyTo(inbox[1], w), NEW said, SetHeap(heap', said)
  PROVE  Informed(w)'
<1>1. /\ w \in Live(heap) /\ heap.watch[w].type = "service" /\ NameOf(w)' = NameOf(w)
      /\ HeapOK(heap, current, ToSet(doomed)) /\ Present' = Present
  BY DEF Kept, NameOf, RuleOf, ListsInv, Present
<1>2. PICK n \in Sender : n = NameOf(w) /\ heap.rules[ServiceRule(n)] > 0
  <2>1. heap.watch[w].type # "signal"
    BY <1>1
  <2>2. PICK r : r = RuleOf(heap, w)
    OBVIOUS
  <2>3. r.argument \in Sender /\ r = ServiceRule(r.argument) /\ heap.rules[r] > 0
    BY ONLY <1>1, <2>1, <2>2, OnService
  <2> QED BY <2>2, <2>3 DEF NameOf, RuleOf
<1>3. Informed(w)
  BY <1>1 DEF Knows
<1>4. Answered(inbox', w) => Answered(inbox, w)
  BY RepliesShifted
<1>5. ASSUME Known(n)'
      PROVE  /\ Trusted(inbox', w, n, Present)
             /\ Aware(Hears(w), heap.watch[w].check, inbox', w, n, Present)
  <2>1. Known(n)
    BY <1>2, <1>5, NewlyKnown
  <2>2. Trusted(inbox, w, n, Present) /\ Aware(Hears(w), heap.watch[w].check, inbox, w, n, Present)
    BY <1>2, <1>3, <2>1 DEF Informed
  <2>3. d = 1 => ~About(inbox[1], n)
    BY Apart DEF About
  <2>4. Trusted(inbox', w, n, Present)
    BY <2>2, NewsShifted
  <2>5. PICK s, check, P, q, p : s = Hears(w) /\ check = heap.watch[w].check /\ P = Present /\ q = inbox /\ p = inbox'
    OBVIOUS
  <2>6. /\ Shifted(q, p, d) /\ (d = 1 => ~ReplyTo(q[1], w)) /\ (d = 1 => ~About(q[1], n))
        /\ Aware(s, check, q, w, n, P)
    BY <2>2, <2>3, <2>5
  <2>7. Aware(s, check, p, w, n, P)
    BY ONLY <2>6, AwareShifted
  <2> QED BY <2>4, <2>5, <2>7
<1> QED BY <1>1, <1>2, <1>3, <1>4, <1>5 DEF Informed

(* A new one starts with what is so, and has asked.                          *)
LEMMA NewInformed ==
  ASSUME ListsInv, status = "running", NEW said, SetHeap(heap', said), UNCHANGED <<message, owner>>,
         NEW d, Shifted(inbox, inbox', d), NEW c, NEW D, HeapOK(heap', c, D),
         NEW w \in Live(heap'), w > heap.listener_id, heap'.watch[w].type = "service",
         heap'.watch[w].check # NULL, \A n \in Sender : UpToDate(n)'
  PROVE  Informed(w)'
<1>1. PICK n \in Sender : n = NameOf(w)'
  BY Names DEF NameOf
<1>2. w \in Id /\ heap.listener_id \in Nat /\ HeapOK(heap, current, ToSet(doomed)) /\ Answers(inbox, heap)
  BY HeapParts DEF Live, ListsInv, TypeOK
<1>3. ~Answered(inbox', w)
  <2>1. \A i \in DOMAIN inbox : ~ReplyTo(inbox[i], w)
    BY <1>2 DEF Answers, ReplyTo, Id
  <2> QED BY <2>1, RepliesShifted DEF Answered
<1>4. told'[w] = IF n \in Present THEN "present" ELSE "absent"
  <2>1. heap.watch[w] = NULL /\ heap'.watch[w] # NULL
    BY <1>2 DEF HeapOK, Fresh, Live
  <2>2. told'[w] = IF heap'.watch[w] = NULL \/ heap'.watch[w].type \in {"signal", "name"} THEN NULL
                   ELSE IF heap.watch[w] # NULL THEN said[w]
                   ELSE IF n \in Present THEN "present" ELSE "absent"
    BY <1>1, <1>2 DEF SetHeap, NameOf
  <2> QED BY <2>1, <2>2
<1>5. Trusted(inbox', w, n, Present')
  BY <1>3 DEF Trusted, Answered
<1>6. ASSUME Known(n)' PROVE Aware(Hears(w)', heap'.watch[w].check, inbox', w, n, Present')
  <2>1. Hears(w)' = "connected" => n \in Present' \/ Later(inbox', 0, n)
    <3>1. message' # NULL /\ message'.argument = n => Tells(message', n, Present') \/ Later(inbox', 0, n)
      BY <1>6 DEF UpToDate
    <3> QED BY <1>1, <1>4, <3>1 DEF Hears, Tells
  <2> QED BY <1>3, <2>1 DEF Aware
<1> QED BY <1>1, <1>3, <1>5, <1>6 DEF Informed

(* A step that tells of the watch f, none if it is 0, in the place of a      *)
(* reply that may have been taken.                                           *)
LEMMA SetKnows ==
  ASSUME ListsInv, Knows, status = "running", NEW said, SetHeap(heap', said), Kept(heap, heap'),
         NEW c, NEW D, HeapOK(heap', c, D), UNCHANGED <<message, owner>>,
         NEW f, Settles(heap, heap', f),
         NEW d, Shifted(inbox, inbox', d), d = 1 => inbox[1] \in Reply /\ inbox[1].watch = f, AtMatch',
         \A w \in Live(heap') : heap'.watch[w].type = "service" /\ w <= heap.listener_id =>
           IF w # f THEN Hears(w)' = Hears(w)
           ELSE /\ ~Answered(inbox', w)
                /\ Known(NameOf(w)) => Aware(Hears(w)', heap'.watch[w].check, inbox', w, NameOf(w), Present)
  PROVE  Knows'
<1>1. \A n \in Sender : UpToDate(n)'
  BY SetUpToDate
<1>2. Single(inbox') /\ \A m \in Waiting' : Genuine(m)
  <2>1. Single(inbox')
    BY RepliesShifted DEF Knows
  <2>2. ToSet(inbox') \subseteq ToSet(inbox)
    <3>1. /\ DOMAIN inbox = 1 .. Len(inbox) /\ DOMAIN inbox' = 1 .. Len(inbox')
          /\ \A i \in 1 .. Len(inbox') : i + d \in 1 .. Len(inbox) /\ inbox'[i] = inbox[i + d]
      BY DEF Shifted
    <3> QED BY <3>1 DEF ToSet
  <2>3. Waiting' \subseteq Waiting
    BY <2>2 DEF Waiting
  <2> QED BY <2>1, <2>3 DEF Knows
<1>3. ASSUME NEW w \in Live(heap'), heap'.watch[w].type = "service" PROVE Informed(w)'
  <2>1. w \in Id /\ heap'.watch[w] # NULL /\ heap.listener_id \in Nat
    BY <1>3, HeapParts DEF Live, ListsInv, TypeOK
  <2>2. CASE w > heap.listener_id
    <3>1. heap'.watch[w].check # NULL
      BY <1>3, <2>1, <2>2 DEF Settles
    <3> QED BY <1>1, <1>3, <2>2, <3>1, NewInformed
  <2>3. CASE w <= heap.listener_id /\ w # f
    <3>1. heap'.watch[w].check = heap.watch[w].check
      BY <2>1, <2>3 DEF Settles
    <3>2. (d = 1 => ~ReplyTo(inbox[1], w)) /\ Hears(w)' = Hears(w) /\ (d = 1 => inbox[1] \in Reply)
      BY <1>3, <2>3 DEF ReplyTo
    <3> QED BY <1>3, <2>3, <3>1, <3>2, SetInformed
  <2>4. CASE w <= heap.listener_id /\ w = f
    <3>1. /\ ~Answered(inbox', w)
          /\ Known(NameOf(w)) => Aware(Hears(w)', heap'.watch[w].check, inbox', w, NameOf(w), Present)
      BY <1>3, <2>4
    <3>2. /\ w \in Live(heap) /\ heap.watch[w].type = "service" /\ NameOf(w)' = NameOf(w)
          /\ HeapOK(heap, current, ToSet(doomed)) /\ Present' = Present
      BY <1>3, <2>4 DEF Kept, NameOf, RuleOf, ListsInv, Present
    <3>3. PICK n \in Sender : n = NameOf(w) /\ (Known(n)' => Known(n))
      <4>1. heap.watch[w].type # "signal"
        BY <3>2
      <4>2. PICK r : r = RuleOf(heap, w)
        OBVIOUS
      <4>3. r.argument \in Sender /\ r = ServiceRule(r.argument) /\ heap.rules[r] > 0
        BY ONLY <3>2, <4>1, <4>2, OnService
      <4>4. PICK n \in Sender : n = NameOf(w) /\ heap.rules[ServiceRule(n)] > 0
        BY <4>2, <4>3 DEF NameOf, RuleOf
      <4>5. Known(n)' => Known(n)
        BY <4>4, NewlyKnown
      <4> QED BY <4>4, <4>5
    <3>4. Trusted(inbox', w, n, Present)
      BY <3>1 DEF Trusted, Answered
    <3> QED BY <3>1, <3>2, <3>3, <3>4 DEF Informed
  <2>5. w > heap.listener_id \/ w <= heap.listener_id
    BY <2>1 DEF Id
  <2> QED BY <2>2, <2>3, <2>4, <2>5
<1> QED BY <1>1, <1>2, <1>3 DEF Knows

-----------------------------------------------------------------------------
(* What a service watch hears when another is called: nothing new.           *)
LEMMA OthersHear ==
  ASSUME ListsInv, status = "running", current # 0, heap.listener[current].callbacks # <<>>,
         service_filter \/ signal_filter, NEW said, SetHeap(heap', said),
         NEW w \in Live(heap'), w <= heap.listener_id, heap'.watch[w].type = "service",
         w # Head(heap.listener[current].callbacks), said[w] = told[w]
  PROVE  Hears(w)' = Hears(w)
<1>1. PICK c, v : c = current /\ v = Head(heap.listener[current].callbacks)
  OBVIOUS
<1>2. Calls(heap, heap', c, v) /\ c \in Id /\ UNCHANGED <<message, current>>
  BY <1>1, Calling, Filtered DEF filtering
<1>3. Kept(heap, heap')
  BY FilterKept
<1>4. w \in Live(heap) /\ NameOf(w)' = NameOf(w) /\ w \in Id
  BY <1>3 DEF Kept, NameOf, RuleOf, Live
<1>5. InTurn(heap', c, w) <=> InTurn(heap, c, w)
  <2>1. w # v
    BY <1>1
  <2> QED BY <1>2, <2>1, Undisturbed
<1>6. told'[w] = told[w]
  BY <1>4 DEF SetHeap, Live
<1> QED BY <1>1, <1>2, <1>4, <1>5, <1>6 DEF Hears

(* The one called hears what it was to hear.                                 *)
LEMMA CalledHears ==
  ASSUME ListsInv, Knows, service_filter,
         NEW w, w = Head(heap.listener[current].callbacks), w \in Live(heap'), heap'.watch[w].type = "service",
         SetHeap(heap', Says(w, IF message.new = Nobody THEN "disconnected" ELSE "connected")), Words
  PROVE  Hears(w)' = Hears(w)
<1>1. status = "running" /\ current # 0 /\ heap.listener[current].callbacks # <<>> /\ IsService(heap.listener[current])
  BY DEF service_filter
<1>2. /\ current \in Id /\ w \in Live(heap) /\ heap.watch[w].listener = current /\ w \in Id
      /\ HeapOK(heap, current, ToSet(doomed)) /\ message \in Signal
      /\ Contains(heap.listener[current].callbacks, w)
  BY <1>1, Calling
<1>3. /\ HeapOK(heap', current, ToSet(doomed)) /\ Calls(heap, heap', current, w) /\ UNCHANGED <<message, current>>
  BY <1>1, Filtered DEF filtering
<1>4. ~InTurn(heap', current, w)
  <2>1. PICK c, D : c = current /\ D = ToSet(doomed)
    OBVIOUS
  <2> QED BY <1>2, <1>3, <2>1, Over
<1>5. NameOf(w) = message.argument /\ message # NULL
  BY <1>1, <1>2, RecordsAssumption DEF Knows, AtMatch, NameOf
<1>6. InTurn(heap, current, w)
  BY <1>1, <1>2 DEF InTurn
<1>7. Hears(w) = IF message.new = Nobody THEN "disconnected" ELSE "connected"
  BY <1>5, <1>6 DEF Hears
<1>8. told'[w] = IF message.new = Nobody THEN "disconnected" ELSE "connected"
  BY <1>2 DEF SetHeap, Live, Says, Words
<1> QED BY <1>3, <1>4, <1>7, <1>8 DEF Hears

(* A function called hears what it was to hear, and the others are left as   *)
(* they are.                                                                 *)
LEMMA FilterKnows == ASSUME ListsInv, Words, Knows, service_filter \/ signal_filter PROVE Knows'
<1>1. /\ status = "running" /\ current # 0 /\ heap.listener[current].callbacks # <<>>
  BY DEF service_filter, signal_filter
<1>2. PICK w, D : w = Head(heap.listener[current].callbacks) /\ D = ToSet(doomed)
  OBVIOUS
<1>3. /\ HeapOK(heap', current, D) /\ Asks(heap, heap')
      /\ heap'.listener[current].rule = heap.listener[current].rule
      /\ UNCHANGED <<filtering, owner, inbox, status, current, message>>
  BY <1>1, <1>2, Filtered DEF filtering
<1>4. /\ current \in Id /\ w \in Id /\ w \in Live(heap) /\ heap.watch[w].listener = current
      /\ HeapOK(heap, current, D) /\ inbox \in Seq(Signal \cup Reply)
  BY <1>1, <1>2, Calling DEF ListsInv, TypeOK
<1>5. Settles(heap, heap', 0) /\ Shifted(inbox, inbox', 0) /\ Kept(heap, heap')
  BY <1>3, <1>4, AsksSettles, Unshifted, FilterKept
<1>6. AtMatch'
  BY <1>1, <1>3, <1>4 DEF AtMatch, IsService, Knows
<1>7. PICK said : /\ SetHeap(heap', said) /\ \A v \in Id \ {w} : said[v] = told[v]
                  /\ w \in Live(heap') /\ heap'.watch[w].type = "service" => Hears(w)' = Hears(w)
  <2>1. CASE signal_filter
    <3>1. SetHeap(heap', told)
      BY <1>2, <2>1, ZenonT(60) DEF signal_filter, SetHeap
    <3>2. heap.watch[w].type = "signal"
      BY <1>4, <2>1 DEF signal_filter, IsService, HeapOK, Kinds
    <3>3. w <= heap.listener_id
      BY <1>4, Placed
    <3>4. w \in Live(heap') => heap'.watch[w].type = "signal"
      BY <1>5, <3>2, <3>3 DEF Kept
    <3> QED BY <3>1, <3>4
  <2>2. CASE service_filter /\ HasFunction(heap.watch[w].type, message.new)
    <3>1. SetHeap(heap', Says(w, IF message.new = Nobody THEN "disconnected" ELSE "connected"))
      BY <1>2, <2>2, ZenonT(60) DEF service_filter, SetHeap
    <3>2. PICK what : what = IF message.new = Nobody THEN "disconnected" ELSE "connected"
      OBVIOUS
    <3>3. \A v \in Id \ {w} : Says(w, what)[v] = told[v]
      BY DEF Says, Words
    <3>4. w \in Live(heap') /\ heap'.watch[w].type = "service" => Hears(w)' = Hears(w)
      BY <1>2, <2>2, <3>1, CalledHears
    <3> QED BY <3>1, <3>2, <3>3, <3>4
  <2>3. CASE service_filter /\ ~HasFunction(heap.watch[w].type, message.new)
    <3>1. SetHeap(heap', told)
      BY <1>2, <2>3 DEF service_filter, SetHeap
    <3>2. w <= heap.listener_id /\ heap.watch[w].type # "service"
      BY <1>4, <2>3, Placed DEF HasFunction
    <3>3. w \in Live(heap') => heap'.watch[w].type # "service"
      BY <1>5, <3>2 DEF Kept
    <3> QED BY <3>1, <3>3
  <2> QED BY <2>1, <2>2, <2>3
<1>8. ASSUME NEW v \in Live(heap'), heap'.watch[v].type = "service", v <= heap.listener_id
      PROVE  v # 0 /\ Hears(v)' = Hears(v)
  <2>1. v \in Id /\ v # 0
    BY <1>8 DEF Live, Id
  <2>2. CASE v = w
    BY <1>7, <1>8, <2>1, <2>2
  <2>3. CASE v # w
    <3>1. said[v] = told[v]
      BY <1>7, <2>1, <2>3
    <3> QED BY <1>1, <1>2, <1>7, <1>8, <2>1, <2>3, <3>1, OthersHear
  <2> QED BY <2>2, <2>3
<1> QED BY <1>1, <1>3, <1>5, <1>6, <1>7, <1>8, SetKnows

-----------------------------------------------------------------------------
(* While message_filter is not at work, a watch hears what it is told.       *)
LEMMA RestHears ==
  ASSUME ListsInv, Idle, UNCHANGED <<message, current>>,
         NEW said, SetHeap(heap', said), Kept(heap, heap')
  PROVE  /\ AtMatch' /\ \A w : Hears(w) = told[w]
         /\ \A w \in Live(heap') : heap'.watch[w].type = "service" /\ w <= heap.listener_id =>
              w \in Live(heap) /\ heap.watch[w].type = "service" /\ Hears(w)' = said[w]
<1>1. current = 0 /\ message = NULL /\ current' = 0 /\ message' = NULL
  BY DEF Idle
<1>2. AtMatch' /\ \A w : Hears(w) = told[w]
  BY <1>1 DEF AtMatch, Hears
<1>3. ASSUME NEW w \in Live(heap'), heap'.watch[w].type = "service", w <= heap.listener_id
      PROVE  w \in Live(heap) /\ heap.watch[w].type = "service" /\ Hears(w)' = said[w]
  <2>1. w \in Live(heap) /\ heap.watch[w].type = "service" /\ w \in Id
    BY <1>3 DEF Kept, Live
  <2>2. told'[w] = said[w]
    BY <1>3, <2>1 DEF SetHeap, Live
  <2> QED BY <1>1, <2>1, <2>2 DEF Hears
<1> QED BY <1>2, <1>3

(* Between two signals, client code adds and removes watches.                *)
LEMMA ClientKnows == ASSUME ListsInv, Knows, Client PROVE Knows'
<1>1. /\ Idle /\ SetHeap(heap', told) /\ UNCHANGED <<filtering, owner, inbox, status, current, message>>
      /\ heap' \in ClientCode(heap)
  BY DEF Client, SetHeap, filtering
<1>2. HeapOK(heap, 0, ToSet(<<>>)) /\ inbox \in Seq(Signal \cup Reply) /\ status = "running"
  BY <1>1, Resting DEF ListsInv, TypeOK, Idle
<1>3. HeapOK(heap', 0, ToSet(<<>>)) /\ Asks(heap, heap')
  BY ONLY <1>1, <1>2, ClientKeeps
<1>4. Settles(heap, heap', 0) /\ Shifted(inbox, inbox', 0) /\ Kept(heap, heap')
  BY <1>1, <1>2, <1>3, AsksSettles, Unshifted, RestKept
<1>5. AtMatch' /\ \A w \in Live(heap') : heap'.watch[w].type = "service" /\ w <= heap.listener_id => Hears(w)' = Hears(w)
  BY <1>1, <1>4, RestHears
<1>6. 0 \notin Live(heap')
  BY DEF Live, Id
<1> QED BY <1>1, <1>2, <1>3, <1>4, <1>5, <1>6, SetKnows

(* A watch that has found the owner in the cache waits for no reply.         *)
LEMMA UpdateKnows == ASSUME ListsInv, Words, Knows, NEW f \in Id, update_service(f) PROVE Knows'
<1>1. /\ Idle /\ UNCHANGED <<filtering, owner, inbox, status, current, message>>
      /\ heap.watch[f] # NULL /\ heap.watch[f].check \notin {NULL, "asked"}
  BY DEF update_service, filtering
<1>2. /\ HeapOK(heap, 0, ToSet(<<>>)) /\ inbox \in Seq(Signal \cup Reply) /\ status = "running"
      /\ f \in Live(heap) /\ heap.watch[f].type = "service"
  BY <1>1, Resting DEF ListsInv, TypeOK, Idle, HeapOK, Kinds, Live
<1>3. HeapOK(heap', 0, ToSet(<<>>)) /\ Settles(heap, heap', f)
  BY Updated
<1>4. Shifted(inbox, inbox', 0) /\ Kept(heap, heap')
  BY <1>1, <1>2, Unshifted, RestKept
<1>5. PICK said : said = Says(f, "cached")
  OBVIOUS
<1>6. SetHeap(heap', said) /\ said[f] = "cached" /\ \A v \in Id \ {f} : said[v] = told[v]
  BY <1>5 DEF update_service, Appeared, SetHeap, Says, Words
<1>7. ~Answered(inbox, f)
  BY <1>1, <1>2 DEF Knows, Informed
<1>8. AtMatch' /\ (\A w : Hears(w) = told[w])
      /\ \A w \in Live(heap') : heap'.watch[w].type = "service" /\ w <= heap.listener_id => Hears(w)' = said[w]
  BY <1>1, <1>4, <1>6, RestHears
<1>9. ASSUME NEW w \in Live(heap'), heap'.watch[w].type = "service", w <= heap.listener_id
      PROVE  IF w # f THEN Hears(w)' = Hears(w)
             ELSE /\ ~Answered(inbox', w)
                  /\ Known(NameOf(w)) => Aware(Hears(w)', heap'.watch[w].check, inbox', w, NameOf(w), Present)
  <2>1. Hears(w)' = said[w] /\ w \in Id
    BY <1>8, <1>9 DEF Live
  <2>2. CASE w # f
    BY <1>6, <1>8, <2>1, <2>2
  <2>3. CASE w = f
    BY <1>1, <1>6, <1>7, <2>1, <2>3 DEF Aware
  <2> QED BY <2>2, <2>3
<1> QED BY <1>1, <1>2, <1>3, <1>4, <1>6, <1>8, <1>9, SetKnows

-----------------------------------------------------------------------------
(* What remains once the reply to a watch has been taken.                    *)
LEMMA ReplyTaken ==
  ASSUME NEW q, NEW p, Shifted(q, p, 1), Single(q), NEW w, ReplyTo(q[1], w), NEW n, NEW P
  PROVE  /\ ~Answered(p, w)
         /\ \A s, check, new : Aware(s, check, q, w, n, P) /\ q[1].owner = Nobody => Aware(s, new, p, w, n, P)
         /\ Trusted(q, w, n, P) /\ q[1].owner # Nobody => \A new : Aware("connected", new, p, w, n, P)
<1>1. /\ DOMAIN q = 1 .. Len(q) /\ DOMAIN p = 1 .. Len(p) /\ Len(q) \in Nat /\ Len(p) \in Nat
      /\ Len(p) = Len(q) - 1 /\ \A i \in 1 .. Len(p) : i + 1 \in 1 .. Len(q) /\ p[i] = q[i + 1]
  BY DEF Shifted
<1>2. 1 \in 1 .. Len(q) /\ 0 + 1 = 1 /\ 0 \in Nat
  BY <1>1
<1>3. \A i \in 1 .. Len(q) : ReplyTo(q[i], w) => i = 1
  BY <1>1, <1>2 DEF Single, ReplyTo
<1>4. ~Answered(p, w)
  <2> SUFFICES ASSUME NEW i \in 1 .. Len(p), ReplyTo(p[i], w) PROVE FALSE
    BY <1>1 DEF Answered
  <2>1. i + 1 \in 1 .. Len(q) /\ ReplyTo(q[i + 1], w)
    BY <1>1
  <2>2. i + 1 = 1
    BY <1>3, <2>1
  <2> QED BY <2>2
<1>5. ~About(q[1], n)
  BY Apart DEF About, ReplyTo
<1>6. /\ Later(q, 0, n) => Later(p, 0, n)
      /\ Later(q, 1, n) => Later(p, 0, n)
  <2>1. \A i \in Nat : Later(q, i + 1, n) => Later(p, i, n)
    BY LaterShifted
  <2>2. Later(q, 0, n) => Later(p, 0, n)
    BY <1>5, LaterShifted
  <2>3. Later(q, 0 + 1, n) => Later(p, 0, n)
    BY <1>2, <2>1
  <2> QED BY <1>2, <2>2, <2>3
<1>7. ASSUME NEW s, NEW check, NEW new, Aware(s, check, q, w, n, P), q[1].owner = Nobody
      PROVE  Aware(s, new, p, w, n, P)
  <2>1. Answered(q, w)
    BY <1>1, <1>2 DEF Answered
  <2>2. ~Positive(q, w)
    BY <1>1, <1>3, <1>7 DEF Positive
  <2> QED BY <1>6, <1>7, <2>1, <2>2 DEF Aware
<1>8. ASSUME Trusted(q, w, n, P), q[1].owner # Nobody,
             NEW new PROVE Aware("connected", new, p, w, n, P)
  <2>1. n \in P \/ Later(q, 1, n)
    BY <1>1, <1>2, <1>8 DEF Trusted
  <2> QED BY <1>6, <2>1 DEF Aware
<1> QED BY <1>4, <1>7, <1>8

(* The reply of a watch that is gone is dropped.                             *)
LEMMA DroppedKnows ==
  ASSUME ListsInv, Knows, Idle, UNCHANGED <<heap, told, doubtful, message, current, owner, status>>,
         inbox # <<>>, Head(inbox) \in Reply, inbox' = Tail(inbox), heap.watch[Head(inbox).watch] = NULL
  PROVE  Knows'
<1>1. /\ status = "running" /\ HeapOK(heap, current, ToSet(doomed)) /\ inbox \in Seq(Signal \cup Reply)
  BY DEF Idle, ListsInv, TypeOK
<1>2. Shifted(inbox, inbox', 1) /\ inbox[1] = Head(inbox)
  BY <1>1, TailShifted
<1>3. /\ Live(heap') = Live(heap) /\ Present' = Present
      /\ \A w : NameOf(w)' = NameOf(w) /\ Hears(w)' = Hears(w)
      /\ \A n : Known(n)' <=> Known(n)
  BY DEF Live, Present, NameOf, Hears, Known
<1>4. \A n : ~About(inbox[1], n)
  BY <1>2, Apart DEF About
<1>5. Single(inbox') /\ \A m \in Waiting' : Genuine(m)
  <2>1. ToSet(inbox') \subseteq ToSet(inbox)
    <3>1. /\ DOMAIN inbox = 1 .. Len(inbox) /\ DOMAIN inbox' = 1 .. Len(inbox')
          /\ \A i \in 1 .. Len(inbox') : i + 1 \in 1 .. Len(inbox) /\ inbox'[i] = inbox[i + 1]
      BY <1>2 DEF Shifted
    <3> QED BY <3>1 DEF ToSet
  <2>2. Waiting' \subseteq Waiting
    BY <2>1 DEF Waiting
  <2> QED BY <1>1, <1>2, <2>2, RepliesShifted DEF Knows
<1>6. ASSUME NEW n \in Sender PROVE UpToDate(n)'
  <2>1. UpToDate(n) /\ (Later(inbox, 0, n) => Later(inbox', 0, n))
    BY <1>1, <1>2, <1>4, LaterShifted DEF Knows
  <2>2. Current(inbox, n, Present) => Current(inbox', n, Present)
    BY <1>2, NewsShifted
  <2> QED BY <1>3, <2>1, <2>2 DEF UpToDate
<1>7. ASSUME NEW w \in Live(heap), heap.watch[w].type = "service" PROVE Informed(w)'
  <2>1. Informed(w) /\ (Answered(inbox', w) => Answered(inbox, w))
    BY <1>1, <1>2, <1>7, RepliesShifted DEF Knows
  <2>2. ~ReplyTo(inbox[1], w)
    BY <1>2, <1>7 DEF ReplyTo, Live
  <2>3. PICK n, s, check, P, q, p, d :
          /\ d = 1 /\ n = NameOf(w) /\ s = Hears(w) /\ check = heap.watch[w].check /\ P = Present
          /\ q = inbox /\ p = inbox'
    OBVIOUS
  <2>4. Trusted(q, w, n, P) => Trusted(p, w, n, P)
    BY <1>2, <2>3, NewsShifted
  <2>5. ASSUME Aware(s, check, q, w, n, P) PROVE Aware(s, check, p, w, n, P)
    <3>1. Shifted(q, p, d) /\ (d = 1 => ~ReplyTo(q[1], w)) /\ (d = 1 => ~About(q[1], n))
      BY <1>2, <1>4, <2>2, <2>3
    <3> QED BY ONLY <2>5, <3>1, AwareShifted
  <2> QED BY <1>3, <2>1, <2>3, <2>4, <2>5 DEF Informed
<1>8. AtMatch'
  BY DEF AtMatch, Idle
<1> QED BY <1>3, <1>5, <1>6, <1>7, <1>8 DEF Knows

(* The reply is taken by the watch that asked, if it is still there.         *)
LEMMA AnswerKnows == ASSUME ListsInv, Words, Knows, service_reply PROVE Knows'
<1>1. PICK m \in Reply : m = Head(inbox) /\ inbox # <<>> /\ inbox' = Tail(inbox)
  BY DEF service_reply
<1>2. PICK f \in Id : f = m.watch
  BY DEF Reply
<1>3. /\ Idle /\ UNCHANGED <<filtering, owner, status, current, message>> /\ status = "running"
      /\ inbox \in Seq(Signal \cup Reply)
  BY DEF service_reply, filtering, Idle, ListsInv, TypeOK
<1>4. CASE heap.watch[f] = NULL
  <2>1. UNCHANGED <<heap, told, doubtful>>
    BY <1>1, <1>2, <1>4 DEF service_reply
  <2> QED BY <1>1, <1>2, <1>3, <1>4, <2>1, DroppedKnows
<1>5. CASE heap.watch[f] # NULL
  <2>1. PICK said : /\ SetHeap(heap', said) /\ \A v \in Id \ {f} : said[v] = told[v]
                    /\ said[f] = IF m.owner = Nobody THEN told[f] ELSE "connected"
    <3>1. CASE m.owner = Nobody
      <4>1. SetHeap(heap', told)
        BY <1>1, <1>2, <1>5, <3>1 DEF service_reply, SetHeap
      <4> QED BY <3>1, <4>1
    <3>2. CASE m.owner # Nobody
      <4>1. Appeared(f, m.owner, "connected")
        BY <1>1, <1>2, <1>5, <3>2 DEF service_reply
      <4>2. SetHeap(heap', Says(f, "connected"))
        BY <4>1 DEF Appeared, SetHeap
      <4>3. Says(f, "connected")[f] = "connected" /\ \A v \in Id \ {f} : Says(f, "connected")[v] = told[v]
        BY DEF Says, Words
      <4> QED BY <3>2, <4>2, <4>3
    <3> QED BY <3>1, <3>2
  <2>2. HeapOK(heap', 0, ToSet(<<>>)) /\ Settles(heap, heap', f) /\ Kept(heap, heap')
    BY <1>1, <1>2, Replied, RestKept
  <2>3. Shifted(inbox, inbox', 1) /\ inbox[1] = m /\ ReplyTo(inbox[1], f) /\ Single(inbox)
    BY <1>1, <1>2, <1>3, TailShifted DEF ReplyTo, Knows
  <2>4. AtMatch' /\ (\A w : Hears(w) = told[w])
        /\ \A w \in Live(heap') : heap'.watch[w].type = "service" /\ w <= heap.listener_id =>
             w \in Live(heap) /\ heap.watch[w].type = "service" /\ Hears(w)' = said[w]
    BY <1>3, <2>1, <2>2, RestHears
  <2>5. ASSUME NEW w \in Live(heap'), heap'.watch[w].type = "service", w <= heap.listener_id
        PROVE  IF w # f THEN Hears(w)' = Hears(w)
               ELSE /\ ~Answered(inbox', w)
                    /\ Known(NameOf(w)) => Aware(Hears(w)', heap'.watch[w].check, inbox', w, NameOf(w), Present)
    <3>1. Hears(w)' = said[w] /\ w \in Id
      BY <2>4, <2>5 DEF Live
    <3>2. CASE w # f
      BY <2>1, <2>4, <3>1, <3>2
    <3>3. CASE w = f
      <4>1. PICK n, P, q, p, new :
              n = NameOf(f) /\ P = Present /\ q = inbox /\ p = inbox' /\ new = heap'.watch[f].check
        OBVIOUS
      <4>2. Shifted(q, p, 1) /\ Single(q) /\ ReplyTo(q[1], f)
        BY <2>3, <4>1
      <4>3. /\ ~Answered(p, f)
            /\ \A s, check, x : Aware(s, check, q, f, n, P) /\ q[1].owner = Nobody => Aware(s, x, p, f, n, P)
            /\ Trusted(q, f, n, P) /\ q[1].owner # Nobody => \A x : Aware("connected", x, p, f, n, P)
        BY ONLY <4>2, ReplyTaken
      <4>4. ASSUME Known(n) PROVE Aware(said[f], new, p, f, n, P)
        <5>1. Informed(f)
          BY <1>3, <2>4, <2>5, <3>3 DEF Knows
        <5>2. Trusted(q, f, n, P) /\ Aware(told[f], heap.watch[f].check, q, f, n, P)
          BY <2>4, <4>1, <4>4, <5>1 DEF Informed
        <5>3. CASE m.owner = Nobody
          BY <2>1, <2>3, <4>1, <4>3, <5>2, <5>3
        <5>4. CASE m.owner # Nobody
          BY <2>1, <2>3, <4>1, <4>3, <5>2, <5>4
        <5> QED BY <5>3, <5>4
      <4> QED BY <3>1, <3>3, <4>1, <4>3, <4>4
    <3> QED BY <3>2, <3>3
  <2>6. inbox[1] \in Reply /\ inbox[1].watch = f
    BY <1>2, <2>3
  <2> QED BY <1>3, <2>1, <2>2, <2>3, <2>4, <2>5, <2>6, SetKnows
<1> QED BY <1>4, <1>5

-----------------------------------------------------------------------------
(* Rules are held for the listeners there are.                               *)
LEMMA RulesLeft ==
  ASSUME NEW h, NEW c, NEW D, HeapOK(h, c, D), NEW g, NEW d, NEW E, HeapOK(g, d, E),
         NEW r \in RuleInUse, With(g, r) \subseteq With(h, r), g.rules[r] > 0
  PROVE  h.rules[r] > 0
<1>1. PICK V, W : V = With(g, r) /\ W = With(h, r)
  OBVIOUS
<1>2. g.rules[r] = Cardinality(V) /\ h.rules[r] = Cardinality(W) /\ V \subseteq W /\ W \subseteq Id
  BY <1>1 DEF HeapOK, Counted, With
<1>3. V # {}
  BY <1>2, FS_EmptySet
<1>4. IsFiniteSet(W) /\ W # {}
  BY <1>2, <1>3, FiniteIds, FS_Subset
<1>5. Cardinality(W) \in Nat /\ Cardinality(W) # 0
  BY <1>4, FS_EmptySet, FS_CardinalityType
<1> QED BY <1>2, <1>5

(* Without a new listener no rule gets one.                                  *)
LEMMA EvolvesWith ==
  ASSUME NEW h, NEW c, NEW D, HeapOK(h, c, D), NEW g, NEW d, NEW E, HeapOK(g, d, E), Evolves(h, g),
         g.listener_id = h.listener_id, NEW r
  PROVE  With(g, r) \subseteq With(h, r)
<1> SUFFICES ASSUME NEW l \in Id, g.listener[l] # NULL, g.listener[l].rule = r
             PROVE  h.listener[l] # NULL /\ h.listener[l].rule = r
  BY DEF With
<1>1. l <= h.listener_id
  <2>1. g.listener_id \in Nat
    BY HeapParts DEF HeapOK, Lists
  <2> QED BY <2>1 DEF HeapOK, Fresh, Id
<1> QED BY <1>1 DEF Evolves

(* next_listener leaves each watch its turn.                                 *)
LEMMA NextKnows == ASSUME ListsInv, Knows, next_listener PROVE Knows'
<1>1. PICK h, D :
        /\ h \in HeapType
        /\ HeapOK(heap, current, ToSet(doomed)) /\ HeapOK(h, 0, D) /\ Places(heap, h, current)
        /\ HeapOK(heap', current', D) /\ Evolves(h, heap')
        /\ heap'.watch = h.watch /\ heap'.listener_id = h.listener_id
        /\ current' # 0 => current' \in Id /\ Matches(h.listener[current'], message)
        /\ heap'.watch = heap.watch /\ heap'.listener_id = heap.listener_id
  BY NextHeap
<1>2. /\ Kept(heap, heap') /\ UNCHANGED <<message, inbox, owner, status, told, called, doubtful>>
      /\ status = "running" /\ Live(heap') = Live(heap) /\ current \in Id /\ Present' = Present
  BY NextKept DEF next_listener, Live, ListsInv, TypeOK, Present
<1>3. ASSUME NEW n \in Sender, Known(n)' PROVE Known(n)
  <2>1. ServiceRule(n) \in RuleInUse
    BY DEF RuleInUse
  <2>2. With(heap', ServiceRule(n)) \subseteq With(h, ServiceRule(n))
    BY <1>1, EvolvesWith
  <2>3. With(h, ServiceRule(n)) \subseteq With(heap, ServiceRule(n))
    BY <1>1, <1>2 DEF Places, With, HeapOK, Locks
  <2>4. PICK r \in RuleInUse : r = ServiceRule(n)
    BY <2>1
  <2>5. With(heap', r) \subseteq With(heap, r) /\ heap'.rules[r] > 0
    BY <1>3, <2>2, <2>3, <2>4 DEF Known
  <2>6. heap.rules[r] > 0
    BY ONLY <1>1, <2>5, RulesLeft
  <2> QED BY <1>2, <1>3, <2>4, <2>6 DEF Known
<1>4. \A n \in Sender : UpToDate(n)'
  BY <1>2, <1>3 DEF Knows, UpToDate
<1>5. ASSUME NEW w \in Live(heap), heap.watch[w].type = "service"
      PROVE  NameOf(w)' = NameOf(w) /\ NameOf(w) \in Sender /\ Hears(w)' = Hears(w)
  <2>1. w <= heap.listener_id /\ heap.watch[w].type # "signal"
    BY <1>1, <1>5, Placed
  <2>2. NameOf(w)' = NameOf(w)
    BY <1>2, <1>5, <2>1 DEF Kept, NameOf, RuleOf
  <2>3. PICK r : r = RuleOf(heap, w)
    OBVIOUS
  <2>4. r.argument \in Sender /\ \A m : m.topic = OwnerChanged /\ m.argument = r.argument => Fits(heap, m, w)
    BY ONLY <1>1, <1>5, <2>1, <2>3, OnService
  <2>5. message # NULL /\ message.argument = NameOf(w) => Fits(heap, message, w)
    <3>1. NameOf(w) = r.argument /\ NameOf(w) # NULL
      BY <2>3, <2>4, WatchAssumption DEF NameOf, RuleOf, Sender
    <3>2. message # NULL => message \in Waiting
      BY DEF Waiting
    <3> QED BY <1>2, <2>4, <3>1, <3>2 DEF Knows, Genuine
  <2>6. Fits(heap, message, w) => (InTurn(heap', current', w) <=> InTurn(heap, current, w))
    BY <1>5, NextTurn
  <2> QED BY <1>2, <2>2, <2>3, <2>4, <2>5, <2>6 DEF Hears, NameOf, RuleOf
<1>6. \A w \in Live(heap') : heap'.watch[w].type = "service" => Informed(w)'
  BY <1>1, <1>2, <1>3, <1>5 DEF Knows, Informed
<1>7. AtMatch'
  <2> SUFFICES ASSUME current' # 0, heap'.listener[current'].rule.argument # NULL
               PROVE  heap'.listener[current'].rule.argument = message'.argument
    BY DEF AtMatch, IsService
  <2>1. PICK c \in Id : c = current'
    BY <1>1
  <2>2. heap'.listener[c].rule = h.listener[c].rule
    <3>1. heap'.listener[c] # NULL /\ heap'.listener_id \in Nat
      BY <1>1, <2>1, HeapParts DEF HeapOK, Locks, Lists
    <3>2. c <= h.listener_id
      BY <1>1, <3>1 DEF HeapOK, Fresh, Id
    <3> QED BY <1>1, <3>1, <3>2 DEF Evolves
  <2> QED BY <1>1, <1>2, <2>1, <2>2 DEF Matches
<1>8. Waiting' = Waiting
  BY <1>2 DEF Waiting
<1> QED BY <1>2, <1>4, <1>6, <1>7, <1>8 DEF Knows

-----------------------------------------------------------------------------
(* A signal about a name is in turn for all who watch it.                    *)
LEMMA MessageReaches ==
  ASSUME ListsInv, Turns, message_filter, NEW w \in Live(heap), heap.watch[w].type = "service",
         NEW m, m = Head(inbox), m.topic = OwnerChanged, m.argument = NameOf(w)
  PROVE  message' = m /\ InTurn(heap', current', w)
<1>1. HeapOK(heap, 0, ToSet(<<>>)) /\ Live(heap') = Live(heap) /\ heap'.watch = heap.watch
      /\ heap.watch[w].type # "signal" /\ w \in Id
  BY MessageKept DEF Live
<1>2. Fits(heap, m, w)
  <2>1. PICK r, D : r = RuleOf(heap, w) /\ D = ToSet(<<>>)
    OBVIOUS
  <2>2. HeapOK(heap, 0, D) /\ \A k : k.topic = OwnerChanged /\ k.argument = RuleOf(heap, w).argument => Fits(heap, k, w)
    BY <1>1, <2>1, OnService
  <2> QED BY <2>2 DEF NameOf, RuleOf
<1>3. called'[w] = "due"
  BY <1>1, <1>2 DEF Due, Fits, message_filter
<1>4. Turns' /\ status' = "running"
  BY MessageTurns DEF message_filter, Idle
<1>5. message' # NULL /\ InOrder(heap', current', message', w, called'[w])
  BY <1>1, <1>3, <1>4 DEF Turns
<1>6. message' = m
  BY <1>5 DEF message_filter
<1>7. ~Unfit(heap', message', w)
  BY <1>1 DEF Unfit, HasFunction
<1> QED BY <1>3, <1>5, <1>6, <1>7 DEF InOrder

(* What the head of the queue said of a name is now to be heard from the     *)
(* listeners.                                                                *)
LEMMA MessageKnows == ASSUME ListsInv, Turns, Knows, message_filter PROVE Knows'
<1>1. PICK m \in Signal : m = Head(inbox) /\ inbox # <<>> /\ inbox' = Tail(inbox)
  BY DEF message_filter
<1>2. /\ Kept(heap, heap') /\ Evolves(heap, heap') /\ heap'.watch = heap.watch
      /\ HeapOK(heap, 0, ToSet(<<>>)) /\ HeapOK(heap', current', ToSet(<<>>))
      /\ current' # 0 => current' \in Id /\ Matches(heap.listener[current'], m)
      /\ heap'.listener_id = heap.listener_id
  BY <1>1, MessageKept
<1>3. /\ message = NULL /\ status = "running" /\ UNCHANGED <<owner, status, told, doubtful>>
      /\ inbox \in Seq(Signal \cup Reply) /\ Live(heap') = Live(heap) /\ Present' = Present
      /\ message' \in {NULL, m}
      /\ current' # 0 => message' = m
  BY <1>1, <1>2 DEF message_filter, Idle, ListsInv, TypeOK, Live, Present
<1>4. Shifted(inbox, inbox', 1) /\ inbox[1] = m /\ 1 \in DOMAIN inbox
  <2>1. Shifted(inbox, inbox', 1) /\ inbox[1] = m
    BY <1>1, <1>3, TailShifted
  <2>2. 1 \in DOMAIN inbox
    BY <1>1, <1>3
  <2> QED BY <2>1, <2>2
<1>5. Single(inbox') /\ Genuine(m) /\ \A k \in Waiting' : Genuine(k)
  <2>1. ToSet(inbox') \subseteq ToSet(inbox)
    <3>1. /\ DOMAIN inbox = 1 .. Len(inbox) /\ DOMAIN inbox' = 1 .. Len(inbox')
          /\ \A i \in 1 .. Len(inbox') : i + 1 \in 1 .. Len(inbox) /\ inbox'[i] = inbox[i + 1]
      BY <1>4 DEF Shifted
    <3> QED BY <3>1 DEF ToSet
  <2>2. m \in ToSet(inbox)
    BY <1>4 DEF ToSet
  <2>3. Waiting' \subseteq Waiting /\ m \in Waiting
    BY <1>3, <2>1, <2>2 DEF Waiting
  <2> QED BY <1>3, <1>4, <2>3, RepliesShifted DEF Knows
<1>6. ASSUME NEW n \in Sender, Known(n)' PROVE Known(n)
  <2>1. PICK r \in RuleInUse : r = ServiceRule(n)
    BY DEF RuleInUse
  <2>2. With(heap', r) \subseteq With(heap, r) /\ heap'.rules[r] > 0
    BY <1>2, <1>6, <2>1, EvolvesWith DEF Known
  <2>3. heap.rules[r] > 0
    BY ONLY <1>2, <2>2, RulesLeft
  <2> QED BY <1>3, <1>6, <2>1, <2>3 DEF Known
<1>7. ASSUME NEW n \in Sender, Known(n)
      PROVE  /\ Current(inbox', n, Present)
             /\ m.argument = n => Tells(m, n, Present) \/ Later(inbox', 0, n)
             /\ m.argument # n /\ Later(inbox, 0, n) => Later(inbox', 0, n)
  <2>1. Current(inbox, n, Present)
    BY <1>3, <1>7 DEF Knows, UpToDate
  <2>2. Current(inbox', n, Present)
    BY <1>4, <2>1, NewsShifted
  <2>3. Later(inbox, 1, n) => Later(inbox', 0, n)
    <3>1. \A i \in Nat : Later(inbox, i + 1, n) => Later(inbox', i, n)
      BY <1>4, LaterShifted
    <3>2. 0 \in Nat /\ 0 + 1 = 1
      OBVIOUS
    <3> QED BY <3>1, <3>2
  <2>4. m.argument = n => Tells(m, n, Present) \/ Later(inbox, 1, n)
    BY <1>4, <2>1 DEF Current, About
  <2>5. m.argument # n /\ Later(inbox, 0, n) => Later(inbox', 0, n)
    BY <1>4, LaterShifted DEF About
  <2> QED BY <2>2, <2>3, <2>4, <2>5
<1>8. \A n \in Sender : UpToDate(n)'
  BY <1>3, <1>6, <1>7 DEF UpToDate
<1>9. ASSUME NEW w \in Live(heap), heap.watch[w].type = "service" PROVE Informed(w)'
  <2>1. PICK n \in Sender : n = NameOf(w)
    BY <1>2, <1>9, Names DEF NameOf
  <2>2. NameOf(w)' = n
    <3>1. w <= heap.listener_id
      BY <1>2, Placed
    <3> QED BY <1>2, <1>3, <2>1, <3>1 DEF Kept, NameOf, RuleOf
  <2>3. Informed(w) /\ Hears(w) = told[w]
    BY <1>3, <1>9 DEF Knows, Hears
  <2>4. Answered(inbox', w) => Answered(inbox, w)
    BY <1>4, RepliesShifted
  <2>5. ~ReplyTo(inbox[1], w)
    BY <1>4, Apart DEF ReplyTo
  <2>6. ASSUME Known(n)
        PROVE  /\ Trusted(inbox', w, n, Present)
               /\ Aware(Hears(w)', heap.watch[w].check, inbox', w, n, Present)
    <3>1. Trusted(inbox, w, n, Present) /\ Aware(told[w], heap.watch[w].check, inbox, w, n, Present)
      BY <2>1, <2>3, <2>6 DEF Informed
    <3>2. Trusted(inbox', w, n, Present)
      BY <1>4, <3>1, NewsShifted
    <3>3. CASE m.argument = n
      <4>1. message' = m /\ InTurn(heap', current', w)
        <5>1. m.topic = OwnerChanged
          BY <1>5, <3>3, WatchAssumption DEF Genuine, Sender
        <5> QED BY <1>1, <1>9, <2>1, <3>3, <5>1, MessageReaches
      <4>2. Hears(w)' = IF m.new = Nobody THEN "disconnected" ELSE "connected"
        BY <2>2, <3>3, <4>1, RecordsAssumption DEF Hears
      <4>3. Tells(m, n, Present) \/ Later(inbox', 0, n)
        BY <1>7, <2>6, <3>3
      <4>4. Aware(Hears(w)', heap.watch[w].check, inbox', w, n, Present)
        BY <4>2, <4>3 DEF Aware, Tells
      <4> QED BY <3>2, <4>4
    <3>4. CASE m.argument # n
      <4>1. Hears(w)' = told[w]
        BY <1>3, <2>2, <3>4 DEF Hears
      <4>2. PICK s, check, P, q, p, d :
              /\ d = 1 /\ s = told[w] /\ check = heap.watch[w].check /\ P = Present
              /\ q = inbox /\ p = inbox'
        OBVIOUS
      <4>3. /\ Shifted(q, p, d) /\ (d = 1 => ~ReplyTo(q[1], w)) /\ (d = 1 => ~About(q[1], n))
            /\ Aware(s, check, q, w, n, P)
        BY <1>4, <2>5, <3>1, <3>4, <4>2 DEF About
      <4>4. Aware(s, check, p, w, n, P)
        BY ONLY <4>3, AwareShifted
      <4> QED BY <3>2, <4>1, <4>2, <4>4
    <3> QED BY <3>3, <3>4
  <2> QED BY <1>2, <1>3, <1>6, <2>1, <2>2, <2>3, <2>4, <2>6 DEF Informed
<1>10. AtMatch'
  <2> SUFFICES ASSUME current' # 0, heap'.listener[current'].rule.argument # NULL
               PROVE  heap'.listener[current'].rule.argument = message'.argument
    BY DEF AtMatch, IsService
  <2>1. PICK c \in Id : c = current'
    BY <1>2
  <2>2. heap'.listener[c].rule = heap.listener[c].rule
    <3>1. heap'.listener[c] # NULL /\ heap'.listener_id \in Nat
      BY <1>2, <2>1, HeapParts DEF HeapOK, Locks, Lists
    <3>2. c <= heap.listener_id
      BY <1>2, <3>1 DEF HeapOK, Fresh, Id
    <3> QED BY <1>2, <3>1, <3>2 DEF Evolves
  <2> QED BY <1>2, <1>3, <2>1, <2>2 DEF Matches
<1> QED BY <1>2, <1>3, <1>5, <1>8, <1>9, <1>10 DEF Knows

(* At the end every watch has heard it.                                      *)
LEMMA EndKnows == ASSUME ListsInv, Knows, delete_listener PROVE Knows'
<1>1. CASE status' # "running"
  BY <1>1 DEF Knows
<1>2. CASE status' = "running"
  <2>1. /\ HeapOK(heap, 0, ToSet(doomed)) /\ current = 0 /\ current' = 0 /\ message' = NULL /\ status = "running"
        /\ UNCHANGED <<inbox, owner, told, doubtful>> /\ Present' = Present
    BY DEF delete_listener, AtEnd, ListsInv, Present
  <2>2. HeapOK(heap', 0, ToSet(<<>>)) /\ Evolves(heap, heap') /\ Prunes(heap, heap')
    BY <1>2, Ended
  <2>3. Kept(heap, heap')
    BY <2>1, <2>2, EvolvesKept
  <2>4. ASSUME NEW n \in Sender, Known(n)' PROVE Known(n)
    <3>1. PICK r \in RuleInUse : r = ServiceRule(n)
      BY DEF RuleInUse
    <3>2. With(heap', r) \subseteq With(heap, r) /\ heap'.rules[r] > 0
      BY <2>1, <2>2, <2>4, <3>1, EvolvesWith DEF Known, Prunes
    <3>3. heap.rules[r] > 0
      BY ONLY <2>1, <2>2, <3>2, RulesLeft
    <3> QED BY <2>1, <2>4, <3>1, <3>3 DEF Known
  <2>5. \A n \in Sender : UpToDate(n)'
    BY <2>1, <2>4 DEF Knows, UpToDate
  <2>6. ASSUME NEW w \in Live(heap'), heap'.watch[w].type = "service" PROVE Informed(w)'
    <3>1. w \in Live(heap) /\ heap'.watch[w] = heap.watch[w]
      BY <2>2, <2>6 DEF Prunes, Live
    <3>2. w <= heap.listener_id
      BY <2>1, <3>1, Placed
    <3>3. PICK n \in Sender : n = NameOf(w) /\ n = NameOf(w)'
      BY <2>1, <2>3, <2>6, <3>1, <3>2, Names DEF Kept, NameOf, RuleOf
    <3>4. Hears(w) = told[w] /\ Hears(w)' = told[w]
      BY <2>1 DEF Hears, InTurn
    <3> QED BY <2>1, <2>4, <2>6, <3>1, <3>3, <3>4 DEF Knows, Informed
  <2>7. AtMatch' /\ Waiting' \subseteq Waiting
    BY <2>1 DEF AtMatch, Waiting
  <2> QED BY <2>1, <2>5, <2>6, <2>7 DEF Knows
<1> QED BY <1>1, <1>2

(* Knows is inductive, given ListsInv, Turns and Words.                      *)
LEMMA KnowsStep == ListsInv /\ Turns /\ Words /\ Knows /\ [Next]_vars => Knows'
<1> SUFFICES ASSUME ListsInv, Turns, Words, Knows, [Next]_vars PROVE Knows'
  OBVIOUS
<1>1. CASE Filter
  BY <1>1, MessageKnows, FilterKnows, NextKnows, EndKnows DEF Filter
<1>2. CASE service_reply \/ Client \/ \E w \in Id : update_service(w)
  BY <1>2, AnswerKnows, ClientKnows, UpdateKnows
<1>3. CASE g_dbus_remove_all_watches
  BY <1>3 DEF g_dbus_remove_all_watches, Knows
<1>4. CASE Environment
  BY <1>4, EnvironmentKnows
<1>5. CASE \E w \in Id : GetNameOwner(w)
  BY <1>5, AskKnows
<1>6. CASE UNCHANGED vars
  <2>1. /\ Live(heap') = Live(heap) /\ Present' = Present /\ Waiting' = Waiting /\ (AtMatch' <=> AtMatch)
        /\ \A w : NameOf(w)' = NameOf(w) /\ Hears(w)' = Hears(w)
        /\ \A n : Known(n)' <=> Known(n)
    BY <1>6 DEF vars, Live, Present, Waiting, AtMatch, NameOf, Hears, Known
  <2>2. \A n : UpToDate(n)' <=> UpToDate(n)
    BY <1>6, <2>1 DEF vars, UpToDate
  <2>3. \A w : Informed(w)' <=> Informed(w)
    BY <1>6, <2>1 DEF vars, Informed
  <2> QED BY <1>6, <2>1, <2>2, <2>3 DEF vars, Knows
<1> QED BY <1>1, <1>2, <1>3, <1>4, <1>5, <1>6 DEF Next

(* Once nothing is under way, a service watch was last told what is so, as   *)
(* long as it was not told from the cache or behind an old signal.           *)
THEOREM PresenceKnown == Spec => []KnowsPresence
<1>1. Init => Words /\ Knows
  <2> SUFFICES ASSUME Init PROVE Words /\ Knows
    OBVIOUS
  <2>1. Words
    BY DEF Init, Words, Word
  <2>2. Single(inbox) /\ AtMatch /\ Waiting = {}
    BY DEF Init, Single, AtMatch, Waiting, ToSet
  <2>3. Live(heap) = {} /\ \A n \in Sender : UpToDate(n)
    <3>1. \A r \in RuleInUse : heap.rules[r] = 0
      BY DEF Init, EmptyHeap
    <3>2. \A n \in Sender : ServiceRule(n) \in RuleInUse
      BY DEF RuleInUse
    <3> QED BY <3>1, <3>2 DEF Init, EmptyHeap, Live, UpToDate, Known
  <2> QED BY <2>1, <2>2, <2>3 DEF Knows
<1>2. ListsInv /\ Words /\ [Next]_vars => Words'
  BY WordsStep
<1>3. ListsInv /\ Knows => KnowsPresence
  <2> SUFFICES ASSUME ListsInv, Knows, Quiet, NEW w \in Live(heap), heap.watch[w].type = "service",
                      told[w] # "cached", NameOf(w) \notin doubtful
               PROVE  told[w] = "connected" <=> NameOf(w) \in Present
    BY DEF KnowsPresence
  <2>1. /\ status = "running" /\ message = NULL /\ inbox = <<>> /\ heap.watch[w].check = NULL
        /\ HeapOK(heap, current, ToSet(doomed)) /\ heap.watch[w].type # "signal"
    BY DEF Quiet, Idle, Pending, ListsInv
  <2>2. Known(NameOf(w))
    <3>1. PICK r : r = RuleOf(heap, w)
      OBVIOUS
    <3>2. r = ServiceRule(r.argument) /\ heap.rules[r] > 0
      BY ONLY <2>1, <3>1, w \in Live(heap), OnService
    <3> QED BY <3>1, <3>2 DEF NameOf, RuleOf, Known
  <2>3. Aware(told[w], NULL, inbox, w, NameOf(w), Present)
    BY <2>1, <2>2 DEF Knows, Informed, Hears
  <2>4. \A n : ~Later(inbox, 0, n) /\ ~Positive(inbox, w)
    BY <2>1 DEF Later, Positive
  <2> QED BY <2>3, <2>4 DEF Aware
<1> QED BY <1>1, <1>2, <1>3, KnowsStep, ListsAlways, TurnsAlways, PTL DEF Spec
=============================================================================
