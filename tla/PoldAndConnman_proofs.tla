------------------------- MODULE PoldAndConnman_proofs -------------------------
(* Theorems of PoldAndConnman: the types, the registration of ConnMan's      *)
(* plugin with pold, what pold's session and the policies wait for, and what *)
(* they are once all is quiet. For any number of applications, sessions,     *)
(* starts and policies. The two are joined by two queues, and nearly all     *)
(* there is to prove is about what lies in them: a step takes at most the    *)
(* first message of each and adds some behind (Moved, Step). So each handler *)
(* is first summarised by what it takes, sends and changes (the lemmas up to *)
(* PoldLeaves and ConnmanLeaves, which also keep the types), and the         *)
(* invariants are proved from the summaries.                                 *)
EXTENDS PoldAndConnman, SequenceTheorems, FiniteSetTheorems, TLAPS

-----------------------------------------------------------------------------
(* p is the queue q without its first d elements, and with s behind.         *)
Moved(q, p, d, s) ==
  /\ Len(q) \in Nat /\ Len(s) \in Nat /\ d \in {0, 1} /\ d <= Len(q)
  /\ DOMAIN q = 1 .. Len(q) /\ DOMAIN s = 1 .. Len(s)
  /\ DOMAIN p = 1 .. Len(q) - d + Len(s) /\ Len(p) = Len(q) - d + Len(s)
  /\ \A i \in 1 .. Len(q) - d : p[i] = q[i + d]
  /\ \A i \in 1 .. Len(s) : p[Len(q) - d + i] = s[i]

(* Adding behind a queue moves nothing.                                      *)
LEMMA Added ==
  ASSUME NEW S, NEW q \in Seq(S), NEW s \in Seq(S), NEW p, p = q \o s
  PROVE  p \in Seq(S) /\ Moved(q, p, 0, s)
<1>1. /\ p \in Seq(S) /\ Len(p) = Len(q) + Len(s)
      /\ \A i \in 1 .. Len(q) + Len(s) : p[i] = IF i <= Len(q) THEN q[i] ELSE s[i - Len(q)]
  BY ConcatProperties
<1>2. \A r \in Seq(S) : Len(r) \in Nat /\ DOMAIN r = 1 .. Len(r)
  BY LenProperties
<1> QED BY <1>1, <1>2 DEF Moved

(* Handling the first message, and adding behind.                            *)
LEMMA Dropped ==
  ASSUME NEW S, NEW q \in Seq(S), q # <<>>, NEW s \in Seq(S), NEW p, p = Tail(q) \o s
  PROVE  p \in Seq(S) /\ Moved(q, p, 1, s) /\ q[1] = Head(q) /\ Head(q) \in S
<1>1. /\ Tail(q) \in Seq(S) /\ Len(Tail(q)) = Len(q) - 1 /\ Head(q) \in S
      /\ \A i \in 1 .. Len(Tail(q)) : Tail(q)[i] = q[i + 1]
  BY HeadTailProperties
<1>2. /\ p \in Seq(S) /\ Len(p) = Len(Tail(q)) + Len(s)
      /\ \A i \in 1 .. Len(Tail(q)) + Len(s) :
           p[i] = IF i <= Len(Tail(q)) THEN Tail(q)[i] ELSE s[i - Len(Tail(q))]
  BY <1>1, ConcatProperties
<1>3. \A r \in Seq(S) : Len(r) \in Nat /\ DOMAIN r = 1 .. Len(r)
  BY LenProperties
<1>4. Len(q) # 0
  BY EmptySeq
<1>5. q[1] = Head(q)
  OBVIOUS
<1> QED BY <1>1, <1>2, <1>3, <1>4, <1>5 DEF Moved

(* Handling the first message only.                                          *)
LEMMA Taken ==
  ASSUME NEW S, NEW q \in Seq(S), q # <<>>, NEW p, p = Tail(q)
  PROVE  p \in Seq(S) /\ Moved(q, p, 1, <<>>) /\ q[1] = Head(q) /\ Head(q) \in S
<1>1. Tail(q) \in Seq(S) /\ <<>> \in Seq(S)
  BY HeadTailProperties, EmptySeq
<1>2. p = Tail(q) \o <<>>
  BY <1>1, ConcatEmptySeq
<1> QED BY ONLY <1>1, <1>2, q \in Seq(S), q # <<>>, Dropped

(* A queue left alone.                                                       *)
LEMMA Unmoved ==
  ASSUME NEW S, NEW q \in Seq(S)
  PROVE  Moved(q, q, 0, <<>>)
<1>1. <<>> \in Seq(S)
  BY EmptySeq
<1>2. q = q \o <<>>
  BY <1>1, ConcatEmptySeq
<1> QED BY ONLY <1>1, <1>2, q \in Seq(S), Added

(* The elements that stay, and where those of p are from.                    *)
LEMMA Places ==
  ASSUME NEW q, NEW p, NEW d, NEW s, Moved(q, p, d, s)
  PROVE  /\ \A j \in DOMAIN q : j > d => j - d \in DOMAIN p /\ p[j - d] = q[j]
         /\ \A i \in DOMAIN p : \/ i + d \in DOMAIN q /\ p[i] = q[i + d]
                                \/ i + d > Len(q) /\ i + d - Len(q) \in DOMAIN s /\ p[i] = s[i + d - Len(q)]
         /\ \A k \in DOMAIN s : Len(q) - d + k \in DOMAIN p /\ p[Len(q) - d + k] = s[k]
<1> USE DEF Moved
<1>1. ASSUME NEW j \in DOMAIN q, j > d PROVE j - d \in DOMAIN p /\ p[j - d] = q[j]
  <2>1. j \in Nat /\ j <= Len(q) /\ d \in Nat /\ j - d \in 1 .. Len(q) - d /\ (j - d) + d = j
    BY <1>1
  <2> QED BY <2>1
<1>2. ASSUME NEW i \in DOMAIN p
      PROVE  \/ i + d \in DOMAIN q /\ p[i] = q[i + d]
             \/ i + d > Len(q) /\ i + d - Len(q) \in DOMAIN s /\ p[i] = s[i + d - Len(q)]
  <2>1. CASE i <= Len(q) - d
    <3>1. i \in 1 .. Len(q) - d /\ i + d \in 1 .. Len(q)
      BY <2>1
    <3> QED BY <3>1
  <2>2. CASE i > Len(q) - d
    <3>1. i + d - Len(q) \in 1 .. Len(s) /\ Len(q) - d + (i + d - Len(q)) = i
      BY <2>2, SMTT(30)
    <3> QED BY <2>2, <3>1
  <2> QED BY <2>1, <2>2
<1>3. ASSUME NEW k \in DOMAIN s PROVE Len(q) - d + k \in DOMAIN p /\ p[Len(q) - d + k] = s[k]
  OBVIOUS
<1> QED BY <1>1, <1>2, <1>3

(* SetToSeq lists the elements of a finite set.                              *)
LEMMA Listing ==
  ASSUME NEW S, IsFiniteSet(S)
  PROVE  /\ SetToSeq(S) \in Seq(S)
         /\ \A x \in S : \E i \in DOMAIN SetToSeq(S) : SetToSeq(S)[i] = x
         /\ \A i, j \in DOMAIN SetToSeq(S) : SetToSeq(S)[i] = SetToSeq(S)[j] => i = j
<1> DEFINE n == Cardinality(S)
<1>1. n \in Nat /\ ExistsBijection(1 .. n, S)
  BY FS_CardinalityType
<1>2. \E f \in [1 .. n -> S] : IsInjective(f)
  BY <1>1 DEF ExistsBijection, Bijection, Injection, IsInjective
<1>3. SetToSeq(S) \in [1 .. n -> S] /\ IsInjective(SetToSeq(S))
  BY <1>2 DEF SetToSeq
<1>4. PICK f : f = SetToSeq(S)
  OBVIOUS
<1>5. f \in Seq(S) /\ DOMAIN f = 1 .. n
  BY <1>1, <1>3, <1>4, SeqDef
<1>6. \A i, j \in DOMAIN f : f[i] = f[j] => i = j
  BY <1>3, <1>4 DEF IsInjective
<1>7. \A x \in S : \E i \in DOMAIN f : f[i] = x
  <2>1. IsFiniteSet(1 .. n) /\ Cardinality(1 .. n) = n
    BY <1>1, FS_Interval
  <2>2. PICK g \in Bijection(1 .. n, S) : TRUE
    BY <1>1 DEF ExistsBijection
  <2>3. f \in Injection(1 .. n, S)
    BY <1>3, <1>4, <1>6 DEF Injection, IsInjective
  <2>4. f \in Surjection(1 .. n, S)
    BY <2>1, <2>3, FS_Injection
  <2> QED BY <1>5, <2>4 DEF Surjection
<1> QED BY <1>4, <1>5, <1>6, <1>7

(* So are the owners, and the calls under way.                               *)
LEMMA FiniteOwners == IsFiniteSet(Owner) /\ \A S \in SUBSET Owner : IsFiniteSet(S)
<1>1. IsFiniteSet(Owner)
  BY OwnersAssumption, FS_AddElement DEF Owner
<1> QED BY <1>1, FS_Subset

(* The image of a finite set.                                                *)
LEMMA FiniteImage ==
  ASSUME NEW S, IsFiniteSet(S), NEW f, NEW T, T = {f[x] : x \in S}
  PROVE  IsFiniteSet(T)
<1>1. [x \in S |-> f[x]] \in Surjection(S, T)
  BY DEF Surjection
<1> QED BY <1>1, FS_Surjection
-----------------------------------------------------------------------------
(* The messages, by whom they are for.                                       *)
Process == 1 .. MaxStarts
Config == [process : Nat, version : Nat, document : Document]
PolicyConfig == [cbd : BOOLEAN, pending : Nat, config : Config \cup {NULL}]

Plain(types) == [type : types, owner : {NULL}, number : {0}, value : {NULL}]
Agents(types) == [type : types, owner : {NULL}, number : {0}, value : Process]
Question == [type : {"GetPolicyConfig"}, owner : Owner, number : Nat \ {0}, value : Process]
Registered == [type : {"Registered"}, owner : {NULL}, number : {0}, value : Process \cup {NULL}]
PolicyMessage ==
  {m \in [type : {"Policy"}, owner : Owner, number : Nat \ {0}, value : Config \cup {NULL}] :
     m.owner = Self => ~Missing(m.value)}
UpdateMessage == [type : {"Update"}, owner : App, number : {0}, value : Config]
CreateMessage == [type : {"CreateSession"}, owner : {Self}, number : Nat \ {0}, value : Process]
SessionMessage == [type : {"Session"}, owner : {Self}, number : Nat, value : 0 .. MaxStarts \cup {NULL}]
ReleaseMessage == [type : {"Release"}, owner : {Self}, number : {0}, value : {NULL}]

ForConnman ==
  Plain({"appeared", "disappeared", "OwnerLeft"}) \cup Registered \cup CreateMessage
  \cup PolicyMessage \cup UpdateMessage
ForPold ==
  Plain({"appeared", "disappeared"}) \cup Agents({"RegisterAgent", "UnregisterAgent", "AgentLeft"})
  \cup Question \cup SessionMessage \cup ReleaseMessage
Calls == Agents({"RegisterAgent"}) \cup Question

(* The types of the variables, by component.                                 *)
LifeTypes ==
  /\ pold \in 0 .. MaxStarts /\ connman \in 0 .. MaxStarts
  /\ started \in [pold : Nat, connman : Nat] /\ Starts <= MaxStarts
  /\ pold \in {0, started.pold} /\ connman \in {0, started.connman}
PluginTypes ==
  {agent_registered, interface, register_call} \subseteq BOOLEAN
SessionTypes ==
  /\ session \in [Owner -> {"none", "creating", "created"}]
  /\ session_hash \in [Owner -> PolicyConfig \cup {NULL}]
  /\ created \in [Owner -> Nat]
  /\ caller \in [process : Nat, number : Nat] /\ silent \subseteq App
  /\ \A o \in Owner : session_hash[o] = NULL <=> session[o] = "none"
  /\ session[Self] # "none" => caller.process # 0
ClientTypes ==
  /\ session_path \in 0 .. MaxStarts \cup {NULL}
  /\ calls \in Nat /\ create_calls \subseteq 1 .. calls
ManagerTypes ==
  /\ agents \subseteq Process /\ apps \subseteq Process \X App
  /\ asked \subseteq {m \in Question : m.owner \in App}
  /\ policies \in 1 .. MaxPolicies /\ document \in [App -> Document]
FaultTypes == faults \subseteq {"timeout", "unregistered", "abandoned", "orphaned", "twice"}
QueueTypes == to_connman \in Seq(ForConnman) /\ to_pold \in Seq(ForPold)

(* A request under way has a number, and its session is not there yet.       *)
Requests ==
  \A o \in Owner : session_hash[o] # NULL =>
    /\ session_hash[o].pending # 0 \/ session_hash[o].cbd => session[o] = "creating"
    /\ session_hash[o].cbd => created[o] # 0

(* Nothing is left of a process that has stopped.                            *)
PoldOff ==
  pold = 0 =>
    /\ to_pold = <<>> /\ agents = {} /\ apps = {} /\ asked = {}
    /\ create_calls = {} /\ session_path = NULL /\ "pold" \notin starting
ConnmanOff ==
  connman = 0 =>
    /\ to_connman = <<>> /\ ~agent_registered /\ ~interface /\ ~register_call
    /\ \A o \in Owner : session_hash[o] = NULL
    /\ "connman" \notin starting

Typed ==
  /\ LifeTypes /\ PluginTypes /\ SessionTypes /\ ClientTypes /\ ManagerTypes /\ FaultTypes
  /\ QueueTypes /\ Requests /\ PoldOff /\ ConnmanOff

(* What NULL differs from.                                                   *)
LEMMA NullApart ==
  /\ NULL \notin Process /\ NULL \notin Config /\ NULL \notin PolicyConfig /\ NULL \notin Owner
  /\ NULL \notin 0 .. MaxStarts /\ 0 \notin Process /\ Process \subseteq 0 .. MaxStarts
  /\ NULL # Self /\ MaxStarts \in Nat \ {0} /\ MaxPolicies \in Nat \ {0}
<1>1. MaxStarts \in Nat \ {0} /\ MaxPolicies \in Nat \ {0} /\ NULL \notin Nat
  BY BoundsAssumption, NullAssumption
<1>2. NULL \notin Config /\ NULL \notin PolicyConfig
  BY NullAssumption DEF Config, PolicyConfig
<1>3. NULL \notin Owner /\ NULL # Self
  BY PluginAssumption DEF Owner
<1> QED BY <1>1, <1>2, <1>3 DEF Process

(* A queue of one message.                                                   *)
LEMMA Elements ==
  ASSUME NEW S, NEW x \in S
  PROVE  /\ <<x>> \in Seq(S) /\ Len(<<x>>) = 1 /\ <<x>>[1] = x /\ DOMAIN <<x>> = {1}
  OBVIOUS

(* The empty queue.                                                          *)
LEMMA NoElements == ASSUME NEW S PROVE <<>> \in Seq(S) /\ Len(<<>>) = 0 /\ DOMAIN <<>> = {}
  OBVIOUS

(* The bus answers calls that find nobody.                                   *)
LEMMA Unanswered ==
  ASSUME NEW m \in Calls
  PROVE  /\ NoAnswer(m) \in Registered \cup PolicyMessage /\ NoAnswer(m).value = NULL
         /\ m.type = "GetPolicyConfig" => NoAnswer(m).type = "Policy"
         /\ m.type = "RegisterAgent" => NoAnswer(m).type = "Registered"
<1>1. CASE m \in Question
  BY <1>1 DEF Question, NoAnswer, Message, PolicyMessage, Missing
<1>2. CASE m \in Agents({"RegisterAgent"})
  BY <1>2 DEF Agents, NoAnswer, Message, Registered
<1> QED BY <1>1, <1>2 DEF Calls

(* What CallPold does to the queues: calls for pold, or the bus's refusals.  *)
LEMMA CallSends ==
  ASSUME Typed, NEW rest \in Seq(ForConnman), NEW made \in Seq(Calls), CallPold(rest, made)
  PROVE  \E s, t :
           /\ to_connman' = rest \o s /\ s \in Seq(ForConnman)
           /\ to_pold' = to_pold \o t /\ t \in Seq(ForPold)
           /\ pold # 0 => s = <<>> /\ t = made
           /\ pold = 0 => /\ t = <<>> /\ Len(s) = Len(made)
                          /\ \A i \in DOMAIN s : i \in DOMAIN made /\ s[i] = NoAnswer(made[i])
<1>1. Calls \subseteq ForPold
  BY DEF Calls, ForPold, Agents
<1>2. made \in Seq(ForPold)
  BY <1>1, SeqMonotonic
<1>3. to_pold \in Seq(ForPold) /\ \A S : <<>> \in Seq(S)
  BY EmptySeq DEF Typed, QueueTypes
<1>4. CASE pold # 0
  BY <1>2, <1>3, <1>4, ConcatEmptySeq DEF CallPold
<1>5. CASE pold = 0
  <2>1. PICK s : s = [i \in DOMAIN made |-> NoAnswer(made[i])]
    OBVIOUS
  <2>2. DOMAIN made = 1 .. Len(made) /\ Len(made) \in Nat /\ \A i \in DOMAIN made : made[i] \in Calls
    BY LenProperties, ElementOfSeq
  <2>3. Registered \cup PolicyMessage \subseteq ForConnman
    BY DEF ForConnman
  <2>4. \A i \in 1 .. Len(made) : s[i] \in ForConnman
    BY <2>1, <2>2, <2>3, Unanswered
  <2>5. s \in Seq(ForConnman) /\ Len(s) = Len(made)
    <3>1. s \in [1 .. Len(made) -> ForConnman]
      BY <2>1, <2>2, <2>4
    <3> QED BY <2>2, <3>1
  <2>6. to_connman' = rest \o s /\ to_pold' = to_pold
    BY <1>5, <2>1 DEF CallPold
  <2>7. to_pold' = to_pold \o <<>>
    BY <1>3, <2>6, ConcatEmptySeq
  <2>8. \A i \in DOMAIN s : i \in DOMAIN made /\ s[i] = NoAnswer(made[i])
    BY <2>1
  <2> QED BY <1>3, <1>5, <2>5, <2>6, <2>7, <2>8
<1> QED BY <1>4, <1>5

(* A reply to a process of pold, if it still runs.                           *)
Replied(process, m) ==
  \E t : /\ to_pold' = to_pold \o t /\ t \in Seq(ForPold)
         /\ t = IF pold = process THEN <<m>> ELSE <<>>
         /\ pold = 0 => t = <<>> /\ to_pold' = to_pold

(* That is what ReplyToPold does.                                            *)
LEMMA ReplySends ==
  ASSUME Typed, NEW process, process # 0, NEW m \in ForPold, ReplyToPold(process, <<m>>)
  PROVE  Replied(process, m)
<1> USE DEF Replied
<1>1. to_pold \in Seq(ForPold) /\ to_pold \o <<>> = to_pold /\ <<>> \in Seq(ForPold)
  BY EmptySeq, ConcatEmptySeq DEF Typed, QueueTypes
<1>2. CASE pold = process
  <2>1. to_pold' = to_pold \o <<m>> /\ <<m>> \in Seq(ForPold) /\ pold # 0
    BY <1>2 DEF ReplyToPold
  <2> QED BY <1>2, <2>1
<1>3. CASE pold # process
  <2>1. to_pold' = to_pold \o <<>>
    BY <1>1, <1>3 DEF ReplyToPold
  <2> QED BY <1>1, <1>3, <2>1
<1> QED BY <1>2, <1>3

(* And SendToConnman sends to the process of ConnMan meant, or to nobody.    *)
LEMMA SendSends ==
  ASSUME Typed, NEW process, NEW s \in Seq(ForConnman), SendToConnman(process, s)
  PROVE  \E r : /\ to_connman' = to_connman \o r /\ r \in Seq(ForConnman)
                /\ r = IF connman = process THEN s ELSE <<>>
<1>1. to_connman \in Seq(ForConnman) /\ to_connman \o <<>> = to_connman /\ <<>> \in Seq(ForConnman)
  BY EmptySeq, ConcatEmptySeq DEF Typed, QueueTypes
<1> QED BY <1>1 DEF SendToConnman
-----------------------------------------------------------------------------
(* What creates, drops and completes a session.                              *)
SessionsOK == SessionTypes /\ Requests

(* A new session waits for its policy, which is asked for at once if the     *)
(* agent is registered.                                                      *)
LEMMA CreateKeeps ==
  ASSUME Typed, NEW o \in Owner, NEW rest \in Seq(ForConnman), connman # 0, Create(o, rest),
         o = Self => caller' \in [process : Nat \ {0}, number : Nat], o # Self => caller' = caller
  PROVE  /\ SessionsOK'
         /\ \E n \in Nat \ {0}, m \in Calls, made \in Seq(Calls) :
              /\ m.type = "GetPolicyConfig" /\ m.owner = o /\ m.number = n /\ m.value = connman
              /\ made = IF agent_registered THEN <<m>> ELSE <<>>
              /\ CallPold(rest, made)
              /\ session[o] = "none" /\ session' = [session EXCEPT ![o] = "creating"] /\ silent' = silent
              /\ session_hash' = [session_hash EXCEPT ![o] =
                   policy_config(~agent_registered, IF agent_registered THEN n ELSE 0)]
<1>1. /\ session[o] = "none" /\ session' = [session EXCEPT ![o] = "creating"] /\ silent' = silent
      /\ created' = [created EXCEPT ![o] = created[o] + 1]
      /\ session_hash' = [session_hash EXCEPT ![o] =
           policy_config(~agent_registered, IF agent_registered THEN created'[o] ELSE 0)]
      /\ CallPold(rest, IF agent_registered THEN <<GetPolicyConfig(o)>> ELSE <<>>)
  BY DEF Create
<1>2. SessionTypes /\ Requests /\ PluginTypes /\ connman \in Process
  BY DEF Typed, LifeTypes, Process
<1>3. created'[o] \in Nat \ {0} /\ created' \in [Owner -> Nat] /\ agent_registered \in BOOLEAN
  BY <1>1, <1>2 DEF SessionTypes, PluginTypes
<1>4. policy_config(~agent_registered, IF agent_registered THEN created'[o] ELSE 0) \in PolicyConfig
  BY <1>3 DEF policy_config, PolicyConfig
<1>5. SessionTypes'
  <2>1. session' \in [Owner -> {"none", "creating", "created"}]
    BY <1>1, <1>2 DEF SessionTypes
  <2>2. session_hash' \in [Owner -> PolicyConfig \cup {NULL}]
    BY <1>1, <1>2, <1>4 DEF SessionTypes
  <2>3. \A x \in Owner : session_hash'[x] = NULL <=> session'[x] = "none"
    BY <1>1, <1>2, <1>4, NullApart DEF SessionTypes
  <2>4. caller' \in [process : Nat, number : Nat] /\ silent' \subseteq App
    BY <1>1, <1>2 DEF SessionTypes
  <2>5. session'[Self] # "none" => caller'.process # 0
    <3>1. CASE o = Self
      BY <3>1
    <3>2. CASE o # Self
      BY <1>1, <1>2, <3>2 DEF SessionTypes, Owner
    <3> QED BY <3>1, <3>2
  <2> QED BY <1>3, <2>1, <2>2, <2>3, <2>4, <2>5 DEF SessionTypes
<1>6. Requests'
  <2> SUFFICES ASSUME NEW x \in Owner, session_hash'[x] # NULL
               PROVE  /\ session_hash'[x].pending # 0 \/ session_hash'[x].cbd => session'[x] = "creating"
                      /\ session_hash'[x].cbd => created'[x] # 0
    BY DEF Requests
  <2>1. CASE x = o
    BY <1>1, <1>2, <1>3, <2>1 DEF SessionTypes
  <2>2. CASE x # o
    BY <1>1, <1>2, <2>2 DEF SessionTypes, Requests
  <2> QED BY <2>1, <2>2
<1>7. GetPolicyConfig(o) \in Question /\ GetPolicyConfig(o).value = connman
      /\ GetPolicyConfig(o).type = "GetPolicyConfig" /\ GetPolicyConfig(o).number = created'[o]
      /\ GetPolicyConfig(o).owner = o
  BY <1>2, <1>3 DEF GetPolicyConfig, Message, Question
<1>8. PICK n, m : n = created'[o] /\ m = GetPolicyConfig(o)
  OBVIOUS
<1>9. PICK made : made = IF agent_registered THEN <<m>> ELSE <<>>
  OBVIOUS
<1>10. made \in Seq(Calls) /\ m \in Calls
  <2>1. m \in Calls
    BY <1>7, <1>8 DEF Calls
  <2>2. <<>> \in Seq(Calls) /\ <<m>> \in Seq(Calls)
    BY <2>1
  <2>3. CASE agent_registered
    BY <1>9, <2>1, <2>2, <2>3
  <2>4. CASE ~agent_registered
    BY <1>9, <2>1, <2>2, <2>4
  <2> QED BY <2>3, <2>4
<1>11. CallPold(rest, made)
  BY <1>1, <1>8, <1>9
<1> QED BY <1>1, <1>3, <1>5, <1>6, <1>7, <1>8, <1>9, <1>10, <1>11 DEF SessionsOK

(* A session destroyed leaves nothing behind.                                *)
LEMMA DestroyedKeeps ==
  ASSUME Typed, NEW o \in Owner, Destroyed(o)
  PROVE  /\ SessionsOK' /\ session_hash'[o] = NULL /\ session'[o] = "none"
         /\ \A x \in Owner \ {o} : session'[x] = session[x] /\ session_hash'[x] = session_hash[x] /\ (x \in silent' <=> x \in silent)
         /\ created' = created /\ caller' = caller
<1>1. SessionTypes /\ Requests
  BY DEF Typed
<1>2. SessionTypes'
  BY <1>1, NullApart DEF SessionTypes, Destroyed, Owner
<1>3. Requests'
  BY <1>1 DEF SessionTypes, Requests, Destroyed
<1> QED BY <1>1, <1>2, <1>3 DEF SessionsOK, SessionTypes, Destroyed

(* A request that ends completes the session or drops it, and pold, if it    *)
(* made the session, is answered.                                            *)
LEMMA FinishKeeps ==
  ASSUME Typed, NEW o \in Owner, session_hash[o] # NULL, NEW config \in Config \cup {NULL}, Finish(o, config)
  PROVE  /\ SessionsOK' /\ caller' = caller /\ created' = created
         /\ IF config = NULL THEN session_hash'[o] = NULL /\ session'[o] = "none"
            ELSE /\ session'[o] = "created"
                 /\ session_hash'[o] = [policy_config(FALSE, 0) EXCEPT !.config = config]
         /\ \A x \in Owner \ {o} : session'[x] = session[x] /\ session_hash'[x] = session_hash[x] /\ (x \in silent' <=> x \in silent)
         /\ \E t : /\ to_pold' = to_pold \o t /\ t \in Seq(ForPold)
                   /\ pold = 0 => to_pold' = to_pold
                   /\ IF o = Self /\ pold = caller.process
                      THEN t = <<Message("Session", Self, caller.number, IF config = NULL THEN NULL ELSE connman)>>
                      ELSE t = <<>>
<1>1. SessionTypes /\ Requests
  BY DEF Typed
<1>2. /\ SessionsOK' /\ caller' = caller /\ created' = created
      /\ IF config = NULL THEN session_hash'[o] = NULL /\ session'[o] = "none"
         ELSE /\ session'[o] = "created"
              /\ session_hash'[o] = [policy_config(FALSE, 0) EXCEPT !.config = config]
      /\ \A x \in Owner \ {o} : session'[x] = session[x] /\ session_hash'[x] = session_hash[x] /\ (x \in silent' <=> x \in silent)
  <2>1. CASE config = NULL
    <3>1. Destroyed(o)
      BY <2>1 DEF Finish
    <3> QED BY <2>1, <3>1, DestroyedKeeps
  <2>2. CASE config # NULL
    <3>1. /\ session' = [session EXCEPT ![o] = "created"]
          /\ session_hash' = [session_hash EXCEPT ![o] = [policy_config(FALSE, 0) EXCEPT !.config = config]]
          /\ created' = created /\ caller' = caller /\ silent' = silent
      BY <2>2 DEF Finish
    <3>2. PICK c \in PolicyConfig :
            c = [policy_config(FALSE, 0) EXCEPT !.config = config] /\ ~c.cbd /\ c.pending = 0
      <4>1. PICK r : r = policy_config(FALSE, 0)
        OBVIOUS
      <4>2. r \in PolicyConfig /\ ~r.cbd /\ r.pending = 0
        BY <4>1 DEF policy_config, PolicyConfig
      <4>3. [r EXCEPT !.config = config] \in PolicyConfig
        BY <4>2 DEF PolicyConfig
      <4>4. PICK c : c = [r EXCEPT !.config = config]
        OBVIOUS
      <4>5. c.cbd = r.cbd /\ c.pending = r.pending
        BY <4>2, <4>4 DEF PolicyConfig
      <4> QED BY <4>1, <4>2, <4>3, <4>4, <4>5
    <3>3. SessionTypes'
      BY <1>1, <3>1, <3>2, NullApart DEF SessionTypes, Owner
    <3>4. Requests'
      BY <1>1, <3>1, <3>2 DEF SessionTypes, Requests
    <3> QED BY <1>1, <2>2, <3>1, <3>2, <3>3, <3>4 DEF SessionsOK, SessionTypes
  <2> QED BY <2>1, <2>2
<1>3. to_pold \in Seq(ForPold) /\ to_pold \o <<>> = to_pold /\ <<>> \in Seq(ForPold)
  BY EmptySeq, ConcatEmptySeq DEF Typed, QueueTypes
<1>4. CASE o = Self
  <2>1. PICK m : m = Message("Session", Self, caller.number, IF config = NULL THEN NULL ELSE connman)
    OBVIOUS
  <2>2. m \in ForPold
    BY <1>1, <2>1 DEF Message, SessionMessage, ForPold, SessionTypes, Typed, LifeTypes
  <2>3. PICK p : p = caller.process
    OBVIOUS
  <2>4. p # 0 /\ ReplyToPold(p, <<m>>)
    BY <1>1, <1>4, <2>1, <2>3 DEF SessionTypes, Finish, Owner
  <2>5. Replied(p, m)
    BY ONLY Typed, <2>2, <2>4, ReplySends
  <2> QED BY <1>2, <1>4, <2>1, <2>3, <2>5 DEF Replied
<1>5. CASE o # Self
  <2>1. to_pold' = to_pold \o <<>> /\ to_pold' = to_pold
    BY <1>3, <1>5 DEF Finish
  <2> QED BY <1>2, <1>3, <1>5, <2>1
<1> QED BY <1>4, <1>5
-----------------------------------------------------------------------------
(* What a step does to the queues: d and e messages are taken from them, s   *)
(* and t sent.                                                               *)
Step(d, s, e, t) ==
  /\ Moved(to_connman, to_connman', d, s) /\ s \in Seq(ForConnman)
  /\ Moved(to_pold, to_pold', e, t) /\ t \in Seq(ForPold)

(* What the bus and the plugin send for requests.                            *)
Refusals(s) == \A i \in DOMAIN s : s[i] \in PolicyMessage /\ s[i].value = NULL
Questions(t) == \A i \in DOMAIN t : t[i] \in Question

(* The queues are sequences of messages.                                     *)
LEMMA Queues ==
  ASSUME Typed
  PROVE  /\ to_connman \in Seq(ForConnman) /\ to_pold \in Seq(ForPold)
         /\ DOMAIN to_connman = 1 .. Len(to_connman) /\ Len(to_connman) \in Nat
         /\ DOMAIN to_pold = 1 .. Len(to_pold) /\ Len(to_pold) \in Nat
         /\ \A i \in DOMAIN to_connman : to_connman[i] \in ForConnman
         /\ \A i \in DOMAIN to_pold : to_pold[i] \in ForPold
         /\ to_connman = <<>> <=> Len(to_connman) = 0
         /\ to_pold = <<>> <=> Len(to_pold) = 0
         /\ to_connman \o <<>> = to_connman /\ to_pold \o <<>> = to_pold
         /\ \A S : <<>> \in Seq(S)
<1>1. to_connman \in Seq(ForConnman) /\ to_pold \in Seq(ForPold)
  BY DEF Typed, QueueTypes
<1>2. \A S : \A q \in Seq(S) : /\ DOMAIN q = 1 .. Len(q) /\ Len(q) \in Nat /\ (q = <<>> <=> Len(q) = 0)
                               /\ q \o <<>> = q /\ \A i \in DOMAIN q : q[i] \in S
  BY LenProperties, ElementOfSeq, EmptySeq, ConcatEmptySeq
<1> QED BY <1>1, <1>2, EmptySeq

(* A step that only sends.                                                   *)
LEMMA Sends ==
  ASSUME Typed, NEW s \in Seq(ForConnman), to_connman' = to_connman \o s,
         NEW t \in Seq(ForPold), to_pold' = to_pold \o t
  PROVE  Step(0, s, 0, t) /\ QueueTypes'
<1>1. to_connman \in Seq(ForConnman) /\ to_pold \in Seq(ForPold)
  BY DEF Typed, QueueTypes
<1>2. PICK q, p, q1, p1 : q = to_connman /\ p = to_pold /\ q1 = to_connman' /\ p1 = to_pold'
  OBVIOUS
<1>3. q1 \in Seq(ForConnman) /\ Moved(q, q1, 0, s)
  BY <1>1, <1>2, Added
<1>4. p1 \in Seq(ForPold) /\ Moved(p, p1, 0, t)
  BY <1>1, <1>2, Added
<1> QED BY <1>2, <1>3, <1>4 DEF Step, QueueTypes

(* A step of ConnMan that handles a message.                                 *)
LEMMA TakesAtConnman ==
  ASSUME Typed, to_connman # <<>>, NEW s \in Seq(ForConnman), to_connman' = Tail(to_connman) \o s,
         NEW t \in Seq(ForPold), to_pold' = to_pold \o t
  PROVE  Step(1, s, 0, t) /\ QueueTypes' /\ to_connman[1] = Head(to_connman) /\ connman # 0
<1>1. to_connman \in Seq(ForConnman) /\ to_pold \in Seq(ForPold)
  BY DEF Typed, QueueTypes
<1>2. PICK q, p, q1, p1 : q = to_connman /\ p = to_pold /\ q1 = to_connman' /\ p1 = to_pold'
  OBVIOUS
<1>3. q1 \in Seq(ForConnman) /\ Moved(q, q1, 1, s) /\ q[1] = Head(q)
  BY <1>1, <1>2, Dropped
<1>4. p1 \in Seq(ForPold) /\ Moved(p, p1, 0, t)
  BY <1>1, <1>2, Added
<1>5. connman # 0
  BY DEF Typed, ConnmanOff
<1> QED BY <1>2, <1>3, <1>4, <1>5 DEF Step, QueueTypes

(* A step of pold that handles a message.                                    *)
LEMMA TakesAtPold ==
  ASSUME Typed, to_pold # <<>>, NEW s \in Seq(ForConnman), to_connman' = to_connman \o s,
         NEW t \in Seq(ForPold), to_pold' = Tail(to_pold) \o t
  PROVE  Step(0, s, 1, t) /\ QueueTypes' /\ to_pold[1] = Head(to_pold) /\ pold # 0
<1>1. to_connman \in Seq(ForConnman) /\ to_pold \in Seq(ForPold)
  BY DEF Typed, QueueTypes
<1>2. PICK q, p, q1, p1 : q = to_connman /\ p = to_pold /\ q1 = to_connman' /\ p1 = to_pold'
  OBVIOUS
<1>3. q1 \in Seq(ForConnman) /\ Moved(q, q1, 0, s)
  BY <1>1, <1>2, Added
<1>4. p1 \in Seq(ForPold) /\ Moved(p, p1, 1, t) /\ p[1] = Head(p)
  BY <1>1, <1>2, Dropped
<1>5. pold # 0
  BY DEF Typed, PoldOff
<1> QED BY <1>2, <1>3, <1>4, <1>5 DEF Step, QueueTypes

(* A step of ConnMan keeps the types of what belongs to pold.                *)
LEMMA PluginStep ==
  ASSUME Typed, UNCHANGED <<started, starting, client, manager, pold, connman>>, connman # 0,
         PluginTypes', SessionsOK', FaultTypes', QueueTypes', pold = 0 => to_pold' = to_pold
  PROVE  Typed'
<1>1. UNCHANGED <<session_path, create_calls, calls, agents, apps, asked, policies, document>>
  BY DEF client, manager
<1>2. LifeTypes' /\ ClientTypes' /\ ManagerTypes'
  BY <1>1 DEF Typed, LifeTypes, ClientTypes, ManagerTypes, Starts
<1>3. PoldOff' /\ ConnmanOff'
  BY <1>1 DEF Typed, PoldOff, ConnmanOff
<1> QED BY <1>2, <1>3 DEF Typed, SessionsOK

(* A step of pold keeps the types of what belongs to ConnMan.                *)
LEMMA PoldStep ==
  ASSUME Typed, UNCHANGED <<lives, plugin, sessions>>, pold # 0, connman = 0 => to_connman' = to_connman,
         ClientTypes', ManagerTypes', FaultTypes', QueueTypes'
  PROVE  Typed'
<1>1. UNCHANGED <<pold, connman, started, starting, agent_registered, interface, register_call,
                  session_hash, session, created, caller, silent>>
  BY DEF lives, plugin, sessions
<1>2. LifeTypes' /\ PluginTypes' /\ SessionTypes' /\ Requests'
  BY <1>1 DEF Typed, LifeTypes, PluginTypes, SessionTypes, Requests, Starts
<1>3. PoldOff' /\ ConnmanOff'
  BY <1>1 DEF Typed, PoldOff, ConnmanOff
<1> QED BY <1>2, <1>3 DEF Typed

(* A request for a policy is sent, or refused by the bus.                    *)
LEMMA Asks ==
  ASSUME Typed, NEW rest \in Seq(ForConnman), NEW made \in Seq(Calls), Questions(made), CallPold(rest, made)
  PROVE  \E s \in Seq(ForConnman), t \in Seq(ForPold) :
           /\ to_connman' = rest \o s /\ to_pold' = to_pold \o t
           /\ Refusals(s) /\ Questions(t) /\ (pold = 0 => to_pold' = to_pold)
<1>1. PICK s, t :
           /\ to_connman' = rest \o s /\ s \in Seq(ForConnman)
           /\ to_pold' = to_pold \o t /\ t \in Seq(ForPold)
           /\ pold # 0 => s = <<>> /\ t = made
           /\ pold = 0 => /\ t = <<>> /\ Len(s) = Len(made)
                          /\ \A i \in DOMAIN s : i \in DOMAIN made /\ s[i] = NoAnswer(made[i])
  BY CallSends
<1>2. CASE pold # 0
  <2>1. Refusals(s) /\ Questions(t)
    BY <1>1, <1>2, NoElements DEF Refusals, Questions
  <2> QED BY <1>1, <1>2, <2>1
<1>3. CASE pold = 0
  <2>1. Questions(t) /\ to_pold' = to_pold
    BY <1>1, <1>3, NoElements, Queues DEF Questions
  <2>2. ASSUME NEW i \in DOMAIN s PROVE s[i] \in PolicyMessage /\ s[i].value = NULL
    <3>1. i \in DOMAIN made /\ s[i] = NoAnswer(made[i]) /\ made[i] \in Question
      BY <1>1, <1>3 DEF Questions
    <3> QED BY <3>1 DEF NoAnswer, Message, Question, PolicyMessage, Missing
  <2> QED BY <1>1, <1>3, <2>1, <2>2 DEF Refusals
<1> QED BY <1>2, <1>3
-----------------------------------------------------------------------------
(* What a step of ConnMan leaves alone, and what becomes of one session.     *)
Ours == UNCHANGED <<started, starting, client, manager>>
NewSession(o) ==
  /\ session[o] = "none" /\ session' = [session EXCEPT ![o] = "creating"] /\ silent' = silent
  /\ \E n \in Nat \ {0} :
       session_hash' = [session_hash EXCEPT ![o] =
         policy_config(~agent_registered, IF agent_registered THEN n ELSE 0)]
SameElsewhere(o) ==
  \A x \in Owner \ {o} : session'[x] = session[x] /\ session_hash'[x] = session_hash[x] /\ (x \in silent' <=> x \in silent)

(* Create makes a session and asks for its policy.                           *)
LEMMA MakesSession ==
  ASSUME Typed, NEW o \in Owner, NEW rest \in Seq(ForConnman), connman # 0, Create(o, rest),
         o = Self => caller' \in [process : Nat \ {0}, number : Nat], o # Self => caller' = caller
  PROVE  /\ SessionsOK' /\ NewSession(o)
         /\ \E s \in Seq(ForConnman), t \in Seq(ForPold) :
              /\ to_connman' = rest \o s /\ to_pold' = to_pold \o t
              /\ Refusals(s) /\ Questions(t) /\ (pold = 0 => to_pold' = to_pold)
<1>1. PICK n \in Nat \ {0}, m \in Calls, made \in Seq(Calls) :
              /\ SessionsOK'
              /\ m.type = "GetPolicyConfig" /\ m.owner = o /\ m.number = n /\ m.value = connman
              /\ made = IF agent_registered THEN <<m>> ELSE <<>>
              /\ CallPold(rest, made)
              /\ session[o] = "none" /\ session' = [session EXCEPT ![o] = "creating"] /\ silent' = silent
              /\ session_hash' = [session_hash EXCEPT ![o] =
                   policy_config(~agent_registered, IF agent_registered THEN n ELSE 0)]
  BY CreateKeeps
<1>2. NewSession(o)
  BY <1>1 DEF NewSession
<1>3. Questions(made)
  <2>1. m \in Question
    BY <1>1 DEF Calls, Agents
  <2>2. CASE agent_registered
    BY <1>1, <2>1, <2>2 DEF Questions
  <2>3. CASE ~agent_registered
    BY <1>1, <2>3, NoElements DEF Questions
  <2> QED BY <2>2, <2>3
<1>4. \E s \in Seq(ForConnman), t \in Seq(ForPold) :
           /\ to_connman' = rest \o s /\ to_pold' = to_pold \o t
           /\ Refusals(s) /\ Questions(t) /\ (pold = 0 => to_pold' = to_pold)
  BY <1>1, <1>3, Asks
<1> QED BY <1>1, <1>2, <1>4

(* An application's session.                                                 *)
LEMMA SessionMade ==
  ASSUME Typed, NEW o \in App, policy_pold_create(o), Ours
  PROVE  Typed' /\ NewSession(o) /\ \E s, t : Step(0, s, 0, t) /\ Refusals(s) /\ Questions(t)
<1>1. /\ connman # 0 /\ Create(o, to_connman) /\ o \in Owner /\ o # Self
      /\ UNCHANGED <<caller, pold, connman, plugin, faults>>
  BY PluginAssumption DEF policy_pold_create, Owner
<1>2. to_connman \in Seq(ForConnman)
  BY Queues
<1>3. PICK q : q = to_connman
  OBVIOUS
<1>4. /\ SessionsOK' /\ NewSession(o)
      /\ \E s \in Seq(ForConnman), t \in Seq(ForPold) :
              /\ to_connman' = q \o s /\ to_pold' = to_pold \o t
              /\ Refusals(s) /\ Questions(t) /\ (pold = 0 => to_pold' = to_pold)
  BY <1>1, <1>2, <1>3, MakesSession
<1>5. PICK s \in Seq(ForConnman), t \in Seq(ForPold) :
              /\ to_connman' = q \o s /\ to_pold' = to_pold \o t
              /\ Refusals(s) /\ Questions(t) /\ (pold = 0 => to_pold' = to_pold)
  BY <1>4
<1>6. Step(0, s, 0, t) /\ QueueTypes'
  BY <1>3, <1>5, Sends
<1>7. PluginTypes' /\ FaultTypes'
  BY <1>1 DEF Typed, PluginTypes, FaultTypes, plugin
<1>8. Typed'
  BY <1>1, <1>4, <1>5, <1>6, <1>7, PluginStep DEF Ours
<1> QED BY <1>4, <1>5, <1>6, <1>8

(* pold's own session, made or refused.                                      *)
LEMMA SessionForPold ==
  ASSUME Typed, CreateSession, Ours
  PROVE  /\ Typed' /\ SameElsewhere(Self)
         /\ to_connman[1] \in CreateMessage /\ to_connman # <<>>
         /\ UNCHANGED <<pold, connman, plugin, faults>>
         /\ \E s, t :
              /\ Step(1, s, 0, t)
              /\ \/ /\ NewSession(Self) /\ Refusals(s) /\ Questions(t)
                    /\ caller' = [process |-> to_connman[1].value, number |-> to_connman[1].number]
                 \/ /\ session[Self] # "none" /\ UNCHANGED sessions /\ s = <<>>
                    /\ t = IF pold = to_connman[1].value
                           THEN <<Message("Session", Self, to_connman[1].number, NULL)>> ELSE <<>>
<1>1. /\ to_connman # <<>> /\ Head(to_connman).type = "CreateSession"
      /\ UNCHANGED <<pold, connman, plugin, faults>>
  BY DEF CreateSession, Receive
<1>2. PICK m : m = Head(to_connman)
  OBVIOUS
<1>3. PICK q : q = Tail(to_connman)
  OBVIOUS
<1>4. /\ to_connman \in Seq(ForConnman) /\ q \in Seq(ForConnman) /\ m \in ForConnman
      /\ to_connman[1] = m /\ connman # 0 /\ q \o <<>> = q
  BY <1>1, <1>2, <1>3, Queues, HeadTailProperties, ConcatEmptySeq DEF Typed, ConnmanOff
<1>5. m \in CreateMessage
  BY <1>1, <1>2, <1>4 DEF ForConnman, Plain, Registered, PolicyMessage, UpdateMessage
<1>6. m.value \in Process /\ m.value # 0 /\ m.number \in Nat /\ m.value \in Nat
  BY <1>5, NullApart DEF CreateMessage, Process
<1>7. PluginTypes' /\ FaultTypes'
  BY <1>1 DEF Typed, PluginTypes, FaultTypes, plugin
<1>8. SessionTypes /\ Requests /\ Self \in Owner
  BY DEF Typed, Owner
<1>9. CASE Create(Self, q) /\ caller' = [process |-> m.value, number |-> m.number]
  <2>1. /\ SessionsOK' /\ NewSession(Self)
        /\ \E s \in Seq(ForConnman), t \in Seq(ForPold) :
                /\ to_connman' = q \o s /\ to_pold' = to_pold \o t
                /\ Refusals(s) /\ Questions(t) /\ (pold = 0 => to_pold' = to_pold)
    <3>1. caller' \in [process : Nat \ {0}, number : Nat]
      BY <1>6, <1>9
    <3>2. PICK o \in Owner : o = Self
      BY <1>8
    <3>3. Create(o, q)
      BY <1>9, <3>2
    <3> QED BY ONLY Typed, <1>4, <3>1, <3>2, <3>3, MakesSession
  <2>2. PICK s \in Seq(ForConnman), t \in Seq(ForPold) :
                /\ to_connman' = q \o s /\ to_pold' = to_pold \o t
                /\ Refusals(s) /\ Questions(t) /\ (pold = 0 => to_pold' = to_pold)
    BY <2>1
  <2>3. Step(1, s, 0, t) /\ QueueTypes'
    BY <1>1, <1>3, <2>2, TakesAtConnman
  <2>4. Typed'
    BY <1>1, <1>4, <1>7, <2>1, <2>2, <2>3, PluginStep DEF Ours
  <2>5. SameElsewhere(Self)
    BY <1>8, <2>1 DEF SameElsewhere, NewSession, SessionTypes
  <2> QED BY <1>1, <1>2, <1>4, <1>5, <1>9, <2>1, <2>2, <2>3, <2>4, <2>5
<1>10. CASE /\ session[Self] # "none" /\ to_connman' = q
            /\ ReplyToPold(m.value, <<Message("Session", Self, m.number, NULL)>>)
            /\ UNCHANGED sessions
  <2>1. PICK r : r = Message("Session", Self, m.number, NULL)
    OBVIOUS
  <2>2. r \in ForPold
    BY <1>6, <2>1 DEF Message, ForPold, SessionMessage
  <2>3. PICK v : v = m.value
    OBVIOUS
  <2>4. v # 0 /\ ReplyToPold(v, <<r>>)
    BY <1>6, <1>10, <2>1, <2>3
  <2>5. Replied(v, r)
    BY ONLY Typed, <2>2, <2>4, ReplySends
  <2>6. PICK t : /\ to_pold' = to_pold \o t /\ t \in Seq(ForPold)
                 /\ t = IF pold = v THEN <<r>> ELSE <<>>
                 /\ pold = 0 => t = <<>> /\ to_pold' = to_pold
    BY <2>5 DEF Replied
  <2>7. Step(1, <<>>, 0, t) /\ QueueTypes'
    <3>1. to_connman' = Tail(to_connman) \o <<>> /\ <<>> \in Seq(ForConnman)
      BY <1>3, <1>4, <1>10, EmptySeq
    <3> QED BY <1>1, <2>6, <3>1, TakesAtConnman
  <2>8. SessionsOK'
    BY <1>8, <1>10 DEF SessionsOK, SessionTypes, Requests, sessions
  <2>9. Typed'
    BY <1>1, <1>4, <1>7, <2>6, <2>7, <2>8, PluginStep DEF Ours
  <2>10. SameElsewhere(Self)
    BY <1>10 DEF SameElsewhere, sessions
  <2> QED BY <1>1, <1>4, <1>5, <1>10, <2>1, <2>3, <2>6, <2>7, <2>9, <2>10
<1>11. \/ Create(Self, q) /\ caller' = [process |-> m.value, number |-> m.number]
       \/ /\ session[Self] # "none" /\ to_connman' = q
          /\ ReplyToPold(m.value, <<Message("Session", Self, m.number, NULL)>>)
          /\ UNCHANGED sessions
  BY <1>2, <1>3 DEF CreateSession
<1> QED BY <1>9, <1>10, <1>11
-----------------------------------------------------------------------------
(* A message handled and answered.                                           *)
LEMMA Handles ==
  ASSUME Typed, to_connman # <<>>, to_connman' = Tail(to_connman), NEW t \in Seq(ForPold), to_pold' = to_pold \o t
  PROVE  Step(1, <<>>, 0, t) /\ QueueTypes' /\ to_connman[1] = Head(to_connman) /\ connman # 0
         /\ to_connman[1] \in ForConnman
<1>1. Tail(to_connman) \in Seq(ForConnman) /\ <<>> \in Seq(ForConnman)
  BY HeadTailProperties, EmptySeq DEF Typed, QueueTypes
<1>2. to_connman' = Tail(to_connman) \o <<>>
  BY <1>1, ConcatEmptySeq
<1>3. Step(1, <<>>, 0, t) /\ QueueTypes' /\ to_connman[1] = Head(to_connman) /\ connman # 0
  BY <1>1, <1>2, TakesAtConnman
<1> QED BY <1>3, HeadTailProperties DEF Typed, QueueTypes

(* A message handled without an answer.                                      *)
LEMMA HandlesQuietly ==
  ASSUME Typed, to_connman # <<>>, to_connman' = Tail(to_connman), to_pold' = to_pold
  PROVE  Step(1, <<>>, 0, <<>>) /\ QueueTypes' /\ to_connman[1] = Head(to_connman) /\ connman # 0
         /\ to_connman[1] \in ForConnman
<1>1. <<>> \in Seq(ForPold) /\ to_pold' = to_pold \o <<>>
  BY Queues
<1> QED BY <1>1, Handles

(* A message handled by pold and answered.                                   *)
LEMMA TakenByPold ==
  ASSUME Typed, to_pold # <<>>, to_pold' = Tail(to_pold), NEW s \in Seq(ForConnman), to_connman' = to_connman \o s
  PROVE  Step(0, s, 1, <<>>) /\ QueueTypes' /\ to_pold[1] = Head(to_pold) /\ pold # 0 /\ to_pold[1] \in ForPold
<1>1. Tail(to_pold) \in Seq(ForPold) /\ <<>> \in Seq(ForPold)
  BY HeadTailProperties, EmptySeq DEF Typed, QueueTypes
<1>2. to_pold' = Tail(to_pold) \o <<>>
  BY <1>1, ConcatEmptySeq
<1>3. Step(0, s, 1, <<>>) /\ QueueTypes' /\ to_pold[1] = Head(to_pold) /\ pold # 0
  BY <1>1, <1>2, TakesAtPold
<1> QED BY <1>3, HeadTailProperties DEF Typed, QueueTypes

(* A message handled by pold without an answer.                              *)
LEMMA TakenQuietly ==
  ASSUME Typed, to_pold # <<>>, to_pold' = Tail(to_pold), to_connman' = to_connman
  PROVE  Step(0, <<>>, 1, <<>>) /\ QueueTypes' /\ to_pold[1] = Head(to_pold) /\ pold # 0 /\ to_pold[1] \in ForPold
<1>1. <<>> \in Seq(ForConnman) /\ to_connman' = to_connman \o <<>>
  BY Queues
<1> QED BY <1>1, TakenByPold

(* Only pold is sent something.                                              *)
LEMMA SendsToPold ==
  ASSUME Typed, to_connman' = to_connman, NEW t \in Seq(ForPold), to_pold' = to_pold \o t
  PROVE  Step(0, <<>>, 0, t) /\ QueueTypes'
<1>1. <<>> \in Seq(ForConnman) /\ to_connman' = to_connman \o <<>>
  BY Queues
<1> QED BY <1>1, Sends

(* Only ConnMan is sent something.                                           *)
LEMMA SendsToConnman ==
  ASSUME Typed, to_pold' = to_pold, NEW s \in Seq(ForConnman), to_connman' = to_connman \o s
  PROVE  Step(0, s, 0, <<>>) /\ QueueTypes'
<1>1. <<>> \in Seq(ForPold) /\ to_pold' = to_pold \o <<>>
  BY Queues
<1> QED BY <1>1, Sends

(* Nobody is sent anything.                                                  *)
LEMMA SendsNothing ==
  ASSUME Typed, to_pold' = to_pold, to_connman' = to_connman
  PROVE  Step(0, <<>>, 0, <<>>) /\ QueueTypes'
<1>1. <<>> \in Seq(ForPold) /\ to_pold' = to_pold \o <<>>
  BY Queues
<1> QED BY <1>1, SendsToPold

(* CallPold without a call takes the message and sends nothing.              *)
LEMMA CallsNobody ==
  ASSUME Typed, NEW rest \in Seq(ForConnman), CallPold(rest, <<>>)
  PROVE  to_connman' = rest /\ to_pold' = to_pold
<1>1. to_pold \o <<>> = to_pold /\ rest \o <<>> = rest
  BY Queues, ConcatEmptySeq
<1>2. [i \in DOMAIN <<>> |-> NoAnswer(<<>>[i])] = <<>>
  OBVIOUS
<1> QED BY <1>1, <1>2 DEF CallPold

(* The messages behind the one handled.                                      *)
LEMMA Rest ==
  ASSUME Typed, to_connman # <<>>
  PROVE  /\ Tail(to_connman) \in Seq(ForConnman) /\ Head(to_connman) \in ForConnman
         /\ to_connman[1] = Head(to_connman) /\ connman # 0
BY HeadTailProperties DEF Typed, QueueTypes, ConnmanOff

(* pold has left the bus: its session is gone.                               *)
LEMMA OwnerGone ==
  ASSUME Typed, OwnerLeft, Ours
  PROVE  /\ Typed' /\ Step(1, <<>>, 0, <<>>) /\ to_connman[1].type = "OwnerLeft"
         /\ session_hash'[Self] = NULL /\ session'[Self] = "none" /\ SameElsewhere(Self)
         /\ UNCHANGED <<pold, connman, plugin, faults, caller, to_pold>>
<1>1. /\ to_connman # <<>> /\ Head(to_connman).type = "OwnerLeft" /\ to_connman' = Tail(to_connman)
      /\ Destroyed(Self) /\ UNCHANGED <<pold, connman, plugin, to_pold, faults>>
  BY DEF OwnerLeft, Receive
<1>2. Step(1, <<>>, 0, <<>>) /\ QueueTypes' /\ to_connman[1] = Head(to_connman) /\ connman # 0
  BY <1>1, HandlesQuietly
<1>3. Self \in Owner
  BY DEF Owner
<1>4. /\ SessionsOK' /\ session_hash'[Self] = NULL /\ session'[Self] = "none"
      /\ \A x \in Owner \ {Self} : session'[x] = session[x] /\ session_hash'[x] = session_hash[x] /\ (x \in silent' <=> x \in silent)
      /\ created' = created /\ caller' = caller
  BY <1>1, <1>3, DestroyedKeeps
<1>5. PluginTypes' /\ FaultTypes'
  BY <1>1 DEF Typed, PluginTypes, FaultTypes, plugin
<1>6. Typed'
  BY <1>1, <1>2, <1>4, <1>5, PluginStep DEF Ours
<1> QED BY <1>1, <1>2, <1>4, <1>6 DEF SameElsewhere

(* An application's session goes.                                            *)
LEMMA SessionGone ==
  ASSUME Typed, NEW o \in Owner, policy_pold_destroy(o), Ours
  PROVE  /\ Typed' /\ Step(0, <<>>, 0, <<>>) /\ o # Self
         /\ session_hash'[o] = NULL /\ session'[o] = "none" /\ SameElsewhere(o)
         /\ UNCHANGED <<pold, connman, plugin, faults, caller, to_pold, to_connman>>
<1>1. /\ o \in App /\ session[o] # "none" /\ Destroyed(o)
      /\ UNCHANGED <<pold, connman, plugin, to_connman, to_pold, faults>>
  BY DEF policy_pold_destroy
<1>2. Step(0, <<>>, 0, <<>>) /\ QueueTypes'
  BY <1>1, SendsNothing
<1>3. /\ SessionsOK' /\ session_hash'[o] = NULL /\ session'[o] = "none"
      /\ \A x \in Owner \ {o} : session'[x] = session[x] /\ session_hash'[x] = session_hash[x] /\ (x \in silent' <=> x \in silent)
      /\ created' = created /\ caller' = caller
  BY <1>1, DestroyedKeeps
<1>4. PluginTypes' /\ FaultTypes'
  BY <1>1 DEF Typed, PluginTypes, FaultTypes, plugin
<1>5. connman # 0
  BY <1>1 DEF Typed, ConnmanOff, SessionTypes
<1>6. Typed'
  BY <1>1, <1>2, <1>3, <1>4, <1>5, PluginStep DEF Ours
<1> QED BY <1>1, <1>2, <1>3, <1>6, PluginAssumption DEF SameElsewhere

(* ConnMan releases pold's session.                                          *)
LEMMA SessionReleased ==
  ASSUME Typed, ReleaseSession, Ours
  PROVE  /\ Typed' /\ session[Self] = "created"
         /\ session_hash'[Self] = NULL /\ session'[Self] = "none" /\ SameElsewhere(Self)
         /\ UNCHANGED <<pold, connman, plugin, faults, caller, to_connman>>
         /\ \E t : /\ Step(0, <<>>, 0, t)
                   /\ t = IF pold = caller.process THEN <<Message("Release", Self, 0, NULL)>> ELSE <<>>
<1>1. /\ session[Self] = "created" /\ Destroyed(Self) /\ Self \in Owner
      /\ ReplyToPold(caller.process, <<Message("Release", Self, 0, NULL)>>)
      /\ UNCHANGED <<pold, connman, plugin, to_connman, faults>>
  BY DEF ReleaseSession, Owner
<1>2. PICK m, p : m = Message("Release", Self, 0, NULL) /\ p = caller.process
  OBVIOUS
<1>3. m \in ForPold /\ p # 0 /\ ReplyToPold(p, <<m>>)
  BY <1>1, <1>2 DEF Message, ReleaseMessage, ForPold, Typed, SessionTypes
<1>4. Replied(p, m)
  BY ONLY Typed, <1>3, ReplySends
<1>5. PICK t : /\ to_pold' = to_pold \o t /\ t \in Seq(ForPold)
               /\ t = IF pold = p THEN <<m>> ELSE <<>>
               /\ pold = 0 => t = <<>> /\ to_pold' = to_pold
  BY <1>4 DEF Replied
<1>6. Step(0, <<>>, 0, t) /\ QueueTypes'
  BY <1>1, <1>5, SendsToPold
<1>7. /\ SessionsOK' /\ session_hash'[Self] = NULL /\ session'[Self] = "none"
      /\ \A x \in Owner \ {Self} : session'[x] = session[x] /\ session_hash'[x] = session_hash[x] /\ (x \in silent' <=> x \in silent)
      /\ created' = created /\ caller' = caller
  BY <1>1, DestroyedKeeps
<1>8. PluginTypes' /\ FaultTypes'
  BY <1>1 DEF Typed, PluginTypes, FaultTypes, plugin
<1>9. connman # 0
  BY <1>1 DEF Typed, ConnmanOff, SessionTypes
<1>10. Typed'
  BY <1>1, <1>5, <1>6, <1>7, <1>8, <1>9, PluginStep DEF Ours
<1> QED BY <1>1, <1>2, <1>5, <1>6, <1>7, <1>10 DEF SameElsewhere

(* What the end of a request does.                                           *)
Finished(o, config, t) ==
  /\ session_hash[o] # NULL /\ session_hash[o].pending # 0 /\ o \in Owner
  /\ IF config = NULL THEN session_hash'[o] = NULL /\ session'[o] = "none"
     ELSE /\ session'[o] = "created"
          /\ session_hash'[o] = [policy_config(FALSE, 0) EXCEPT !.config = config]
  /\ SameElsewhere(o)
  /\ t = IF o = Self /\ pold = caller.process
         THEN <<Message("Session", Self, caller.number, IF config = NULL THEN NULL ELSE connman)>>
         ELSE <<>>

(* What a reply without arguments does.                                      *)
Silenced(o) ==
  /\ o \in App /\ o \in silent' /\ SameElsewhere(o) /\ session' = session
  /\ session_hash[o] # NULL /\ session[o] = "creating"
  /\ session_hash'[o] # NULL /\ session_hash'[o].cbd = session_hash[o].cbd
  /\ session_hash'[o].config = session_hash[o].config /\ session_hash'[o].pending = 0

(* NeverAnswered does so, and keeps the types.                               *)
LEMMA SilencedKeeps ==
  ASSUME Typed, NEW o \in App, session_hash[o] # NULL, session_hash[o].pending # 0, NeverAnswered(o)
  PROVE  SessionsOK' /\ Silenced(o)
<1>1. SessionTypes /\ Requests /\ o \in Owner
  BY DEF Typed, Owner
<1>2. /\ session_hash' = [session_hash EXCEPT ![o].pending = 0] /\ silent' = silent \cup {o}
      /\ UNCHANGED <<session, created, caller>>
  BY DEF NeverAnswered
<1>3. PICK r, c : r = session_hash[o] /\ c = [r EXCEPT !.pending = 0]
  OBVIOUS
<1>4. r \in PolicyConfig
  BY <1>1, <1>3 DEF SessionTypes
<1>5. c \in PolicyConfig /\ c.pending = 0 /\ c.cbd = r.cbd /\ c.config = r.config
  BY <1>3, <1>4 DEF PolicyConfig
<1>6. session_hash' = [session_hash EXCEPT ![o] = c]
  BY <1>2, <1>3
<1>7. SessionTypes'
  <2>1. session_hash' \in [Owner -> PolicyConfig \cup {NULL}]
    BY <1>1, <1>5, <1>6 DEF SessionTypes
  <2>2. \A x \in Owner : session_hash'[x] = NULL <=> session_hash[x] = NULL
    BY <1>1, <1>5, <1>6, NullApart DEF SessionTypes
  <2> QED BY <1>1, <1>2, <2>1, <2>2 DEF SessionTypes
<1>8. Requests'
  BY <1>1, <1>2, <1>3, <1>5, <1>6 DEF SessionTypes, Requests
<1>9. session[o] = "creating"
  BY <1>1 DEF Requests
<1>10. session_hash'[o] = c /\ c # NULL
  BY <1>1, <1>3, <1>5, <1>6, NullApart DEF SessionTypes
<1>11. SameElsewhere(o)
  BY <1>1, <1>2, <1>6 DEF SameElsewhere, SessionTypes
<1> QED BY <1>1, <1>2, <1>3, <1>5, <1>7, <1>8, <1>9, <1>10, <1>11 DEF Silenced, SessionsOK

(* The answer to a request ends it, with the policy if it is accepted,       *)
(* unless it has no arguments or is awaited no more.                         *)
LEMMA PolicyAnswered ==
  ASSUME Typed, get_policy_cb, Ours
  PROVE  /\ Typed' /\ to_connman[1] \in PolicyMessage /\ to_connman # <<>>
         /\ UNCHANGED <<pold, connman, plugin, faults, caller>>
         /\ \E t : /\ Step(1, <<>>, 0, t)
                   /\ \/ Finished(to_connman[1].owner, Accepted(to_connman[1].value), t)
                      \/ t = <<>> /\ Silenced(to_connman[1].owner)
                      \/ t = <<>> /\ UNCHANGED sessions
<1>1. /\ to_connman # <<>> /\ Head(to_connman).type = "Policy" /\ to_connman' = Tail(to_connman)
      /\ UNCHANGED <<pold, connman, plugin, faults>>
  BY DEF get_policy_cb, Receive
<1>2. PICK m : m = Head(to_connman)
  OBVIOUS
<1>3. m \in ForConnman /\ m = to_connman[1] /\ connman # 0
  BY <1>1, <1>2, Rest
<1>4. m \in PolicyMessage
  BY <1>1, <1>2, <1>3 DEF ForConnman, Plain, Registered, CreateMessage, UpdateMessage
<1>5. PICK o, v, c : o = m.owner /\ v = m.value /\ c = Accepted(v)
  OBVIOUS
<1>6. /\ o \in Owner /\ v \in Config \cup {NULL} /\ c \in Config \cup {NULL} /\ m.number \in Nat \ {0}
      /\ Missing(v) => o \in App
  BY <1>4, <1>5 DEF PolicyMessage, Accepted, Owner
<1>7. PluginTypes' /\ FaultTypes'
  BY <1>1 DEF Typed, PluginTypes, FaultTypes, plugin
<1>8. CASE session_hash[o] # NULL /\ session_hash[o].pending = m.number /\ ~Missing(v)
  <2>1. Finish(o, c)
    BY <1>2, <1>5, <1>8 DEF get_policy_cb, Awaited
  <2>2. /\ SessionsOK' /\ caller' = caller /\ created' = created
        /\ IF c = NULL THEN session_hash'[o] = NULL /\ session'[o] = "none"
           ELSE /\ session'[o] = "created"
                /\ session_hash'[o] = [policy_config(FALSE, 0) EXCEPT !.config = c]
        /\ \A x \in Owner \ {o} : session'[x] = session[x] /\ session_hash'[x] = session_hash[x] /\ (x \in silent' <=> x \in silent)
        /\ \E t : /\ to_pold' = to_pold \o t /\ t \in Seq(ForPold)
                  /\ pold = 0 => to_pold' = to_pold
                  /\ IF o = Self /\ pold = caller.process
                     THEN t = <<Message("Session", Self, caller.number, IF c = NULL THEN NULL ELSE connman)>>
                     ELSE t = <<>>
    BY <1>6, <1>8, <2>1, FinishKeeps
  <2>3. PICK t : /\ to_pold' = to_pold \o t /\ t \in Seq(ForPold)
                 /\ pold = 0 => to_pold' = to_pold
                 /\ IF o = Self /\ pold = caller.process
                    THEN t = <<Message("Session", Self, caller.number, IF c = NULL THEN NULL ELSE connman)>>
                    ELSE t = <<>>
    BY <2>2
  <2>4. Step(1, <<>>, 0, t) /\ QueueTypes'
    BY <1>1, <2>3, Handles
  <2>5. Finished(o, c, t)
    BY <1>6, <1>8, <2>2, <2>3 DEF Finished, SameElsewhere
  <2>6. Typed'
    BY <1>1, <1>3, <1>7, <2>2, <2>3, <2>4, PluginStep DEF Ours
  <2> QED BY <1>1, <1>3, <1>4, <1>5, <2>2, <2>4, <2>5, <2>6
<1>9. CASE session_hash[o] # NULL /\ session_hash[o].pending = m.number /\ Missing(v)
  <2>1. NeverAnswered(o) /\ UNCHANGED <<caller, to_pold>> /\ o \in App
    BY <1>2, <1>5, <1>6, <1>9 DEF get_policy_cb, Awaited, NeverAnswered
  <2>2. SessionsOK' /\ Silenced(o)
    BY <1>6, <1>9, <2>1, SilencedKeeps
  <2>3. Step(1, <<>>, 0, <<>>) /\ QueueTypes'
    BY <1>1, <2>1, HandlesQuietly
  <2>4. Typed'
    BY <1>1, <1>3, <1>7, <2>1, <2>2, <2>3, PluginStep DEF Ours
  <2> QED BY <1>1, <1>3, <1>4, <1>5, <2>1, <2>2, <2>3, <2>4
<1>10. CASE ~(session_hash[o] # NULL /\ session_hash[o].pending = m.number)
  <2>1. UNCHANGED <<sessions, to_pold>>
    BY <1>2, <1>5, <1>10 DEF get_policy_cb, Awaited
  <2>2. Step(1, <<>>, 0, <<>>) /\ QueueTypes'
    BY <1>1, <2>1, HandlesQuietly
  <2>3. SessionsOK'
    BY <2>1 DEF Typed, SessionsOK, SessionTypes, Requests, sessions
  <2>4. Typed'
    BY <1>1, <1>3, <1>7, <2>1, <2>2, <2>3, PluginStep DEF Ours
  <2> QED BY <1>1, <1>3, <1>4, <2>1, <2>2, <2>4 DEF sessions
<1> QED BY <1>8, <1>9, <1>10

(* The timer of a request ends it with an error.                             *)
LEMMA PolicyLate ==
  ASSUME Typed, NEW o \in Owner, PolicyTimeout(o), Ours
  PROVE  /\ Typed' /\ to_connman = <<>> /\ UNCHANGED <<pold, connman, plugin, caller, to_connman>>
         /\ faults' = faults \cup {"timeout"}
         /\ \E t : Step(0, <<>>, 0, t) /\ Finished(o, NULL, t)
<1>1. /\ to_connman = <<>>
      /\ session_hash[o] # NULL /\ session_hash[o].pending # 0
      /\ Finish(o, NULL) /\ faults' = faults \cup {"timeout"}
      /\ UNCHANGED <<pold, connman, plugin, to_connman>>
  BY DEF PolicyTimeout
<1>2. PICK c : c = NULL
  OBVIOUS
<1>3. /\ SessionsOK' /\ caller' = caller /\ created' = created
      /\ IF c = NULL THEN session_hash'[o] = NULL /\ session'[o] = "none"
         ELSE /\ session'[o] = "created"
              /\ session_hash'[o] = [policy_config(FALSE, 0) EXCEPT !.config = c]
      /\ \A x \in Owner \ {o} : session'[x] = session[x] /\ session_hash'[x] = session_hash[x] /\ (x \in silent' <=> x \in silent)
      /\ \E t : /\ to_pold' = to_pold \o t /\ t \in Seq(ForPold)
                /\ pold = 0 => to_pold' = to_pold
                /\ IF o = Self /\ pold = caller.process
                   THEN t = <<Message("Session", Self, caller.number, IF c = NULL THEN NULL ELSE connman)>>
                   ELSE t = <<>>
  <2>1. c \in Config \cup {NULL} /\ Finish(o, c)
    BY <1>1, <1>2
  <2> QED BY ONLY Typed, o \in Owner, <1>1, <2>1, FinishKeeps
<1>4. PICK t : /\ to_pold' = to_pold \o t /\ t \in Seq(ForPold)
               /\ pold = 0 => to_pold' = to_pold
               /\ IF o = Self /\ pold = caller.process
                  THEN t = <<Message("Session", Self, caller.number, IF c = NULL THEN NULL ELSE connman)>>
                  ELSE t = <<>>
  BY <1>3
<1>5. Step(0, <<>>, 0, t) /\ QueueTypes'
  BY <1>1, <1>4, SendsToPold
<1>6. Finished(o, c, t)
  BY <1>1, <1>3, <1>4 DEF Finished, SameElsewhere
<1>7. PluginTypes' /\ FaultTypes' /\ connman # 0
  BY <1>1 DEF Typed, PluginTypes, FaultTypes, plugin, ConnmanOff
<1>8. Typed'
  BY <1>1, <1>3, <1>4, <1>5, <1>7, PluginStep DEF Ours
<1> QED BY <1>1, <1>2, <1>3, <1>5, <1>6, <1>8
-----------------------------------------------------------------------------
(* pold has appeared: the agent registers, unless it believes to have.       *)
Registers(s, t) ==
  /\ ~agent_registered /\ ~interface /\ agent_registered' = agent_registered
  /\ interface' = TRUE /\ register_call' = TRUE
  /\ IF pold # 0
     THEN s = <<>> /\ t = <<Message("RegisterAgent", NULL, 0, connman)>>
     ELSE s = <<Message("Registered", NULL, 0, NULL)>> /\ t = <<>>

(* pold_appeared registers, or leaves it at the registration it believes in. *)
LEMMA PoldSeen ==
  ASSUME Typed, pold_appeared, Ours
  PROVE  /\ Typed' /\ to_connman[1].type = "appeared" /\ to_connman # <<>>
         /\ UNCHANGED <<pold, connman, sessions, faults>>
         /\ \E s, t : /\ Step(1, s, 0, t)
                      /\ \/ Registers(s, t)
                         \/ /\ agent_registered \/ interface
                            /\ UNCHANGED plugin /\ s = <<>> /\ t = <<>>
<1>1. /\ to_connman # <<>> /\ Head(to_connman).type = "appeared"
      /\ UNCHANGED <<pold, connman, sessions, faults>>
  BY DEF pold_appeared, Receive
<1>2. PICK q : q = Tail(to_connman)
  OBVIOUS
<1>3. q \in Seq(ForConnman) /\ to_connman[1] = Head(to_connman) /\ connman # 0
  BY <1>1, <1>2, Rest
<1>4. SessionsOK' /\ FaultTypes'
  BY <1>1 DEF Typed, SessionsOK, SessionTypes, Requests, sessions, FaultTypes
<1>5. CASE agent_registered \/ interface
  <2>1. UNCHANGED plugin /\ CallPold(q, <<>>)
    BY <1>2, <1>5 DEF pold_appeared
  <2>2. to_connman' = q /\ to_pold' = to_pold
    BY <1>3, <2>1, CallsNobody
  <2>3. Step(1, <<>>, 0, <<>>) /\ QueueTypes'
    BY <1>1, <1>2, <2>2, HandlesQuietly
  <2>4. PluginTypes'
    BY <2>1 DEF Typed, PluginTypes, plugin
  <2>5. Typed'
    BY <1>1, <1>3, <1>4, <2>2, <2>3, <2>4, PluginStep DEF Ours
  <2> QED BY <1>1, <1>3, <1>5, <2>1, <2>3, <2>5
<1>6. CASE ~(agent_registered \/ interface)
  <2>1. PICK m : m = Message("RegisterAgent", NULL, 0, connman)
    OBVIOUS
  <2>2. /\ interface' = TRUE /\ register_call' = TRUE /\ CallPold(q, <<m>>)
        /\ agent_registered' = agent_registered
    BY <1>2, <1>6, <2>1 DEF pold_appeared
  <2>3. m \in Calls
    BY <1>3, <2>1 DEF Typed, LifeTypes, Message, Calls, Agents, Process
  <2>4. PICK made \in Seq(Calls) : made = <<m>>
    BY <2>3, Elements
  <2>5. CallPold(q, made)
    BY <2>2, <2>4
  <2>6. PICK s, t :
           /\ to_connman' = q \o s /\ s \in Seq(ForConnman)
           /\ to_pold' = to_pold \o t /\ t \in Seq(ForPold)
           /\ pold # 0 => s = <<>> /\ t = made
           /\ pold = 0 => /\ t = <<>> /\ Len(s) = Len(made)
                          /\ \A i \in DOMAIN s : i \in DOMAIN made /\ s[i] = NoAnswer(made[i])
    BY <1>3, <2>5, CallSends
  <2>7. Step(1, s, 0, t) /\ QueueTypes'
    BY <1>1, <1>2, <2>6, TakesAtConnman
  <2>8. pold = 0 => s = <<Message("Registered", NULL, 0, NULL)>>
    <3>1. ASSUME pold = 0 PROVE s = <<Message("Registered", NULL, 0, NULL)>>
      <4>1. Len(s) = 1 /\ s \in Seq(ForConnman)
        BY <2>4, <2>6, <3>1
      <4>2. DOMAIN s = {1} /\ s = <<s[1]>>
        BY <4>1, LenProperties
      <4>3. s[1] = NoAnswer(m)
        BY <2>4, <2>6, <3>1, <4>2
      <4> QED BY <2>1, <4>2, <4>3 DEF NoAnswer, Message
    <3> QED BY <3>1
  <2>9. pold = 0 => to_pold' = to_pold
    BY <2>6, Queues
  <2>10. PluginTypes'
    BY <2>2 DEF Typed, PluginTypes
  <2>11. Typed'
    BY <1>1, <1>3, <1>4, <2>7, <2>9, <2>10, PluginStep DEF Ours
  <2>12. Registers(s, t)
    BY <1>6, <2>1, <2>2, <2>4, <2>6, <2>8 DEF Registers
  <2> QED BY <1>1, <1>3, <2>7, <2>11, <2>12
<1> QED BY <1>5, <1>6

(* pold has disappeared.                                                     *)
LEMMA PoldGone ==
  ASSUME Typed, pold_disappeared, Ours
  PROVE  /\ Typed' /\ to_connman[1].type = "disappeared" /\ to_connman # <<>>
         /\ UNCHANGED <<pold, connman, sessions, to_pold>>
         /\ Step(1, <<>>, 0, <<>>)
         /\ interface' = (interface /\ ~agent_registered)
         /\ agent_registered' = FALSE /\ register_call' = FALSE
         /\ faults' = IF interface' THEN faults \cup {"abandoned"} ELSE faults
<1>1. /\ to_connman # <<>> /\ Head(to_connman).type = "disappeared" /\ to_connman' = Tail(to_connman)
      /\ interface' = (interface /\ ~agent_registered)
      /\ agent_registered' = FALSE /\ register_call' = FALSE
      /\ faults' = IF interface' THEN faults \cup {"abandoned"} ELSE faults
      /\ UNCHANGED <<pold, connman, sessions, to_pold>>
  BY DEF pold_disappeared, Receive
<1>2. Step(1, <<>>, 0, <<>>) /\ QueueTypes' /\ to_connman[1] = Head(to_connman) /\ connman # 0
  BY <1>1, HandlesQuietly
<1>3. SessionsOK'
  BY <1>1 DEF Typed, SessionsOK, SessionTypes, Requests, sessions
<1>4. FaultTypes' /\ PluginTypes'
  BY <1>1 DEF Typed, FaultTypes, PluginTypes
<1>5. Typed'
  BY <1>1, <1>2, <1>3, <1>4, PluginStep DEF Ours
<1> QED BY <1>1, <1>2, <1>5

(* The answer to the registration finds no call, is an error, or says that   *)
(* the agent is registered.                                                  *)
AnswerIgnored(s, t) == ~register_call /\ UNCHANGED <<plugin, sessions>> /\ s = <<>> /\ t = <<>>
AnswerRefused(s, t) ==
  /\ register_call /\ to_connman[1].value = NULL
  /\ interface' = FALSE /\ register_call' = FALSE /\ agent_registered' = agent_registered
  /\ UNCHANGED sessions /\ s = <<>> /\ t = <<>>
AnswerTaken(s, t) ==
  /\ register_call /\ to_connman[1].value # NULL
  /\ agent_registered' = TRUE /\ register_call' = FALSE
  /\ UNCHANGED <<interface, session, caller, silent>>
  /\ \A o \in Owner :
       IF session_hash[o] # NULL /\ session_hash[o].cbd
       THEN \E n \in Nat \ {0} : session_hash'[o] = policy_config(FALSE, n)
       ELSE session_hash'[o] = session_hash[o]
  /\ Refusals(s) /\ Questions(t)

(* agent_register_cb does one of the three.                                  *)
LEMMA RegistrationAnswered ==
  ASSUME Typed, agent_register_cb, Ours
  PROVE  /\ Typed' /\ to_connman[1] \in Registered /\ to_connman # <<>>
         /\ UNCHANGED <<pold, connman, faults, caller, session>>
         /\ \E s, t : /\ Step(1, s, 0, t)
                      /\ AnswerIgnored(s, t) \/ AnswerRefused(s, t) \/ AnswerTaken(s, t)
<1>1. /\ to_connman # <<>> /\ Head(to_connman).type = "Registered"
      /\ UNCHANGED <<pold, connman, faults>>
  BY DEF agent_register_cb, Receive
<1>2. PICK q, v : q = Tail(to_connman) /\ v = Head(to_connman).value
  OBVIOUS
<1>3. /\ q \in Seq(ForConnman) /\ to_connman[1] = Head(to_connman) /\ connman # 0
      /\ Head(to_connman) \in ForConnman
  BY <1>1, <1>2, Rest
<1>4. to_connman[1] \in Registered
  BY <1>1, <1>3 DEF ForConnman, Plain, PolicyMessage, CreateMessage, UpdateMessage
<1>5. FaultTypes' /\ SessionTypes /\ Requests /\ PluginTypes
  BY <1>1 DEF Typed, FaultTypes
<1>6. CASE ~register_call
  <2>1. UNCHANGED <<plugin, sessions>> /\ CallPold(q, <<>>)
    BY <1>2, <1>6 DEF agent_register_cb
  <2>2. to_connman' = q /\ to_pold' = to_pold
    BY <1>3, <2>1, CallsNobody
  <2>3. Step(1, <<>>, 0, <<>>) /\ QueueTypes'
    BY <1>1, <1>2, <2>2, HandlesQuietly
  <2>4. PluginTypes' /\ SessionsOK'
    BY <1>5, <2>1 DEF PluginTypes, plugin, SessionsOK, SessionTypes, Requests, sessions
  <2>5. Typed'
    BY <1>1, <1>3, <1>5, <2>2, <2>3, <2>4, PluginStep DEF Ours
  <2>6. AnswerIgnored(<<>>, <<>>)
    BY <1>6, <2>1 DEF AnswerIgnored
  <2> QED BY <1>1, <1>4, <2>1, <2>3, <2>5, <2>6 DEF sessions
<1>7. CASE register_call /\ v = NULL
  <2>1. Refused /\ CallPold(q, <<>>)
    BY <1>2, <1>7 DEF agent_register_cb
  <2>2. to_connman' = q /\ to_pold' = to_pold
    BY <1>3, <2>1, CallsNobody
  <2>3. Step(1, <<>>, 0, <<>>) /\ QueueTypes'
    BY <1>1, <1>2, <2>2, HandlesQuietly
  <2>4. PluginTypes' /\ SessionsOK'
    BY <1>5, <2>1 DEF PluginTypes, Refused, SessionsOK, SessionTypes, Requests, sessions
  <2>5. Typed'
    BY <1>1, <1>3, <1>5, <2>2, <2>3, <2>4, PluginStep DEF Ours
  <2>6. AnswerRefused(<<>>, <<>>)
    BY <1>2, <1>3, <1>7, <2>1 DEF AnswerRefused, Refused
  <2> QED BY <1>1, <1>4, <2>1, <2>3, <2>5, <2>6 DEF sessions, Refused
<1>8. CASE register_call /\ v # NULL
  <2>1. PICK waiting : waiting = {o \in Owner : session_hash[o] # NULL /\ session_hash[o].cbd}
    OBVIOUS
  <2>2. /\ agent_registered' = TRUE /\ register_call' = FALSE
        /\ session_hash' = [o \in Owner |->
             IF o \in waiting THEN policy_config(FALSE, created[o]) ELSE session_hash[o]]
        /\ UNCHANGED <<interface, session, created, caller, silent>>
        /\ CallPold(q, SetToSeq({GetPolicyConfig(o) : o \in waiting}))
    BY <1>2, <1>8, <2>1 DEF agent_register_cb
  <2>3. \A o \in waiting : o \in Owner /\ created[o] \in Nat \ {0} /\ session[o] = "creating"
    BY <1>5, <2>1 DEF SessionTypes, Requests
  <2>4. \A o \in waiting : policy_config(FALSE, created[o]) \in PolicyConfig
    BY <2>3 DEF policy_config, PolicyConfig
  <2>5. SessionsOK'
    <3>1. session_hash' \in [Owner -> PolicyConfig \cup {NULL}]
      BY <1>5, <2>2, <2>4 DEF SessionTypes
    <3>2. \A o \in Owner : session_hash'[o] = NULL <=> session'[o] = "none"
      <4> TAKE o \in Owner
      <4>1. session'[o] = session[o]
        BY <2>2
      <4>2. CASE o \in waiting
        <5>1. session_hash'[o] \in PolicyConfig /\ session[o] = "creating"
          BY <2>2, <2>3, <2>4, <4>2
        <5> QED BY <4>1, <5>1, NullApart
      <4>3. CASE o \notin waiting
        BY <1>5, <2>2, <4>1, <4>3 DEF SessionTypes
      <4> QED BY <4>2, <4>3
    <3>3. SessionTypes'
      BY <1>5, <2>2, <3>1, <3>2 DEF SessionTypes
    <3>4. Requests'
      <4> SUFFICES ASSUME NEW o \in Owner, session_hash'[o] # NULL
                   PROVE  /\ session_hash'[o].pending # 0 \/ session_hash'[o].cbd => session'[o] = "creating"
                          /\ session_hash'[o].cbd => created'[o] # 0
        BY DEF Requests
      <4>1. CASE o \in waiting
        BY <2>2, <2>3, <4>1
      <4>2. CASE o \notin waiting
        BY <1>5, <2>2, <4>2 DEF Requests
      <4> QED BY <4>1, <4>2
    <3> QED BY <3>3, <3>4 DEF SessionsOK
  <2>6. PICK made : made = SetToSeq({GetPolicyConfig(o) : o \in waiting})
    OBVIOUS
  <2>7. made \in Seq(Question) /\ made \in Seq(Calls) /\ Questions(made)
    <3>1. PICK f : f = [o \in Owner |-> GetPolicyConfig(o)]
      OBVIOUS
    <3>2. PICK T : T = {f[o] : o \in waiting}
      OBVIOUS
    <3>3. waiting \in SUBSET Owner /\ IsFiniteSet(waiting)
      BY <2>1, FiniteOwners
    <3>4. IsFiniteSet(T)
      BY <3>2, <3>3, FiniteImage
    <3>5. T = {GetPolicyConfig(o) : o \in waiting}
      BY <3>1, <3>2, <3>3
    <3>6. connman \in Process
      BY <1>3 DEF Typed, LifeTypes, Process
    <3>7. \A o \in waiting : GetPolicyConfig(o) \in Question
      BY <2>2, <2>3, <3>6 DEF GetPolicyConfig, Message, Question
    <3>8. T \subseteq Question
      BY <3>5, <3>7
    <3>9. made \in Seq(T)
      BY <2>6, <3>4, <3>5, Listing
    <3>10. made \in Seq(Question) /\ made \in Seq(Calls)
      <4>1. T \subseteq Calls
        BY <3>8 DEF Calls
      <4> QED BY <3>8, <3>9, <4>1, SeqMonotonic
    <3> QED BY <3>10, ElementOfSeq DEF Questions
  <2>8. CallPold(q, made)
    BY <2>2, <2>6
  <2>9. PICK s \in Seq(ForConnman), t \in Seq(ForPold) :
           /\ to_connman' = q \o s /\ to_pold' = to_pold \o t
           /\ Refusals(s) /\ Questions(t) /\ (pold = 0 => to_pold' = to_pold)
    BY ONLY Typed, <1>3, <2>7, <2>8, Asks
  <2>10. Step(1, s, 0, t) /\ QueueTypes'
    BY <1>1, <1>2, <2>9, TakesAtConnman
  <2>11. PluginTypes'
    BY <1>5, <2>2 DEF PluginTypes
  <2>12. Typed'
    BY <1>1, <1>3, <1>5, <2>5, <2>9, <2>10, <2>11, PluginStep DEF Ours
  <2>13. AnswerTaken(s, t)
    <3>1. \A o \in Owner :
            IF session_hash[o] # NULL /\ session_hash[o].cbd
            THEN \E n \in Nat \ {0} : session_hash'[o] = policy_config(FALSE, n)
            ELSE session_hash'[o] = session_hash[o]
      BY <2>1, <2>2, <2>3
    <3> QED BY <1>2, <1>3, <1>8, <2>2, <2>9, <3>1 DEF AnswerTaken
  <2> QED BY <1>1, <1>4, <2>2, <2>10, <2>12, <2>13
<1> QED BY <1>6, <1>7, <1>8

(* The timer of the registration takes the interface down.                   *)
LEMMA RegistrationLate ==
  ASSUME Typed, RegisterTimeout, Ours
  PROVE  /\ Typed' /\ to_connman = <<>> /\ register_call
         /\ interface' = FALSE /\ register_call' = FALSE /\ agent_registered' = agent_registered
         /\ faults' = faults \cup {"unregistered"}
         /\ UNCHANGED <<pold, connman, to_connman, to_pold, sessions>>
         /\ Step(0, <<>>, 0, <<>>)
<1>1. /\ to_connman = <<>> /\ register_call
      /\ interface' = FALSE /\ register_call' = FALSE /\ agent_registered' = agent_registered
      /\ faults' = faults \cup {"unregistered"}
      /\ UNCHANGED <<pold, connman, to_connman, to_pold, sessions>>
  BY DEF RegisterTimeout, Refused
<1>2. Step(0, <<>>, 0, <<>>) /\ QueueTypes'
  BY <1>1, SendsNothing
<1>3. FaultTypes' /\ PluginTypes' /\ connman # 0
  BY <1>1 DEF Typed, FaultTypes, PluginTypes, ConnmanOff
<1>4. SessionsOK'
  BY <1>1 DEF Typed, SessionsOK, SessionTypes, Requests, sessions
<1>5. Typed'
  BY <1>1, <1>2, <1>3, <1>4, PluginStep DEF Ours
<1> QED BY <1>1, <1>2, <1>5

(* What an update may leave of a policy.                                     *)
Leaves(old, new, config) ==
  /\ config \in Config \cup {NULL}
  /\ config = NULL => old = NULL
  /\ new.document = "valid" => config = new
  /\ config = new \/ config = old \/ (old # NULL /\ config = [old EXCEPT !.document = "refused"])

(* Updated leaves that.                                                      *)
LEMMA UpdatedLeaves ==
  ASSUME NEW old \in Config \cup {NULL}, NEW new \in Config, NEW config \in Updated(old, new)
  PROVE  Leaves(old, new, config)
<1>1. new.document \in {"valid", "refused", "missing"} /\ NULL \notin Config
  BY NullApart DEF Config, Document
<1>2. CASE new.document = "valid"
  <2>1. Updated(old, new) = {new}
    BY <1>2 DEF Updated
  <2> QED BY <1>1, <2>1 DEF Leaves
<1>3. CASE new.document = "missing"
  <2>1. Updated(old, new) = {old}
    BY <1>3 DEF Updated
  <2> QED BY <1>1, <1>3, <2>1 DEF Leaves
<1>4. CASE new.document = "refused"
  <2>1. Updated(old, new) = {old, new} \cup (IF old = NULL THEN {} ELSE {[old EXCEPT !.document = "refused"]})
    BY <1>4 DEF Updated
  <2>2. old # NULL => [old EXCEPT !.document = "refused"] \in Config
    BY DEF Config, Document
  <2> QED BY <1>1, <1>4, <2>1, <2>2 DEF Leaves
<1> QED BY <1>1, <1>2, <1>3, <1>4

(* An update replaces the policy of a session that is there, if accepted.    *)
LEMMA PolicyReplaced ==
  ASSUME Typed, agent_update, Ours
  PROVE  /\ Typed' /\ to_connman[1] \in UpdateMessage /\ to_connman # <<>>
         /\ Step(1, <<>>, 0, <<>>)
         /\ IF interface /\ session_hash[to_connman[1].owner] # NULL
            THEN \E config :
                   /\ Leaves(session_hash[to_connman[1].owner].config, to_connman[1].value, config)
                   /\ session_hash' = [session_hash EXCEPT ![to_connman[1].owner].config = config]
            ELSE session_hash' = session_hash
         /\ UNCHANGED <<pold, connman, plugin, session, created, caller, silent, to_pold, faults>>
<1>1. /\ to_connman # <<>> /\ Head(to_connman).type = "Update" /\ to_connman' = Tail(to_connman)
      /\ UNCHANGED <<pold, connman, plugin, session, created, caller, silent, to_pold, faults>>
  BY DEF agent_update, Receive
<1>2. /\ Step(1, <<>>, 0, <<>>) /\ QueueTypes' /\ to_connman[1] = Head(to_connman) /\ connman # 0
      /\ to_connman[1] \in ForConnman
  BY <1>1, HandlesQuietly
<1>3. to_connman[1] \in UpdateMessage
  BY <1>1, <1>2 DEF ForConnman, Plain, PolicyMessage, CreateMessage, Registered
<1>4. FaultTypes' /\ PluginTypes'
  BY <1>1 DEF Typed, FaultTypes, PluginTypes, plugin
<1>5. SessionTypes /\ Requests
  BY DEF Typed
<1>6. PICK o, v : o = to_connman[1].owner /\ v = to_connman[1].value
  OBVIOUS
<1>7. o \in Owner /\ v \in Config
  BY <1>3, <1>6 DEF UpdateMessage, Owner
<1>8. CASE interface /\ session_hash[o] # NULL
  <2>1. PICK r : r = session_hash[o]
    OBVIOUS
  <2>2. r \in PolicyConfig /\ r.config \in Config \cup {NULL}
    BY <1>5, <1>7, <1>8, <2>1 DEF SessionTypes, PolicyConfig
  <2>3. PICK config \in Updated(r.config, v) : session_hash' = [session_hash EXCEPT ![o].config = config]
    BY <1>2, <1>6, <1>8, <2>1 DEF agent_update
  <2>4. Leaves(r.config, v, config)
    BY <1>7, <2>2, UpdatedLeaves
  <2>5. PICK c : c = [r EXCEPT !.config = config]
    OBVIOUS
  <2>6. c \in PolicyConfig /\ c.cbd = r.cbd /\ c.pending = r.pending
    BY <2>2, <2>4, <2>5 DEF PolicyConfig, Leaves
  <2>7. session_hash' = [session_hash EXCEPT ![o] = c]
    BY <2>1, <2>3, <2>5
  <2>8. SessionTypes'
    <3>1. session_hash' \in [Owner -> PolicyConfig \cup {NULL}]
      BY <1>5, <1>7, <2>6, <2>7 DEF SessionTypes
    <3>2. \A x \in Owner : session_hash'[x] = NULL <=> session_hash[x] = NULL
      BY <1>5, <1>7, <1>8, <2>6, <2>7, NullApart DEF SessionTypes
    <3> QED BY <1>1, <1>5, <3>1, <3>2 DEF SessionTypes
  <2>9. Requests'
    BY <1>1, <1>5, <1>7, <1>8, <2>1, <2>6, <2>7 DEF SessionTypes, Requests
  <2>10. Typed'
    BY <1>1, <1>2, <1>4, <2>8, <2>9, PluginStep DEF Ours, SessionsOK
  <2> QED BY <1>1, <1>2, <1>3, <1>6, <1>8, <2>1, <2>3, <2>4, <2>10
<1>9. CASE ~(interface /\ session_hash[o] # NULL)
  <2>1. session_hash' = session_hash
    BY <1>2, <1>6, <1>9 DEF agent_update
  <2>2. SessionsOK'
    BY <1>1, <1>5, <2>1 DEF SessionsOK, SessionTypes, Requests
  <2>3. Typed'
    BY <1>1, <1>2, <1>4, <2>2, PluginStep DEF Ours
  <2> QED BY <1>1, <1>2, <1>3, <1>6, <1>9, <2>1, <2>3
<1> QED BY <1>8, <1>9
-----------------------------------------------------------------------------
(* What a step of pold leaves alone.                                         *)
Theirs == UNCHANGED <<lives, plugin, sessions>>

(* The types of what belongs to pold.                                        *)
LEMMA PoldTypes ==
  ASSUME Typed
  PROVE  ClientTypes /\ ManagerTypes /\ FaultTypes /\ (pold # 0 => pold \in Process)
         /\ (connman # 0 => connman \in Process)
BY DEF Typed, LifeTypes, Process

(* pold asks ConnMan for a session.                                          *)
LEMMA ConnmanSeen ==
  ASSUME Typed, connman_appeared
  PROVE  /\ Typed' /\ Theirs /\ to_pold[1].type = "appeared" /\ to_pold # <<>> /\ pold # 0
         /\ UNCHANGED <<session_path, manager>>
         /\ calls' = calls + 1 /\ create_calls' = create_calls \cup {calls + 1}
         /\ faults' = IF create_calls # {} \/ session_path = connman THEN faults \cup {"twice"} ELSE faults
         /\ \E s, t : /\ Step(0, s, 1, t)
                      /\ IF connman = 0
                         THEN s = <<>> /\ t = <<Message("Session", Self, calls + 1, NULL)>>
                         ELSE s = <<Message("CreateSession", Self, calls + 1, pold)>> /\ t = <<>>
<1>1. /\ to_pold # <<>> /\ Head(to_pold).type = "appeared"
      /\ calls' = calls + 1 /\ create_calls' = create_calls \cup {calls + 1}
      /\ faults' = IF create_calls # {} \/ session_path = connman THEN faults \cup {"twice"} ELSE faults
      /\ UNCHANGED <<lives, plugin, sessions, session_path, manager>>
  BY DEF connman_appeared
<1>2. ClientTypes /\ ManagerTypes /\ FaultTypes /\ (pold # 0 => pold \in Process) /\ pold # 0
  BY <1>1, PoldTypes DEF Typed, PoldOff
<1>3. ClientTypes'
  <2>1. calls \in Nat /\ calls + 1 \in Nat /\ 1 .. calls \subseteq 1 .. calls + 1
    BY <1>2 DEF ClientTypes
  <2> QED BY <1>1, <1>2, <2>1 DEF ClientTypes
<1>4. ManagerTypes' /\ FaultTypes'
  BY <1>1, <1>2 DEF ManagerTypes, FaultTypes, manager
<1>5. CASE connman = 0
  <2>1. PICK m : m = Message("Session", Self, calls + 1, NULL)
    OBVIOUS
  <2>2. m \in ForPold
    BY <1>2, <2>1 DEF Message, SessionMessage, ForPold, ClientTypes
  <2>3. <<m>> \in Seq(ForPold) /\ to_pold' = Tail(to_pold) \o <<m>> /\ to_connman' = to_connman
    BY <1>1, <1>5, <2>1, <2>2 DEF connman_appeared
  <2>4. <<>> \in Seq(ForConnman) /\ to_connman' = to_connman \o <<>>
    BY <2>3, Queues
  <2>5. Step(0, <<>>, 1, <<m>>) /\ QueueTypes' /\ to_pold[1] = Head(to_pold)
    BY <1>1, <2>3, <2>4, TakesAtPold
  <2>6. Typed'
    BY <1>1, <1>2, <1>3, <1>4, <2>3, <2>5, PoldStep
  <2> QED BY <1>1, <1>2, <1>5, <2>1, <2>5, <2>6 DEF Theirs
<1>6. CASE connman # 0
  <2>1. PICK m : m = Message("CreateSession", Self, calls + 1, pold)
    OBVIOUS
  <2>2. m \in ForConnman
    BY <1>2, <2>1 DEF Message, CreateMessage, ForConnman, ClientTypes
  <2>3. to_pold' = Tail(to_pold) /\ SendToConnman(connman, <<m>>)
    BY <1>1, <1>6, <2>1 DEF connman_appeared
  <2>4. <<m>> \in Seq(ForConnman) /\ to_connman' = to_connman \o <<m>>
    BY <2>2, <2>3 DEF SendToConnman
  <2>5. Step(0, <<m>>, 1, <<>>) /\ QueueTypes' /\ to_pold[1] = Head(to_pold)
    BY <1>1, <2>3, <2>4, TakenByPold
  <2>6. Typed'
    BY <1>1, <1>2, <1>3, <1>4, <1>6, <2>5, PoldStep
  <2> QED BY <1>1, <1>2, <1>6, <2>1, <2>5, <2>6 DEF Theirs
<1> QED BY <1>5, <1>6

(* pold is told that ConnMan has gone, and does nothing.                     *)
LEMMA ConnmanGone ==
  ASSUME Typed, connman_disappeared
  PROVE  /\ Typed' /\ Theirs /\ to_pold[1].type = "disappeared" /\ to_pold # <<>> /\ pold # 0
         /\ UNCHANGED <<client, manager, to_connman, faults>> /\ Step(0, <<>>, 1, <<>>)
<1>1. /\ to_pold # <<>> /\ Head(to_pold).type = "disappeared" /\ to_pold' = Tail(to_pold)
      /\ UNCHANGED <<lives, plugin, sessions, client, manager, to_connman, faults>>
  BY DEF connman_disappeared, PoldReceives
<1>2. Step(0, <<>>, 1, <<>>) /\ QueueTypes' /\ to_pold[1] = Head(to_pold) /\ pold # 0
  BY <1>1, TakenQuietly
<1>3. ClientTypes' /\ ManagerTypes' /\ FaultTypes'
  BY <1>1, PoldTypes DEF ClientTypes, ManagerTypes, FaultTypes, manager, client
<1>4. Typed'
  BY <1>1, <1>2, <1>3, PoldStep
<1> QED BY <1>1, <1>2, <1>4 DEF Theirs

(* The answer to CreateSession gives the path, if the call is still awaited. *)
LEMMA PathAnswered ==
  ASSUME Typed, create_session_cb
  PROVE  /\ Typed' /\ Theirs /\ to_pold[1] \in SessionMessage /\ to_pold # <<>> /\ pold # 0
         /\ UNCHANGED <<calls, manager, to_connman, faults>> /\ Step(0, <<>>, 1, <<>>)
         /\ IF to_pold[1].number \in create_calls
            THEN session_path' = to_pold[1].value /\ create_calls' = create_calls \ {to_pold[1].number}
            ELSE UNCHANGED <<session_path, create_calls>>
<1>1. /\ to_pold # <<>> /\ Head(to_pold).type = "Session" /\ to_pold' = Tail(to_pold)
      /\ IF Head(to_pold).number \in create_calls
         THEN /\ session_path' = Head(to_pold).value
              /\ create_calls' = create_calls \ {Head(to_pold).number}
         ELSE UNCHANGED <<session_path, create_calls>>
      /\ UNCHANGED <<lives, plugin, sessions, calls, manager, to_connman, faults>>
  BY DEF create_session_cb, PoldReceives
<1>2. /\ Step(0, <<>>, 1, <<>>) /\ QueueTypes' /\ to_pold[1] = Head(to_pold) /\ pold # 0
      /\ to_pold[1] \in ForPold
  BY <1>1, TakenQuietly
<1>3. to_pold[1] \in SessionMessage
  BY <1>1, <1>2 DEF ForPold, Plain, Agents, Question, ReleaseMessage
<1>4. ClientTypes'
  <2>1. ClientTypes /\ Head(to_pold).value \in 0 .. MaxStarts \cup {NULL}
    BY <1>2, <1>3, PoldTypes DEF SessionMessage
  <2> QED BY <1>1, <2>1 DEF ClientTypes
<1>5. ManagerTypes' /\ FaultTypes'
  BY <1>1, PoldTypes DEF ManagerTypes, FaultTypes, manager
<1>6. Typed'
  BY <1>1, <1>2, <1>4, <1>5, PoldStep
<1> QED BY <1>1, <1>2, <1>3, <1>6 DEF Theirs

(* The timer of a CreateSession takes the path away.                         *)
LEMMA PathLate ==
  ASSUME Typed, CreateTimeout
  PROVE  /\ Typed' /\ Theirs /\ to_pold = <<>> /\ pold # 0
         /\ \E n \in create_calls : create_calls' = create_calls \ {n}
         /\ session_path' = NULL /\ faults' = faults \cup {"timeout"}
         /\ UNCHANGED <<calls, manager, to_connman, to_pold>> /\ Step(0, <<>>, 0, <<>>)
<1>1. /\ to_pold = <<>>
      /\ \E n \in create_calls : create_calls' = create_calls \ {n}
      /\ session_path' = NULL /\ faults' = faults \cup {"timeout"}
      /\ UNCHANGED <<lives, plugin, sessions, calls, manager, to_connman, to_pold>>
  BY DEF CreateTimeout
<1>2. Step(0, <<>>, 0, <<>>) /\ QueueTypes'
  BY <1>1, SendsNothing
<1>3. pold # 0
  BY <1>1 DEF Typed, PoldOff
<1>4. ClientTypes' /\ ManagerTypes' /\ FaultTypes'
  BY <1>1, PoldTypes DEF ClientTypes, ManagerTypes, FaultTypes, manager
<1>5. Typed'
  BY <1>1, <1>2, <1>3, <1>4, PoldStep
<1> QED BY <1>1, <1>2, <1>3, <1>5 DEF Theirs

(* Release takes the path away.                                              *)
LEMMA PathReleased ==
  ASSUME Typed, release
  PROVE  /\ Typed' /\ Theirs /\ to_pold[1].type = "Release" /\ to_pold # <<>> /\ pold # 0
         /\ session_path' = NULL /\ UNCHANGED <<create_calls, calls, manager, to_connman, faults>>
         /\ Step(0, <<>>, 1, <<>>)
<1>1. /\ to_pold # <<>> /\ Head(to_pold).type = "Release" /\ to_pold' = Tail(to_pold) /\ session_path' = NULL
      /\ UNCHANGED <<lives, plugin, sessions, create_calls, calls, manager, to_connman, faults>>
  BY DEF release, PoldReceives
<1>2. Step(0, <<>>, 1, <<>>) /\ QueueTypes' /\ to_pold[1] = Head(to_pold) /\ pold # 0
  BY <1>1, TakenQuietly
<1>3. ClientTypes' /\ ManagerTypes' /\ FaultTypes'
  BY <1>1, PoldTypes DEF ClientTypes, ManagerTypes, FaultTypes, manager
<1>4. Typed'
  BY <1>1, <1>2, <1>3, PoldStep
<1> QED BY <1>1, <1>2, <1>4 DEF Theirs

(* An agent registers, and is answered if it still runs.                     *)
LEMMA AgentRegistered ==
  ASSUME Typed, pold_manager_register_agent
  PROVE  /\ Typed' /\ Theirs /\ to_pold[1] \in Agents({"RegisterAgent"}) /\ to_pold # <<>> /\ pold # 0
         /\ to_pold[1].value \notin agents /\ agents' = agents \cup {to_pold[1].value}
         /\ UNCHANGED <<client, apps, asked, policies, document, faults>>
         /\ \E s : /\ Step(0, s, 1, <<>>)
                   /\ s = IF connman = to_pold[1].value
                          THEN <<Message("Registered", NULL, 0, pold)>> ELSE <<>>
<1>1. /\ to_pold # <<>> /\ Head(to_pold).type = "RegisterAgent" /\ to_pold' = Tail(to_pold)
      /\ Head(to_pold).value \notin agents /\ agents' = agents \cup {Head(to_pold).value}
      /\ SendToConnman(Head(to_pold).value, <<Message("Registered", NULL, 0, pold)>>)
      /\ UNCHANGED <<lives, plugin, sessions, client, apps, asked, policies, document, faults>>
  BY DEF pold_manager_register_agent, PoldReceives
<1>2. PICK c, m : c = Head(to_pold).value /\ m = Message("Registered", NULL, 0, pold)
  OBVIOUS
<1>3. pold # 0 /\ pold \in Process /\ Head(to_pold) \in ForPold
  BY <1>1, PoldTypes, HeadTailProperties DEF Typed, PoldOff, QueueTypes
<1>4. m \in ForConnman
  BY <1>2, <1>3 DEF Message, Registered, ForConnman
<1>5. <<m>> \in Seq(ForConnman) /\ SendToConnman(c, <<m>>)
  BY <1>1, <1>2, <1>4
<1>6. PICK s : /\ to_connman' = to_connman \o s /\ s \in Seq(ForConnman)
               /\ s = IF connman = c THEN <<m>> ELSE <<>>
  BY <1>5, SendSends
<1>7. Step(0, s, 1, <<>>) /\ QueueTypes' /\ to_pold[1] = Head(to_pold)
  BY <1>1, <1>6, TakenByPold
<1>8. Head(to_pold) \in Agents({"RegisterAgent"})
  BY <1>1, <1>3 DEF ForPold, Plain, SessionMessage, Question, ReleaseMessage, Agents
<1>9. c \in Process
  BY <1>2, <1>8 DEF Agents
<1>10. ClientTypes' /\ ManagerTypes' /\ FaultTypes'
  BY <1>1, <1>2, <1>9, PoldTypes DEF ClientTypes, ManagerTypes, FaultTypes, client
<1>11. connman = 0 => to_connman' = to_connman
  <2>1. connman = 0 => s = <<>>
    BY <1>6, <1>9, NullApart
  <2> QED BY <1>6, <2>1, Queues
<1>12. Typed'
  BY <1>1, <1>3, <1>7, <1>10, <1>11, PoldStep
<1> QED BY <1>1, <1>2, <1>3, <1>6, <1>7, <1>8, <1>12 DEF Theirs

(* An agent unregisters, or leaves the bus.                                  *)
LEMMA AgentForgotten ==
  ASSUME Typed, pold_manager_unregister_agent \/ owner_disconnect
  PROVE  /\ Typed' /\ Theirs /\ to_pold[1] \in Agents({"UnregisterAgent", "AgentLeft"})
         /\ to_pold # <<>> /\ pold # 0
         /\ Forget(to_pold[1].value) \/ UNCHANGED <<agents, apps>>
         /\ UNCHANGED <<client, asked, policies, document, faults, to_connman>> /\ Step(0, <<>>, 1, <<>>)
<1>1. /\ to_pold # <<>> /\ Head(to_pold).type \in {"UnregisterAgent", "AgentLeft"} /\ to_pold' = Tail(to_pold)
      /\ Forget(Head(to_pold).value) \/ UNCHANGED <<agents, apps>>
      /\ UNCHANGED <<lives, plugin, sessions, client, asked, policies, document, to_connman, faults>>
  BY DEF pold_manager_unregister_agent, owner_disconnect, PoldReceives
<1>2. /\ Step(0, <<>>, 1, <<>>) /\ QueueTypes' /\ to_pold[1] = Head(to_pold) /\ pold # 0
      /\ to_pold[1] \in ForPold
  BY <1>1, TakenQuietly
<1>3. to_pold[1] \in Agents({"UnregisterAgent", "AgentLeft"})
  BY <1>1, <1>2 DEF ForPold, Plain, SessionMessage, Question, ReleaseMessage, Agents
<1>4. ClientTypes' /\ FaultTypes'
  BY <1>1, PoldTypes DEF ClientTypes, FaultTypes, client
<1>5. ManagerTypes'
  BY <1>1, PoldTypes DEF ManagerTypes, Forget
<1>6. Typed'
  BY <1>1, <1>2, <1>4, <1>5, PoldStep
<1> QED BY <1>1, <1>2, <1>3, <1>6 DEF Theirs

(* A request arrives. One for pold's own policy is answered at once.         *)
LEMMA PolicyAsked ==
  ASSUME Typed, pold_manager_get_policy_config
  PROVE  /\ Typed' /\ Theirs /\ to_pold[1] \in Question /\ to_pold # <<>> /\ pold # 0
         /\ UNCHANGED <<client, agents, apps, policies, document, faults>>
         /\ \E s : /\ Step(0, s, 1, <<>>)
                   /\ \/ s = <<>> /\ asked' = asked \cup {to_pold[1]}
                      \/ /\ asked' = asked
                         /\ \E x \in PolicyMessage :
                              x.owner = Self /\ s = IF connman = to_pold[1].value THEN <<x>> ELSE <<>>
<1>1. /\ to_pold # <<>> /\ Head(to_pold).type = "GetPolicyConfig" /\ to_pold' = Tail(to_pold)
      /\ UNCHANGED <<lives, plugin, sessions, client, agents, apps, policies, document, faults>>
  BY DEF pold_manager_get_policy_config, PoldReceives
<1>2. Head(to_pold) \in ForPold /\ pold # 0 /\ pold \in Nat
  BY <1>1, PoldTypes, NullApart, HeadTailProperties DEF Typed, QueueTypes, PoldOff, LifeTypes
<1>3. Head(to_pold) \in Question
  BY <1>1, <1>2 DEF ForPold, Plain, SessionMessage, ReleaseMessage, Agents
<1>4. ClientTypes' /\ FaultTypes'
  BY <1>1, PoldTypes DEF ClientTypes, FaultTypes, client
<1>5. PICK m : m = Head(to_pold)
  OBVIOUS
<1>6. CASE m.owner \in App /\ asked' = asked \cup {m} /\ to_connman' = to_connman
  <2>1. /\ Step(0, <<>>, 1, <<>>) /\ QueueTypes' /\ to_pold[1] = m
    BY <1>1, <1>5, <1>6, TakenQuietly
  <2>2. ManagerTypes'
    BY <1>1, <1>3, <1>5, <1>6, PoldTypes DEF ManagerTypes
  <2>3. Typed'
    BY <1>1, <1>2, <1>4, <1>6, <2>1, <2>2, PoldStep
  <2> QED BY <1>1, <1>2, <1>3, <1>5, <1>6, <2>1, <2>3 DEF Theirs
<1>7. CASE /\ m.owner = Self /\ asked' = asked
           /\ \E d \in {"valid", "refused"} :
                SendToConnman(m.value, <<Message("Policy", Self, m.number, PolicyFrom(pold, 0, d))>>)
  <2>1. PICK d \in {"valid", "refused"} :
          SendToConnman(m.value, <<Message("Policy", Self, m.number, PolicyFrom(pold, 0, d))>>)
    BY <1>7
  <2>2. PICK x, c : x = Message("Policy", Self, m.number, PolicyFrom(pold, 0, d)) /\ c = m.value
    OBVIOUS
  <2>3. PICK v : v = PolicyFrom(pold, 0, d)
    OBVIOUS
  <2>4. v \in Config /\ ~Missing(v)
    BY <1>2, <2>3 DEF PolicyFrom, Config, Document, Missing
  <2>5. x \in PolicyMessage /\ x.owner = Self
    BY <1>3, <1>5, <2>2, <2>3, <2>4 DEF Message, Question, PolicyMessage, Owner
  <2>6. <<x>> \in Seq(ForConnman)
    BY <2>5 DEF ForConnman
  <2>7. SendToConnman(c, <<x>>)
    BY <2>1, <2>2
  <2>8. PICK s : /\ to_connman' = to_connman \o s /\ s \in Seq(ForConnman)
                 /\ s = IF connman = c THEN <<x>> ELSE <<>>
    BY <2>6, <2>7, SendSends
  <2>9. Step(0, s, 1, <<>>) /\ QueueTypes' /\ to_pold[1] = m
    BY <1>1, <1>5, <2>8, TakenByPold
  <2>10. ManagerTypes'
    BY <1>1, <1>7, PoldTypes DEF ManagerTypes
  <2>11. connman = 0 => to_connman' = to_connman
    <3>1. c \in Process
      BY <1>3, <1>5, <2>2 DEF Question
    <3>2. connman = 0 => s = <<>>
      BY <2>8, <3>1, NullApart
    <3> QED BY <2>8, <3>2, Queues
  <2>12. Typed'
    BY <1>1, <1>2, <1>4, <2>9, <2>10, <2>11, PoldStep
  <2> QED BY <1>1, <1>2, <1>3, <1>5, <1>7, <2>2, <2>5, <2>8, <2>9, <2>12 DEF Theirs
<1>8. \/ m.owner \in App /\ asked' = asked \cup {m} /\ to_connman' = to_connman
      \/ /\ m.owner = Self /\ asked' = asked
         /\ \E d \in {"valid", "refused"} :
              SendToConnman(m.value, <<Message("Policy", Self, m.number, PolicyFrom(pold, 0, d))>>)
  BY <1>5 DEF pold_manager_get_policy_config
<1> QED BY <1>6, <1>7, <1>8

(* A request is answered with the policy, the app now watched, or refused.   *)
LEMMA PolicySent ==
  ASSUME Typed, NEW m \in asked, user_cb(m)
  PROVE  /\ Typed' /\ Theirs /\ m \in Question /\ m.owner \in App /\ pold # 0
         /\ UNCHANGED <<client, agents, policies, document, to_pold, faults>>
         /\ \E s, x : /\ Step(0, s, 0, <<>>) /\ x \in PolicyMessage /\ x.owner = m.owner
                      /\ s = IF connman = m.value THEN <<x>> ELSE <<>>
                      /\ \/ /\ apps' = apps \cup {<<m.value, m.owner>>}
                            /\ x.value = PolicyFrom(pold, policies, document[m.owner])
                         \/ apps' = apps /\ x.value = NULL
<1>1. /\ asked' = asked \ {m} /\ m \in Question /\ m.owner \in App /\ pold # 0 /\ pold \in Nat /\ policies \in Nat
      /\ document[m.owner] \in Document
      /\ UNCHANGED <<lives, plugin, sessions, client, agents, policies, document, to_pold, faults>>
  <2>1. pold # 0 /\ pold \in Process
    BY PoldTypes DEF Typed, PoldOff
  <2> QED BY <2>1, PoldTypes, NullApart DEF user_cb, ManagerTypes, Process
<1>2. PICK x \in PolicyMessage :
        /\ SendToConnman(m.value, <<x>>) /\ x.owner = m.owner
        /\ \/ /\ apps' = apps \cup {<<m.value, m.owner>>}
              /\ x.value = PolicyFrom(pold, policies, document[m.owner])
           \/ apps' = apps /\ x.value = NULL
  <2>1. CASE /\ apps' = apps \cup {<<m.value, m.owner>>}
             /\ SendToConnman(m.value, <<Policy(m.owner, m.number)>>)
    <3>1. PICK x, v : x = Policy(m.owner, m.number) /\ v = PolicyFrom(pold, policies, document[m.owner])
      OBVIOUS
    <3>2. v \in Config
      BY <1>1, <3>1 DEF PolicyFrom, Config
    <3>3. x \in PolicyMessage /\ x.value = v /\ x.owner = m.owner
      BY <1>1, <3>1, <3>2, PluginAssumption DEF Policy, Message, Question, PolicyMessage
    <3> QED BY <2>1, <3>1, <3>3
  <2>2. CASE apps' = apps /\ SendToConnman(m.value, <<NoAnswer(m)>>)
    <3>1. PICK x : x = NoAnswer(m)
      OBVIOUS
    <3>2. x \in PolicyMessage /\ x.value = NULL /\ x.owner = m.owner
      BY <1>1, <3>1 DEF NoAnswer, Message, Question, PolicyMessage, Missing
    <3> QED BY <2>2, <3>1, <3>2
  <2> QED BY <2>1, <2>2 DEF user_cb
<1>3. <<x>> \in Seq(ForConnman)
  BY DEF ForConnman
<1>4. PICK c : c = m.value
  OBVIOUS
<1>5. SendToConnman(c, <<x>>)
  BY <1>2, <1>4
<1>6. PICK s : /\ to_connman' = to_connman \o s /\ s \in Seq(ForConnman)
               /\ s = IF connman = c THEN <<x>> ELSE <<>>
  BY <1>3, <1>5, SendSends
<1>7. Step(0, s, 0, <<>>) /\ QueueTypes'
  BY <1>1, <1>6, SendsToConnman
<1>8. c \in Process
  BY <1>1, <1>4 DEF Question
<1>9. ClientTypes' /\ FaultTypes'
  BY <1>1, PoldTypes DEF ClientTypes, FaultTypes, client
<1>10. ManagerTypes'
  BY <1>1, <1>2, <1>4, <1>8, PoldTypes DEF ManagerTypes
<1>11. connman = 0 => to_connman' = to_connman
  <2>1. connman = 0 => s = <<>>
    BY <1>6, <1>8, NullApart
  <2> QED BY <1>6, <2>1, Queues
<1>12. Typed'
  BY <1>1, <1>7, <1>9, <1>10, <1>11, PoldStep
<1> QED BY <1>1, <1>2, <1>4, <1>6, <1>7, <1>12 DEF Theirs

(* New policies: the agents told, and the applications this ConnMan is told. *)
Tells(S, s) ==
  /\ S \subseteq apps /\ \A a \in S : a[1] \in agents
  /\ connman = 0 => s = <<>>
  /\ \A i \in DOMAIN s : \E o \in App : <<connman, o>> \in S /\ s[i] = Update(o)
  /\ connman # 0 => \A o \in App : <<connman, o>> \in S => \E i \in DOMAIN s : s[i] = Update(o)
  /\ faults' = IF S = apps THEN faults ELSE faults \cup {"orphaned"}

(* New policies are told to agents.                                          *)
LEMMA AgentsTold ==
  ASSUME Typed, update_policies_cb
  PROVE  /\ Typed' /\ Theirs /\ pold # 0 /\ policies' = policies + 1 /\ document' \in [App -> Document]
         /\ UNCHANGED <<client, agents, apps, asked, to_pold>>
         /\ \E S, s : Step(0, s, 0, <<>>) /\ Tells(S, s)
<1>1. /\ pold # 0 /\ policies < MaxPolicies /\ policies' = policies + 1 /\ document' \in [App -> Document]
      /\ UNCHANGED <<lives, plugin, sessions, client, agents, apps, asked, to_pold>>
  BY DEF update_policies_cb
<1>2. PICK told : told = {a \in apps : a[1] \in agents}
  OBVIOUS
<1>3. PICK S : /\ S \in IF told = apps THEN {apps} ELSE SUBSET told
               /\ SendToConnman(connman, SetToSeq({Update(a[2]) : a \in {b \in S : b[1] = connman}}))
               /\ faults' = IF S = apps THEN faults ELSE faults \cup {"orphaned"}
  BY <1>2 DEF update_policies_cb
<1>4. S \subseteq apps /\ (\A a \in S : a[1] \in agents) /\ apps \subseteq Process \X App
  BY <1>2, <1>3, PoldTypes DEF ManagerTypes
<1>4a. PICK W, f : W = {o \in App : <<connman, o>> \in S} /\ f = [o \in App |-> Update(o)]
  OBVIOUS
<1>4b. PICK T : T = {f[o] : o \in W}
  OBVIOUS
<1>5. /\ W = {o \in App : <<connman, o>> \in S} /\ f = [o \in App |-> Update(o)]
      /\ T = {f[o] : o \in W}
  BY <1>4a, <1>4b
<1>6. T = {Update(a[2]) : a \in {b \in S : b[1] = connman}}
  <2>1. \A o \in W : o \in App /\ <<connman, o>> \in {b \in S : b[1] = connman} /\ <<connman, o>>[2] = o
    BY <1>5
  <2>2. \A a \in {b \in S : b[1] = connman} : a[2] \in W /\ a = <<connman, a[2]>>
    BY <1>4, <1>5
  <2> QED BY <1>5, <2>1, <2>2
<1>7. pold \in Nat /\ policies' \in Nat /\ policies' \in 1 .. MaxPolicies
  <2>1. pold \in Process /\ policies \in 1 .. MaxPolicies
    BY <1>1, PoldTypes DEF ManagerTypes
  <2> QED BY <1>1, <2>1, NullApart DEF Process
<1>8. T \subseteq UpdateMessage
  <2>1. \A o \in App : Update(o) \in UpdateMessage
    BY <1>1, <1>7 DEF Update, Message, UpdateMessage, Config, PolicyFrom, Owner
  <2> QED BY <1>5, <2>1
<1>9. IsFiniteSet(T)
  <2>1. W \in SUBSET Owner
    BY <1>5 DEF Owner
  <2>2. IsFiniteSet(W)
    BY <2>1, FiniteOwners
  <2> QED BY ONLY <1>4b, <2>2, FiniteImage
<1>10. PICK r : r = SetToSeq(T)
  OBVIOUS
<1>11. r \in Seq(T) /\ \A x \in T : \E i \in DOMAIN r : r[i] = x
  BY <1>9, <1>10, Listing
<1>12. r \in Seq(ForConnman)
  <2>1. T \subseteq ForConnman
    BY <1>8 DEF ForConnman
  <2> QED BY <1>11, <2>1, SeqMonotonic
<1>13. PICK c : c = connman
  OBVIOUS
<1>14. SendToConnman(c, r)
  BY <1>3, <1>6, <1>10, <1>13
<1>15. PICK s : to_connman' = to_connman \o s /\ s \in Seq(ForConnman) /\ s = IF connman = 0 THEN <<>> ELSE r
  <2>1. CASE connman = 0
    <3>1. T = {}
      <4>1. \A o \in App : <<connman, o>> \notin S
        BY <1>4, <2>1, NullApart
      <4> QED BY <1>5, <4>1
    <3>2. r = <<>>
      BY <1>11, <3>1, EmptySeq, ElementOfSeq, LenProperties
    <3> QED BY <1>12, <1>13, <1>14, <2>1, <3>2 DEF SendToConnman
  <2>2. CASE connman # 0
    BY <1>12, <1>13, <1>14, <2>2 DEF SendToConnman
  <2> QED BY <2>1, <2>2
<1>16. Step(0, s, 0, <<>>) /\ QueueTypes'
  BY <1>1, <1>15, SendsToConnman
<1>17. Tells(S, s)
  <2>1. ASSUME NEW i \in DOMAIN s PROVE \E o \in App : <<connman, o>> \in S /\ s[i] = Update(o)
    <3>1. CASE connman = 0
      BY <1>15, <3>1, NoElements
    <3>2. CASE connman # 0
      <4>1. s[i] \in T
        BY <1>11, <1>15, <3>2, ElementOfSeq
      <4> QED BY <1>5, <4>1
    <3> QED BY <3>1, <3>2
  <2>2. ASSUME connman # 0, NEW o \in App, <<connman, o>> \in S PROVE \E i \in DOMAIN s : s[i] = Update(o)
    <3>1. Update(o) \in T
      BY <1>5, <2>2
    <3> QED BY <1>11, <1>15, <2>2, <3>1
  <2>3. connman = 0 => s = <<>>
    BY <1>15
  <2> QED BY <1>3, <1>4, <2>1, <2>2, <2>3 DEF Tells
<1>18. ClientTypes' /\ FaultTypes' /\ ManagerTypes'
  BY <1>1, <1>3, <1>7, PoldTypes DEF ClientTypes, FaultTypes, ManagerTypes, client
<1>19. connman = 0 => to_connman' = to_connman
  BY <1>15, Queues
<1>20. Typed'
  BY <1>1, <1>16, <1>18, <1>19, PoldStep
<1> QED BY <1>1, <1>16, <1>17, <1>20 DEF Theirs
-----------------------------------------------------------------------------
(* News without content.                                                     *)
Plain0(type) == Message(type, NULL, 0, NULL)

(* They are messages.                                                        *)
LEMMA Notices ==
  /\ Plain0("appeared") \in ForConnman /\ Plain0("disappeared") \in ForConnman
  /\ Plain0("OwnerLeft") \in ForConnman /\ Plain0("Registered") \in ForConnman
  /\ Plain0("appeared") \in ForPold /\ Plain0("disappeared") \in ForPold
BY DEF Plain0, Message, ForConnman, ForPold, Plain, Registered

(* One message sent.                                                         *)
LEMMA Appends ==
  ASSUME Typed
  PROVE  /\ \A m \in ForConnman : Append(to_connman, m) = to_connman \o <<m>>
         /\ \A m \in ForPold : Append(to_pold, m) = to_pold \o <<m>>
BY AppendIsConcat DEF Typed, QueueTypes

(* The answers to GetNameOwner.                                              *)
LEMMA OwnerFound ==
  ASSUME Typed, NEW p \in starting, GetNameOwner(p)
  PROVE  /\ Typed' /\ starting' = starting \ {p}
         /\ UNCHANGED <<pold, connman, started, plugin, sessions, client, manager, faults>>
         /\ p = "pold" => pold # 0
         /\ p = "connman" => connman # 0
         /\ \E s, t : /\ Step(0, s, 0, t)
                      /\ s = IF p = "connman" /\ pold # 0 THEN <<Plain0("appeared")>> ELSE <<>>
                      /\ t = IF p = "pold" /\ connman # 0 THEN <<Plain0("appeared")>> ELSE <<>>
<1>1. /\ starting' = starting \ {p}
      /\ UNCHANGED <<pold, connman, started, plugin, sessions, client, manager, faults>>
      /\ p = "pold" => pold # 0
      /\ p = "connman" => connman # 0
  BY DEF GetNameOwner, Typed, PoldOff, ConnmanOff
<1>2. PICK s : s = IF p = "connman" /\ pold # 0 THEN <<Plain0("appeared")>> ELSE <<>>
  OBVIOUS
<1>3. PICK t : t = IF p = "pold" /\ connman # 0 THEN <<Plain0("appeared")>> ELSE <<>>
  OBVIOUS
<1>4. s \in Seq(ForConnman) /\ t \in Seq(ForPold)
  <2>1. \A S : <<>> \in Seq(S) /\ \A x \in S : <<x>> \in Seq(S)
    OBVIOUS
  <2> QED BY <1>2, <1>3, <2>1, Notices
<1>5. to_connman' = to_connman \o s /\ to_pold' = to_pold \o t
  <2>1. to_connman \o <<>> = to_connman /\ to_pold \o <<>> = to_pold
    BY Queues
  <2>2. to_connman' = to_connman \o s
    <3>1. Append(to_connman, Plain0("appeared")) = to_connman \o <<Plain0("appeared")>>
      BY Appends, Notices
    <3> QED BY <1>2, <2>1, <3>1 DEF GetNameOwner, Plain0
  <2>3. to_pold' = to_pold \o t
    <3>1. Append(to_pold, Plain0("appeared")) = to_pold \o <<Plain0("appeared")>>
      BY Appends, Notices
    <3> QED BY <1>3, <2>1, <3>1 DEF GetNameOwner, Plain0
  <2> QED BY <2>2, <2>3
<1>6. Step(0, s, 0, t) /\ QueueTypes'
  BY <1>4, <1>5, Sends
<1>7. LifeTypes' /\ PluginTypes' /\ SessionTypes' /\ ClientTypes' /\ ManagerTypes' /\ FaultTypes' /\ Requests'
  <2>1. UNCHANGED <<agent_registered, interface, register_call, session_hash, session, created, caller, silent,
                    session_path, create_calls, calls, agents, apps, asked, policies, document, faults>>
    BY <1>1 DEF plugin, sessions, client, manager
  <2> QED BY <1>1, <2>1 DEF Typed, LifeTypes, PluginTypes, SessionTypes, ClientTypes, ManagerTypes,
                            FaultTypes, Requests, Starts
<1>8. PoldOff' /\ ConnmanOff'
  <2>1. pold = 0 => to_pold' = to_pold
    BY <1>1 DEF GetNameOwner
  <2>2. connman = 0 => to_connman' = to_connman
    BY <1>1 DEF GetNameOwner
  <2> QED BY <1>1, <2>1, <2>2 DEF Typed, PoldOff, ConnmanOff, plugin, sessions, client, manager
<1> QED BY <1>1, <1>2, <1>3, <1>6, <1>7, <1>8 DEF Typed

(* pold starts, and ConnMan is told if it runs.                              *)
LEMMA PoldRuns ==
  ASSUME Typed, PoldStarts
  PROVE  /\ Typed' /\ pold = 0 /\ pold' = started.pold + 1 /\ pold' # 0
         /\ started' = [started EXCEPT !.pold = pold'] /\ started'.pold = pold'
         /\ started'.connman = started.connman /\ started.pold \in Nat
         /\ starting' = starting \cup {"pold"}
         /\ UNCHANGED <<connman, plugin, sessions, client, manager, to_pold, faults>>
         /\ \E s : /\ Step(0, s, 0, <<>>)
                   /\ s = IF connman = 0 THEN <<>> ELSE <<Plain0("appeared")>>
<1>1. /\ pold = 0 /\ MayStart /\ pold' = started.pold + 1 /\ started' = [started EXCEPT !.pold = pold']
      /\ starting' = starting \cup {"pold"}
      /\ to_connman' = IF connman = 0 THEN <<>> ELSE to_connman \o <<Plain0("appeared")>>
      /\ UNCHANGED <<connman, plugin, sessions, client, manager, to_pold, faults>>
  BY DEF PoldStarts, ToConnman, Plain0
<1>2. /\ started \in [pold : Nat, connman : Nat] /\ MaxStarts \in Nat /\ Starts < MaxStarts
      /\ connman \in 0 .. MaxStarts /\ connman \in {0, started.connman}
  BY <1>1, NullApart DEF Typed, LifeTypes, MayStart
<1>3. /\ pold' # 0 /\ started.pold \in Nat /\ started.connman \in Nat
      /\ started'.pold = pold' /\ started'.connman = started.connman
      /\ started' \in [pold : Nat, connman : Nat] /\ Starts' <= MaxStarts /\ pold' \in 0 .. MaxStarts
  BY <1>1, <1>2 DEF Starts
<1>4. PICK s : s = IF connman = 0 THEN <<>> ELSE <<Plain0("appeared")>>
  OBVIOUS
<1>5. s \in Seq(ForConnman)
  <2>1. \A S : <<>> \in Seq(S) /\ \A x \in S : <<x>> \in Seq(S)
    OBVIOUS
  <2> QED BY <1>4, <2>1, Notices
<1>6. to_connman' = to_connman \o s
  <2>1. connman = 0 => to_connman = <<>>
    BY DEF Typed, ConnmanOff
  <2>2. to_connman \o <<>> = to_connman
    BY Queues
  <2> QED BY <1>1, <1>4, <2>1, <2>2
<1>7. Step(0, s, 0, <<>>) /\ QueueTypes'
  BY <1>1, <1>5, <1>6, SendsToConnman
<1>8. UNCHANGED <<agent_registered, interface, register_call, session_hash, session, created, caller, silent,
                  session_path, create_calls, calls, agents, apps, asked, policies, document, faults>>
  BY <1>1 DEF plugin, sessions, client, manager
<1>9. LifeTypes'
  BY <1>1, <1>2, <1>3 DEF LifeTypes
<1>10. PluginTypes' /\ SessionTypes' /\ ClientTypes' /\ ManagerTypes' /\ FaultTypes' /\ Requests'
  BY <1>8 DEF Typed, PluginTypes, SessionTypes, ClientTypes, ManagerTypes, FaultTypes, Requests
<1>11. PoldOff' /\ ConnmanOff'
  BY <1>1, <1>3, <1>8 DEF Typed, PoldOff, ConnmanOff
<1>12. Typed'
  BY <1>7, <1>9, <1>10, <1>11 DEF Typed
<1> QED BY <1>1, <1>3, <1>4, <1>7, <1>12

(* ConnMan starts, and pold is told if it runs.                              *)
LEMMA ConnmanRuns ==
  ASSUME Typed, ConnmanStarts
  PROVE  /\ Typed' /\ connman = 0 /\ connman' = started.connman + 1 /\ connman' # 0
         /\ started' = [started EXCEPT !.connman = connman'] /\ started'.connman = connman'
         /\ started'.pold = started.pold /\ started.connman \in Nat
         /\ starting' = starting \cup {"connman"}
         /\ UNCHANGED <<pold, plugin, sessions, client, manager, to_connman, faults>>
         /\ \E t : /\ Step(0, <<>>, 0, t)
                   /\ t = IF pold = 0 THEN <<>> ELSE <<Plain0("appeared")>>
<1>1. /\ connman = 0 /\ MayStart /\ connman' = started.connman + 1
      /\ started' = [started EXCEPT !.connman = connman']
      /\ starting' = starting \cup {"connman"}
      /\ to_pold' = IF pold = 0 THEN <<>> ELSE to_pold \o <<Plain0("appeared")>>
      /\ UNCHANGED <<pold, plugin, sessions, client, manager, to_connman, faults>>
  <2>1. Append(to_pold, Plain0("appeared")) = to_pold \o <<Plain0("appeared")>>
    BY Appends, Notices
  <2> QED BY <2>1 DEF ConnmanStarts, Plain0
<1>2. /\ started \in [pold : Nat, connman : Nat] /\ MaxStarts \in Nat /\ Starts < MaxStarts
      /\ pold \in 0 .. MaxStarts /\ pold \in {0, started.pold}
  BY <1>1, NullApart DEF Typed, LifeTypes, MayStart
<1>3. /\ connman' # 0 /\ started.pold \in Nat /\ started.connman \in Nat
      /\ started'.connman = connman' /\ started'.pold = started.pold
      /\ started' \in [pold : Nat, connman : Nat] /\ Starts' <= MaxStarts /\ connman' \in 0 .. MaxStarts
  BY <1>1, <1>2 DEF Starts
<1>4. PICK t : t = IF pold = 0 THEN <<>> ELSE <<Plain0("appeared")>>
  OBVIOUS
<1>5. t \in Seq(ForPold)
  <2>1. \A S : <<>> \in Seq(S) /\ \A x \in S : <<x>> \in Seq(S)
    OBVIOUS
  <2> QED BY <1>4, <2>1, Notices
<1>6. to_pold' = to_pold \o t
  <2>1. pold = 0 => to_pold = <<>>
    BY DEF Typed, PoldOff
  <2>2. to_pold \o <<>> = to_pold
    BY Queues
  <2> QED BY <1>1, <1>4, <2>1, <2>2
<1>7. Step(0, <<>>, 0, t) /\ QueueTypes'
  BY <1>1, <1>5, <1>6, SendsToPold
<1>8. UNCHANGED <<agent_registered, interface, register_call, session_hash, session, created, caller, silent,
                  session_path, create_calls, calls, agents, apps, asked, policies, document, faults>>
  BY <1>1 DEF plugin, sessions, client, manager
<1>9. LifeTypes'
  BY <1>1, <1>2, <1>3 DEF LifeTypes
<1>10. PluginTypes' /\ SessionTypes' /\ ClientTypes' /\ ManagerTypes' /\ FaultTypes' /\ Requests'
  BY <1>8 DEF Typed, PluginTypes, SessionTypes, ClientTypes, ManagerTypes, FaultTypes, Requests
<1>11. PoldOff' /\ ConnmanOff'
  BY <1>1, <1>3, <1>8 DEF Typed, PoldOff, ConnmanOff
<1>12. Typed'
  BY <1>7, <1>9, <1>10, <1>11 DEF Typed
<1> QED BY <1>1, <1>3, <1>4, <1>7, <1>12
-----------------------------------------------------------------------------
(* What ConnMan hears when pold stops: first of pold, then of its own calls. *)
Farewell(s) ==
  /\ 1 \in DOMAIN s /\ s[1] = Plain0("disappeared")
  /\ 2 \in DOMAIN s /\ s[2] = Plain0("OwnerLeft")
  /\ register_call => 3 \in DOMAIN s /\ s[3] = Plain0("Registered")
  /\ \A i \in DOMAIN s : i > 2 => (register_call /\ i = 3) \/ (s[i] \in PolicyMessage /\ s[i].value = NULL)

(* The messages PoldStops sends are of that kind.                            *)
LEMMA Farewells ==
  ASSUME Typed, NEW s, s = <<Plain0("disappeared"), Plain0("OwnerLeft")>> \o LostCalls
  PROVE  s \in Seq(ForConnman) /\ Farewell(s)
<1>1. PICK W, f : /\ W = {x \in Owner : session_hash[x] # NULL /\ session_hash[x].pending # 0}
                  /\ f = [o \in Owner |-> Message("Policy", o, session_hash[o].pending, NULL)]
  OBVIOUS
<1>2. PICK T : T = {f[o] : o \in W}
  OBVIOUS
<1>3. T = {Message("Policy", o, session_hash[o].pending, NULL) : o \in W}
  BY <1>1, <1>2
<1>4. IsFiniteSet(T)
  <2>1. W \in SUBSET Owner
    BY <1>1
  <2>2. IsFiniteSet(W)
    BY <2>1, FiniteOwners
  <2> QED BY ONLY <1>2, <2>2, FiniteImage
<1>5. \A m \in T : m \in PolicyMessage /\ m.value = NULL
  <2>1. \A o \in W : o \in Owner /\ session_hash[o].pending \in Nat \ {0}
    BY <1>1 DEF Typed, SessionTypes, PolicyConfig
  <2> QED BY <1>3, <2>1 DEF Message, PolicyMessage, Missing
<1>6. PICK p : p = SetToSeq(T)
  OBVIOUS
<1>7. p \in Seq(T)
  BY <1>4, <1>6, Listing
<1>8. p \in Seq(ForConnman) /\ \A i \in DOMAIN p : p[i] \in PolicyMessage /\ p[i].value = NULL
  <2>1. T \subseteq ForConnman
    BY <1>5 DEF ForConnman
  <2> QED BY <1>5, <1>7, <2>1, SeqMonotonic, ElementOfSeq
<1>9. PICK r : r = IF register_call THEN <<Plain0("Registered")>> ELSE <<>>
  OBVIOUS
<1>10. r \in Seq(ForConnman) /\ Len(r) = (IF register_call THEN 1 ELSE 0) /\ (register_call => r[1] = Plain0("Registered"))
  BY <1>9, Notices
<1>11. PICK l : l = LostCalls
  OBVIOUS
<1>12. l = r \o p
  BY <1>1, <1>3, <1>6, <1>9, <1>11 DEF LostCalls, Plain0
<1>13. l \in Seq(ForConnman) /\ Moved(r, l, 0, p)
  BY <1>8, <1>10, <1>12, Added
<1>14. PICK h : h = <<Plain0("disappeared"), Plain0("OwnerLeft")>>
  OBVIOUS
<1>15. h \in Seq(ForConnman) /\ Len(h) = 2 /\ h[1] = Plain0("disappeared") /\ h[2] = Plain0("OwnerLeft")
  BY <1>14, Notices
<1>16. s = h \o l
  BY <1>11, <1>14
<1>17. s \in Seq(ForConnman) /\ Moved(h, s, 0, l)
  BY <1>13, <1>15, <1>16, Added
<1>18. /\ DOMAIN s = 1 .. 2 + Len(l) /\ Len(l) \in Nat
       /\ \A i \in 1 .. 2 : s[i] = h[i]
       /\ \A i \in 1 .. Len(l) : s[2 + i] = l[i]
  BY <1>15, <1>17 DEF Moved
<1>19. /\ Len(l) = Len(r) + Len(p) /\ Len(p) \in Nat /\ DOMAIN p = 1 .. Len(p)
       /\ \A i \in 1 .. Len(r) : l[i] = r[i]
       /\ \A i \in 1 .. Len(p) : l[Len(r) + i] = p[i]
  BY <1>10, <1>13 DEF Moved
<1>20. 1 \in DOMAIN s /\ 2 \in DOMAIN s /\ s[1] = Plain0("disappeared") /\ s[2] = Plain0("OwnerLeft")
  BY <1>15, <1>18
<1>21. register_call => 3 \in DOMAIN s /\ s[3] = Plain0("Registered")
  <2>1. ASSUME register_call PROVE 3 \in DOMAIN s /\ s[3] = Plain0("Registered")
    <3>1. Len(r) = 1 /\ l[1] = Plain0("Registered") /\ Len(l) >= 1
      BY <1>10, <1>19, <2>1
    <3> QED BY <1>18, <3>1
  <2> QED BY <2>1
<1>22. ASSUME NEW i \in DOMAIN s, i > 2, ~(register_call /\ i = 3)
       PROVE  s[i] \in PolicyMessage /\ s[i].value = NULL
  <2>1. i - 2 \in 1 .. Len(l) /\ 2 + (i - 2) = i /\ s[i] = l[i - 2]
    BY <1>18, <1>22
  <2>2. i - 2 - Len(r) \in 1 .. Len(p) /\ Len(r) + (i - 2 - Len(r)) = i - 2
    <3>1. CASE register_call
      BY <1>10, <1>19, <1>22, <2>1, <3>1
    <3>2. CASE ~register_call
      BY <1>10, <1>19, <1>22, <2>1, <3>2
    <3> QED BY <3>1, <3>2
  <2>3. s[i] = p[i - 2 - Len(r)]
    BY <1>19, <2>1, <2>2
  <2> QED BY <1>8, <1>19, <2>2, <2>3
<1> QED BY <1>17, <1>20, <1>21, <1>22 DEF Farewell

(* pold stops: its state is gone, and ConnMan is told.                       *)
LEMMA PoldLeaves ==
  ASSUME Typed, PoldStops
  PROVE  /\ Typed' /\ pold # 0 /\ pold' = 0 /\ starting' = starting \ {"pold"} /\ to_pold' = <<>>
         /\ session_path' = NULL /\ create_calls' = {} /\ agents' = {} /\ apps' = {} /\ asked' = {}
         /\ UNCHANGED <<connman, started, plugin, sessions, calls, policies, document, faults>>
         /\ connman # 0 => \E s : s \in Seq(ForConnman) /\ Moved(to_connman, to_connman', 0, s) /\ Farewell(s)
<1>1. /\ pold # 0 /\ pold' = 0 /\ starting' = starting \ {"pold"} /\ to_pold' = <<>>
      /\ session_path' = NULL /\ create_calls' = {} /\ agents' = {} /\ apps' = {} /\ asked' = {}
      /\ UNCHANGED <<connman, started, plugin, sessions, calls, policies, document, faults>>
      /\ ToConnman(<<Plain0("disappeared"), Plain0("OwnerLeft")>> \o LostCalls)
  BY DEF PoldStops, Plain0
<1>2. PICK s : s = <<Plain0("disappeared"), Plain0("OwnerLeft")>> \o LostCalls
  OBVIOUS
<1>3. s \in Seq(ForConnman) /\ Farewell(s)
  BY <1>2, Farewells
<1>4. /\ connman = 0 => to_connman' = <<>>
      /\ connman # 0 => to_connman' = to_connman \o s
  BY <1>1, <1>2 DEF ToConnman
<1>5. ASSUME connman # 0 PROVE to_connman' \in Seq(ForConnman) /\ Moved(to_connman, to_connman', 0, s)
  <2>1. PICK q, q1 : q = to_connman /\ q1 = to_connman'
    OBVIOUS
  <2>2. q \in Seq(ForConnman) /\ q1 = q \o s
    BY <1>4, <1>5, <2>1, Queues
  <2> QED BY <1>3, <2>1, <2>2, Added
<1>6. QueueTypes'
  <2>1. to_pold' \in Seq(ForPold) /\ \A S : <<>> \in Seq(S)
    BY <1>1, EmptySeq
  <2> QED BY <1>4, <1>5, <2>1 DEF QueueTypes
<1>7. UNCHANGED <<agent_registered, interface, register_call, session_hash, session, created, caller, silent>>
  BY <1>1 DEF plugin, sessions
<1>8. LifeTypes' /\ PluginTypes' /\ SessionTypes' /\ FaultTypes' /\ Requests'
  BY <1>1, <1>7, NullApart DEF Typed, LifeTypes, PluginTypes, SessionTypes, FaultTypes, Requests, Starts
<1>9. ClientTypes' /\ ManagerTypes'
  BY <1>1, NullApart DEF Typed, ClientTypes, ManagerTypes
<1>10. PoldOff' /\ ConnmanOff'
  BY <1>1, <1>4, <1>7 DEF Typed, PoldOff, ConnmanOff
<1> QED BY <1>1, <1>3, <1>5, <1>6, <1>8, <1>9, <1>10 DEF Typed

(* What pold hears when ConnMan stops.                                       *)
Leaving(t) ==
  /\ \A i \in DOMAIN t :
       \/ t[i] \in {Message("UnregisterAgent", NULL, 0, connman), Plain0("disappeared"),
                    Message("AgentLeft", NULL, 0, connman)}
       \/ \E n \in create_calls : t[i] = Message("Session", Self, n, NULL)
  /\ \A n \in create_calls : \E i \in DOMAIN t : t[i] = Message("Session", Self, n, NULL)

(* The messages ConnmanStops sends are of that kind.                         *)
LEMMA Leavings ==
  ASSUME Typed, connman # 0, pold # 0,
         NEW last \in {<<>>, agent_unregister},
         to_pold' = to_pold \o last \o <<Plain0("disappeared")>>
                    \o (IF connman \in agents THEN <<Message("AgentLeft", NULL, 0, connman)>> ELSE <<>>)
                    \o SetToSeq({Message("Session", Self, n, NULL) : n \in create_calls})
  PROVE  \E t : /\ to_pold' = to_pold \o t /\ t \in Seq(ForPold) /\ Leaving(t)
<1>1. PICK f : f = [n \in Nat |-> Message("Session", Self, n, NULL)]
  OBVIOUS
<1>2. PICK T : T = {f[n] : n \in create_calls}
  OBVIOUS
<1>3. create_calls \subseteq Nat /\ IsFiniteSet(create_calls)
  <2>1. calls \in Nat /\ create_calls \subseteq 1 .. calls
    BY DEF Typed, ClientTypes
  <2>2. IsFiniteSet(1 .. calls)
    BY <2>1, FS_Interval
  <2>3. IsFiniteSet(create_calls)
    BY <2>1, <2>2, FS_Subset
  <2> QED BY <2>1, <2>3
<1>4. T = {Message("Session", Self, n, NULL) : n \in create_calls}
  BY <1>1, <1>2, <1>3
<1>5. IsFiniteSet(T)
  <2>1. PICK W : W = create_calls
    OBVIOUS
  <2> QED BY <1>2, <1>3, <2>1, FiniteImage
<1>6. T \subseteq ForPold
  BY <1>3, <1>4 DEF Message, SessionMessage, ForPold
<1>7. PICK c : c = SetToSeq(T)
  OBVIOUS
<1>8. c \in Seq(T) /\ \A x \in T : \E i \in DOMAIN c : c[i] = x
  BY <1>5, <1>7, Listing
<1>9. c \in Seq(ForPold) /\ \A i \in DOMAIN c : \E n \in create_calls : c[i] = Message("Session", Self, n, NULL)
  BY <1>4, <1>6, <1>8, SeqMonotonic, ElementOfSeq
<1>10. PICK u, l : /\ u = Message("UnregisterAgent", NULL, 0, connman) /\ l = Message("AgentLeft", NULL, 0, connman)
  OBVIOUS
<1>11. u \in ForPold /\ l \in ForPold
  BY <1>10, PoldTypes DEF Message, ForPold, Agents
<1>12. \A S : <<>> \in Seq(S) /\ \A x \in S : <<x>> \in Seq(S) /\ DOMAIN <<x>> = {1} /\ <<x>>[1] = x
  OBVIOUS
<1>13. PICK a : a = last
  OBVIOUS
<1>14. a \in Seq(ForPold) /\ \A i \in DOMAIN a : a[i] = u
  <2>1. a = <<>> \/ a = <<u>>
    BY <1>10, <1>13 DEF agent_unregister
  <2> QED BY <1>11, <1>12, <2>1, NoElements
<1>15. PICK d : d = <<Plain0("disappeared")>>
  OBVIOUS
<1>16. d \in Seq(ForPold) /\ \A i \in DOMAIN d : d[i] = Plain0("disappeared")
  BY <1>12, <1>15, Notices
<1>17. PICK b : b = IF connman \in agents THEN <<l>> ELSE <<>>
  OBVIOUS
<1>18. b \in Seq(ForPold) /\ \A i \in DOMAIN b : b[i] = l
  BY <1>11, <1>12, <1>17, NoElements
<1>19. PICK p, p1 : p = to_pold /\ p1 = to_pold'
  OBVIOUS
<1>20. p \in Seq(ForPold) /\ p1 = (((p \o a) \o d) \o b) \o c
  BY <1>4, <1>7, <1>10, <1>13, <1>15, <1>17, <1>19, Queues
<1>21. PICK bc : bc = b \o c
  OBVIOUS
<1>22. PICK dbc : dbc = d \o bc
  OBVIOUS
<1>23. PICK t : t = a \o dbc
  OBVIOUS
<1>24. bc \in Seq(ForPold) /\ Moved(b, bc, 0, c)
  BY ONLY <1>9, <1>18, <1>21, Added
<1>25. dbc \in Seq(ForPold) /\ Moved(d, dbc, 0, bc)
  BY ONLY <1>16, <1>22, <1>24, Added
<1>26. t \in Seq(ForPold) /\ Moved(a, t, 0, dbc)
  BY ONLY <1>14, <1>23, <1>25, Added
<1>27. p1 = p \o t
  <2>1. PICK pa : pa = p \o a
    OBVIOUS
  <2>2. PICK pad : pad = pa \o d
    OBVIOUS
  <2>3. pa \in Seq(ForPold)
    BY ONLY <1>14, <1>20, <2>1, ConcatProperties
  <2>4. pad \in Seq(ForPold)
    BY ONLY <1>16, <2>2, <2>3, ConcatProperties
  <2>5. (pad \o b) \o c = pad \o bc
    BY ONLY <1>9, <1>18, <1>21, <2>4, ConcatAssociative
  <2>6. (pa \o d) \o bc = pa \o dbc
    BY ONLY <1>16, <1>22, <1>24, <2>3, ConcatAssociative
  <2>7. (p \o a) \o dbc = p \o t
    BY ONLY <1>14, <1>20, <1>23, <1>25, ConcatAssociative
  <2> QED BY <1>20, <2>1, <2>2, <2>5, <2>6, <2>7
<1>28. \A i \in DOMAIN bc : bc[i] = l \/ \E n \in create_calls : bc[i] = Message("Session", Self, n, NULL)
  <2>1. \A i \in DOMAIN bc : \/ i + 0 \in DOMAIN b /\ bc[i] = b[i + 0]
                             \/ i + 0 > Len(b) /\ i + 0 - Len(b) \in DOMAIN c /\ bc[i] = c[i + 0 - Len(b)]
    BY ONLY <1>24, Places
  <2> QED BY <1>9, <1>18, <2>1
<1>29. \A i \in DOMAIN dbc : \/ dbc[i] = l \/ dbc[i] = Plain0("disappeared")
                             \/ \E n \in create_calls : dbc[i] = Message("Session", Self, n, NULL)
  <2>1. \A i \in DOMAIN dbc : \/ i + 0 \in DOMAIN d /\ dbc[i] = d[i + 0]
                              \/ i + 0 > Len(d) /\ i + 0 - Len(d) \in DOMAIN bc /\ dbc[i] = bc[i + 0 - Len(d)]
    BY ONLY <1>25, Places
  <2> QED BY <1>16, <1>28, <2>1
<1>30. \A i \in DOMAIN t : \/ t[i] = l \/ t[i] = Plain0("disappeared") \/ t[i] = u
                           \/ \E n \in create_calls : t[i] = Message("Session", Self, n, NULL)
  <2>1. \A i \in DOMAIN t : \/ i + 0 \in DOMAIN a /\ t[i] = a[i + 0]
                            \/ i + 0 > Len(a) /\ i + 0 - Len(a) \in DOMAIN dbc /\ t[i] = dbc[i + 0 - Len(a)]
    BY ONLY <1>26, Places
  <2> QED BY <1>14, <1>29, <2>1
<1>31. ASSUME NEW n \in create_calls PROVE \E i \in DOMAIN t : t[i] = Message("Session", Self, n, NULL)
  <2>1. PICK x : x = Message("Session", Self, n, NULL)
    OBVIOUS
  <2>2. \E i \in DOMAIN c : c[i] = x
    BY <1>4, <1>8, <2>1
  <2>3. \E i \in DOMAIN bc : bc[i] = x
    BY <1>24, <2>2, Places
  <2>4. \E i \in DOMAIN dbc : dbc[i] = x
    BY <1>25, <2>3, Places
  <2>5. \E i \in DOMAIN t : t[i] = x
    BY <1>26, <2>4, Places
  <2> QED BY <2>1, <2>5
<1>32. Leaving(t)
  BY <1>10, <1>30, <1>31 DEF Leaving
<1> QED BY <1>19, <1>26, <1>27, <1>32

(* ConnMan stops: the plugin's state is gone, and pold is told.              *)
LEMMA ConnmanLeaves ==
  ASSUME Typed, ConnmanStops
  PROVE  /\ Typed' /\ connman # 0 /\ connman' = 0 /\ starting' = starting \ {"connman"} /\ to_connman' = <<>>
         /\ PluginReset /\ UNCHANGED <<pold, started, client, manager, faults>>
         /\ pold # 0 => \E t : t \in Seq(ForPold) /\ Moved(to_pold, to_pold', 0, t) /\ Leaving(t)
<1>1. /\ connman # 0 /\ connman' = 0 /\ starting' = starting \ {"connman"} /\ to_connman' = <<>>
      /\ PluginReset /\ UNCHANGED <<pold, started, client, manager, faults>>
      /\ pold = 0 => to_pold' = <<>>
  BY DEF ConnmanStops
<1>2. ASSUME pold # 0
      PROVE  \E t : to_pold' \in Seq(ForPold) /\ t \in Seq(ForPold) /\ Moved(to_pold, to_pold', 0, t) /\ Leaving(t)
  <2>1. PICK last \in {<<>>, agent_unregister} :
           to_pold' = to_pold \o last \o <<Plain0("disappeared")>>
                      \o (IF connman \in agents THEN <<Message("AgentLeft", NULL, 0, connman)>> ELSE <<>>)
                      \o SetToSeq({Message("Session", Self, n, NULL) : n \in create_calls})
    BY <1>2 DEF ConnmanStops, Plain0
  <2>2. PICK t : /\ to_pold' = to_pold \o t /\ t \in Seq(ForPold) /\ Leaving(t)
    BY <1>1, <1>2, <2>1, Leavings
  <2>3. PICK p, p1 : p = to_pold /\ p1 = to_pold'
    OBVIOUS
  <2>4. p \in Seq(ForPold) /\ p1 = p \o t
    BY <2>2, <2>3, Queues
  <2> QED BY <2>2, <2>3, <2>4, Added
<1>3. QueueTypes'
  <2>1. \A S : <<>> \in Seq(S)
    BY EmptySeq
  <2> QED BY <1>1, <1>2, <2>1 DEF QueueTypes
<1>4. UNCHANGED <<session_path, create_calls, calls, agents, apps, asked, policies, document>>
  BY <1>1 DEF client, manager
<1>5. LifeTypes' /\ ClientTypes' /\ ManagerTypes' /\ FaultTypes'
  BY <1>1, <1>4, NullApart DEF Typed, LifeTypes, ClientTypes, ManagerTypes, FaultTypes, Starts
<1>6. PluginTypes' /\ SessionTypes' /\ Requests'
  BY <1>1, PluginAssumption DEF PluginReset, PluginTypes, SessionTypes, Requests, Owner
<1>7. PoldOff' /\ ConnmanOff'
  BY <1>1, <1>4 DEF Typed, PoldOff, ConnmanOff, PluginReset
<1> QED BY <1>1, <1>2, <1>3, <1>5, <1>6, <1>7 DEF Typed

(* Typed is inductive.                                                       *)
LEMMA TypedInit == Init => Typed
<1> SUFFICES ASSUME Init PROVE Typed
  OBVIOUS
<1>1. MaxStarts \in Nat \ {0} /\ MaxPolicies \in Nat \ {0}
  BY NullApart
<1>2. LifeTypes /\ PluginTypes
  <2>1. /\ pold = 0 /\ connman = 0 /\ started = [pold |-> 0, connman |-> 0]
        /\ agent_registered = FALSE /\ interface = FALSE /\ register_call = FALSE
    BY DEF Init, PluginInit
  <2>2. started \in [pold : Nat, connman : Nat] /\ started.pold = 0 /\ started.connman = 0
    BY <2>1
  <2>3. Starts = 0 /\ 0 \in 0 .. MaxStarts /\ 0 <= MaxStarts
    BY <1>1, <2>2 DEF Starts
  <2>4. LifeTypes
    BY <2>1, <2>2, <2>3 DEF LifeTypes
  <2>5. PluginTypes
    BY <2>1 DEF PluginTypes
  <2> QED BY <2>4, <2>5
<1>3. SessionTypes /\ Requests
  <2>1. /\ session_hash = [o \in Owner |-> NULL] /\ session = [o \in Owner |-> "none"]
        /\ created = [o \in Owner |-> 0] /\ caller = [process |-> 0, number |-> 0]
        /\ silent = {}
    BY DEF Init, PluginInit
  <2>2. Self \in Owner
    BY DEF Owner
  <2> QED BY <2>1, <2>2 DEF SessionTypes, Requests
<1>4. ClientTypes /\ ManagerTypes /\ FaultTypes
  BY <1>1 DEF Init, ClientTypes, ManagerTypes, FaultTypes
<1>5. QueueTypes
  BY EmptySeq DEF Init, QueueTypes
<1>6. PoldOff /\ ConnmanOff
  BY DEF Init, PluginInit, PoldOff, ConnmanOff
<1> QED BY <1>2, <1>3, <1>4, <1>5, <1>6 DEF Typed

(* Every step keeps the types.                                               *)
LEMMA TypedKept == Typed /\ [Next]_vars => Typed'
<1> SUFFICES ASSUME Typed, [Next]_vars PROVE Typed'
  OBVIOUS
<1>1. ASSUME Ours, Connman PROVE Typed'
  BY <1>1, SessionForPold, OwnerGone, PolicyAnswered, PoldSeen, PoldGone, RegistrationAnswered,
     PolicyReplaced, SessionReleased, RegistrationLate, SessionGone, PolicyLate
     DEF Connman, PluginHandles
<1>2. ASSUME NEW o \in App, policy_pold_create(o), Ours PROVE Typed'
  BY <1>2, SessionMade
<1>3. CASE PoldHandles
  BY <1>3, ConnmanSeen, ConnmanGone, PathAnswered, PathReleased, AgentRegistered, AgentForgotten, PolicyAsked
     DEF PoldHandles
<1>4. CASE CreateTimeout \/ update_policies_cb
  BY <1>4, PathLate, AgentsTold
<1>5. ASSUME NEW m \in asked, user_cb(m) PROVE Typed'
  BY <1>5, PolicySent
<1>6. ASSUME NEW p \in starting, GetNameOwner(p) PROVE Typed'
  BY <1>6, OwnerFound
<1>7. CASE PoldStarts \/ PoldStops \/ ConnmanStarts \/ ConnmanStops
  BY <1>7, PoldRuns, PoldLeaves, ConnmanRuns, ConnmanLeaves
<1>8. CASE UNCHANGED vars
  BY <1>8 DEF vars, lives, plugin, sessions, client, manager, Typed, LifeTypes, PluginTypes, SessionTypes,
     ClientTypes, ManagerTypes, FaultTypes, QueueTypes, Requests, PoldOff, ConnmanOff, Starts
<1> QED BY <1>1, <1>2, <1>3, <1>4, <1>5, <1>6, <1>7, <1>8 DEF Next, Ours

(* So they hold throughout.                                                  *)
LEMMA AlwaysTyped == Spec => []Typed
BY TypedInit, TypedKept, PTL DEF Spec

(* All variables keep their types, and a session has a policy_config exactly *)
(* while ConnMan knows of it - whatever the order of the calls, their        *)
(* answers, the timers, and the starts and stops of the two.                 *)
THEOREM TypesHold == Spec => []TypeOK
<1>1. Typed => TypeOK
  BY DEF Typed, LifeTypes, PluginTypes, SessionTypes, ClientTypes, ManagerTypes, FaultTypes, TypeOK, Process
<1> QED BY <1>1, AlwaysTyped, PTL
-----------------------------------------------------------------------------
(* Processes and calls are numbered: none is mentioned before it is made.    *)
ToPoldKnown(m) ==
  /\ m.type \in {"RegisterAgent", "UnregisterAgent", "AgentLeft"} => m.value <= started.connman
  /\ m.type = "Session" => m.number <= calls
ToConnmanKnown(m) == m.type = "CreateSession" => m.value <= started.pold /\ m.number <= calls
Numbers ==
  /\ \A c \in agents : c <= started.connman
  /\ caller.process <= started.pold /\ caller.number <= calls
  /\ \A i \in DOMAIN to_connman : ToConnmanKnown(to_connman[i])
  /\ \A i \in DOMAIN to_pold : ToPoldKnown(to_pold[i])

(* A queue moved holds old messages and new ones.                            *)
LEMMA Contents ==
  ASSUME NEW q, NEW p, NEW d, NEW s, Moved(q, p, d, s)
  PROVE  \A i \in DOMAIN p : (\E j \in DOMAIN q : p[i] = q[j]) \/ (\E k \in DOMAIN s : p[i] = s[k])
BY Places

(* What is numbered is a number.                                             *)
LEMMA Counted ==
  ASSUME Typed
  PROVE  /\ started.pold \in Nat /\ started.connman \in Nat /\ calls \in Nat /\ caller.process \in Nat
         /\ caller.number \in Nat /\ pold \in Nat /\ connman \in Nat
         /\ pold <= started.pold /\ connman <= started.connman
         /\ \A c \in agents : c \in Nat
         /\ \A i \in DOMAIN to_connman : to_connman[i].type = "CreateSession" =>
              to_connman[i].value \in Nat /\ to_connman[i].number \in Nat
         /\ \A i \in DOMAIN to_pold :
              /\ to_pold[i].type \in {"RegisterAgent", "UnregisterAgent", "AgentLeft"} => to_pold[i].value \in Nat
              /\ to_pold[i].type = "Session" => to_pold[i].number \in Nat
<1>1. MaxStarts \in Nat
  BY NullApart
<1>2. /\ started.pold \in Nat /\ started.connman \in Nat /\ calls \in Nat /\ caller.process \in Nat
      /\ caller.number \in Nat /\ pold \in Nat /\ connman \in Nat
      /\ pold <= started.pold /\ connman <= started.connman
      /\ \A c \in agents : c \in Nat
  BY <1>1 DEF Typed, LifeTypes, SessionTypes, ClientTypes, ManagerTypes, Process
<1>3. ASSUME NEW i \in DOMAIN to_connman, to_connman[i].type = "CreateSession"
      PROVE  to_connman[i].value \in Nat /\ to_connman[i].number \in Nat
  <2>1. to_connman[i] \in ForConnman
    BY <1>3, Queues
  <2>2. to_connman[i] \in CreateMessage
    BY <1>3, <2>1 DEF ForConnman, Plain, Registered, PolicyMessage, UpdateMessage
  <2> QED BY <1>1, <2>2 DEF CreateMessage, Process
<1>4. ASSUME NEW i \in DOMAIN to_pold
      PROVE  /\ to_pold[i].type \in {"RegisterAgent", "UnregisterAgent", "AgentLeft"} => to_pold[i].value \in Nat
             /\ to_pold[i].type = "Session" => to_pold[i].number \in Nat
  <2>1. to_pold[i] \in ForPold
    BY <1>4, Queues
  <2> QED BY <1>1, <2>1 DEF ForPold, Plain, Agents, Question, SessionMessage, ReleaseMessage, Process
<1> QED BY <1>2, <1>3, <1>4

(* A step that mentions only what is numbered already.                       *)
LEMMA NumbersKeep ==
  ASSUME Typed, Numbers, NEW d, NEW s, NEW e, NEW t, Step(d, s, e, t),
         started.pold <= started'.pold, started.connman <= started'.connman, calls <= calls',
         started'.pold \in Nat, started'.connman \in Nat, calls' \in Nat,
         \A i \in DOMAIN s : ToConnmanKnown(s[i])', \A i \in DOMAIN t : ToPoldKnown(t[i])',
         \A c \in agents' \ agents : c <= started'.connman,
         (caller'.process <= started'.pold /\ caller'.number <= calls') \/ caller' = caller
  PROVE  Numbers'
<1>1. ASSUME NEW i \in DOMAIN to_connman' PROVE ToConnmanKnown(to_connman[i])'
  <2>1. (\E j \in DOMAIN to_connman : to_connman'[i] = to_connman[j]) \/ (\E k \in DOMAIN s : to_connman'[i] = s[k])
    BY Contents DEF Step
  <2>2. ASSUME NEW j \in DOMAIN to_connman, to_connman'[i] = to_connman[j] PROVE ToConnmanKnown(to_connman[i])'
    BY <2>2, Counted DEF ToConnmanKnown, Numbers
  <2>3. ASSUME NEW k \in DOMAIN s, to_connman'[i] = s[k] PROVE ToConnmanKnown(to_connman[i])'
    BY <2>3 DEF ToConnmanKnown
  <2> QED BY <2>1, <2>2, <2>3
<1>2. ASSUME NEW i \in DOMAIN to_pold' PROVE ToPoldKnown(to_pold[i])'
  <2>1. (\E j \in DOMAIN to_pold : to_pold'[i] = to_pold[j]) \/ (\E k \in DOMAIN t : to_pold'[i] = t[k])
    BY Contents DEF Step
  <2>2. ASSUME NEW j \in DOMAIN to_pold, to_pold'[i] = to_pold[j] PROVE ToPoldKnown(to_pold[i])'
    BY <2>2, Counted DEF ToPoldKnown, Numbers
  <2>3. ASSUME NEW k \in DOMAIN t, to_pold'[i] = t[k] PROVE ToPoldKnown(to_pold[i])'
    BY <2>3 DEF ToPoldKnown
  <2> QED BY <2>1, <2>2, <2>3
<1>3. \A c \in agents' : c <= started'.connman
  BY Counted DEF Numbers
<1>4. caller'.process <= started'.pold /\ caller'.number <= calls'
  BY Counted DEF Numbers
<1> QED BY <1>1, <1>2, <1>3, <1>4 DEF Numbers

(* A step of the plugin that leaves pold's record of the caller alone.       *)
LEMMA NumbersAtPlugin ==
  ASSUME Typed, Numbers, NEW d, NEW s, NEW e, NEW t, Step(d, s, e, t),
         UNCHANGED <<started, calls, agents, caller>>,
         \A i \in DOMAIN s : ToConnmanKnown(s[i]), \A i \in DOMAIN t : ToPoldKnown(t[i])
  PROVE  Numbers'
<1>1. \A i \in DOMAIN s : ToConnmanKnown(s[i])'
  BY DEF ToConnmanKnown
<1>2. \A i \in DOMAIN t : ToPoldKnown(t[i])'
  BY DEF ToPoldKnown
<1>3. /\ started.pold <= started'.pold /\ started.connman <= started'.connman /\ calls <= calls'
      /\ started'.pold \in Nat /\ started'.connman \in Nat /\ calls' \in Nat
  BY Counted
<1> QED BY <1>1, <1>2, <1>3, NumbersKeep

(* Requests and their refusals mention no call of pold's.                    *)
LEMMA Unnumbered ==
  /\ \A s : Refusals(s) => \A i \in DOMAIN s : ToConnmanKnown(s[i])
  /\ \A t : Questions(t) => \A i \in DOMAIN t : ToPoldKnown(t[i])
  /\ \A i \in DOMAIN <<>> : ToConnmanKnown(<<>>[i]) /\ ToPoldKnown(<<>>[i])
<1>1. \A m \in PolicyMessage : ToConnmanKnown(m)
  BY DEF PolicyMessage, ToConnmanKnown
<1>2. \A m \in Question : ToPoldKnown(m)
  BY DEF Question, ToPoldKnown
<1> QED BY <1>1, <1>2 DEF Refusals, Questions

(* Numbers is inductive.                                                     *)
LEMMA NumbersInit == Init => Numbers
BY DEF Init, PluginInit, Numbers

(* ConnMan's steps.                                                          *)
LEMMA NumbersAtConnman ==
  ASSUME Typed, Numbers, Connman \/ \E o \in App : policy_pold_create(o), Ours
  PROVE  Numbers'
<1> USE Unnumbered
<1>0. UNCHANGED <<started, calls, agents>>
  BY DEF Ours, client, manager
<1>1. ASSUME NEW o \in App, policy_pold_create(o) PROVE Numbers'
  <2>1. caller' = caller
    BY <1>1 DEF policy_pold_create
  <2>2. PICK s, t : Step(0, s, 0, t) /\ Refusals(s) /\ Questions(t)
    BY <1>1, SessionMade
  <2> QED BY <1>0, <2>1, <2>2, NumbersAtPlugin
<1>2. CASE CreateSession
  <2>1. PICK s, t :
           /\ Step(1, s, 0, t) /\ to_connman # <<>> /\ to_connman[1] \in CreateMessage
           /\ \/ /\ NewSession(Self) /\ Refusals(s) /\ Questions(t)
                 /\ caller' = [process |-> to_connman[1].value, number |-> to_connman[1].number]
              \/ /\ session[Self] # "none" /\ UNCHANGED sessions /\ s = <<>>
                 /\ t = IF pold = to_connman[1].value
                        THEN <<Message("Session", Self, to_connman[1].number, NULL)>> ELSE <<>>
    BY <1>2, SessionForPold
  <2>2. 1 \in DOMAIN to_connman /\ to_connman[1].type = "CreateSession"
    BY <2>1, Queues DEF CreateMessage
  <2>3. to_connman[1].value <= started.pold /\ to_connman[1].number <= calls
    BY <2>2 DEF Numbers, ToConnmanKnown
  <2>4. CASE /\ NewSession(Self) /\ Refusals(s) /\ Questions(t)
             /\ caller' = [process |-> to_connman[1].value, number |-> to_connman[1].number]
    <3>1. caller'.process <= started'.pold /\ caller'.number <= calls'
      BY <1>0, <2>3, <2>4
    <3>2. \A i \in DOMAIN s : ToConnmanKnown(s[i])'
      BY <1>0, <2>4 DEF ToConnmanKnown
    <3>3. \A i \in DOMAIN t : ToPoldKnown(t[i])'
      BY <1>0, <2>4 DEF ToPoldKnown
    <3>4. /\ started.pold <= started'.pold /\ started.connman <= started'.connman /\ calls <= calls'
          /\ started'.pold \in Nat /\ started'.connman \in Nat /\ calls' \in Nat
      BY <1>0, Counted
    <3> QED BY <1>0, <2>1, <3>1, <3>2, <3>3, <3>4, NumbersKeep
  <2>5. CASE /\ UNCHANGED sessions /\ s = <<>>
             /\ t = IF pold = to_connman[1].value
                    THEN <<Message("Session", Self, to_connman[1].number, NULL)>> ELSE <<>>
    <3>1. \A i \in DOMAIN t : ToPoldKnown(t[i])
      BY <2>3, <2>5 DEF Message, ToPoldKnown
    <3> QED BY <1>0, <2>1, <2>5, <3>1, NumbersAtPlugin DEF sessions
  <2> QED BY <2>1, <2>4, <2>5
<1>3. CASE OwnerLeft
  BY <1>0, <1>3, OwnerGone, NumbersAtPlugin
<1>4. CASE get_policy_cb \/ \E o \in Owner : PolicyTimeout(o)
  <2>1. PICK d, t : /\ Step(d, <<>>, 0, t) /\ caller' = caller
                    /\ \/ t = <<>>
                       \/ \E v : t = <<Message("Session", Self, caller.number, v)>>
    <3>1. CASE get_policy_cb
      <4>1. PICK t : /\ Step(1, <<>>, 0, t)
                     /\ \/ Finished(to_connman[1].owner, Accepted(to_connman[1].value), t)
                        \/ t = <<>>
        BY <3>1, PolicyAnswered
      <4>2. t = <<>> \/ \E v : t = <<Message("Session", Self, caller.number, v)>>
        BY <4>1 DEF Finished
      <4> QED BY <3>1, <4>1, <4>2, PolicyAnswered
    <3>2. CASE \E o \in Owner : PolicyTimeout(o)
      <4>1. PICK o \in Owner : PolicyTimeout(o)
        BY <3>2
      <4>2. caller' = caller /\ \E t : Step(0, <<>>, 0, t) /\ Finished(o, NULL, t)
        BY <4>1, PolicyLate
      <4>3. PICK t : Step(0, <<>>, 0, t) /\ Finished(o, NULL, t)
        BY <4>2
      <4>4. t = <<>> \/ \E v : t = <<Message("Session", Self, caller.number, v)>>
        BY <4>3 DEF Finished
      <4> QED BY <4>2, <4>3, <4>4
    <3> QED BY <1>4, <3>1, <3>2
  <2>2. \A i \in DOMAIN t : ToPoldKnown(t[i])
    BY <2>1 DEF Message, ToPoldKnown, Numbers
  <2> QED BY <1>0, <2>1, <2>2, NumbersAtPlugin
<1>5. CASE pold_appeared
  <2>1. PICK s, t : /\ Step(1, s, 0, t)
                    /\ \/ Registers(s, t)
                       \/ UNCHANGED plugin /\ s = <<>> /\ t = <<>>
    BY <1>5, PoldSeen
  <2>2. caller' = caller
    BY <1>5, PoldSeen DEF sessions
  <2>3. \A i \in DOMAIN s : ToConnmanKnown(s[i])
    BY <2>1 DEF Registers, Message, ToConnmanKnown
  <2>4. \A i \in DOMAIN t : ToPoldKnown(t[i])
    BY <2>1, Counted DEF Registers, Message, ToPoldKnown
  <2> QED BY <1>0, <2>1, <2>2, <2>3, <2>4, NumbersAtPlugin
<1>6. CASE pold_disappeared
  BY <1>0, <1>6, PoldGone, NumbersAtPlugin DEF sessions
<1>7. CASE agent_register_cb
  <2>1. PICK s, t : /\ Step(1, s, 0, t)
                    /\ AnswerIgnored(s, t) \/ AnswerRefused(s, t) \/ AnswerTaken(s, t)
    BY <1>7, RegistrationAnswered
  <2>2. caller' = caller
    BY <1>7, RegistrationAnswered
  <2>3. (\A i \in DOMAIN s : ToConnmanKnown(s[i])) /\ (\A i \in DOMAIN t : ToPoldKnown(t[i]))
    BY <2>1 DEF AnswerIgnored, AnswerRefused, AnswerTaken
  <2> QED BY <1>0, <2>1, <2>2, <2>3, NumbersAtPlugin
<1>8. CASE agent_update
  BY <1>0, <1>8, PolicyReplaced, NumbersAtPlugin
<1>9. CASE ReleaseSession
  <2>1. PICK t : /\ Step(0, <<>>, 0, t)
                 /\ t = IF pold = caller.process THEN <<Message("Release", Self, 0, NULL)>> ELSE <<>>
    BY <1>9, SessionReleased
  <2>2. \A i \in DOMAIN t : ToPoldKnown(t[i])
    BY <2>1 DEF Message, ToPoldKnown
  <2> QED BY <1>0, <1>9, <2>1, <2>2, SessionReleased, NumbersAtPlugin
<1>10. CASE RegisterTimeout
  BY <1>0, <1>10, RegistrationLate, NumbersAtPlugin DEF sessions
<1>11. ASSUME NEW o \in Owner, policy_pold_destroy(o) PROVE Numbers'
  BY <1>0, <1>11, SessionGone, NumbersAtPlugin
<1> QED BY <1>1, <1>2, <1>3, <1>4, <1>5, <1>6, <1>7, <1>8, <1>9, <1>10, <1>11 DEF Connman, PluginHandles

(* pold's steps.                                                             *)
LEMMA NumbersAtPold ==
  ASSUME Typed, Numbers,
         PoldHandles \/ CreateTimeout \/ update_policies_cb \/ \E m \in asked : user_cb(m)
  PROVE  Numbers'
<1> USE Unnumbered
<1>1. Theirs => UNCHANGED <<started, caller, pold, connman>>
  BY DEF Theirs, lives, sessions
<1>2. CASE connman_appeared
  <2>1. PICK s, t : /\ Step(0, s, 1, t)
                    /\ IF connman = 0
                       THEN s = <<>> /\ t = <<Message("Session", Self, calls + 1, NULL)>>
                       ELSE s = <<Message("CreateSession", Self, calls + 1, pold)>> /\ t = <<>>
    BY <1>2, ConnmanSeen
  <2>2. Theirs /\ UNCHANGED agents /\ calls' = calls + 1
    BY <1>2, ConnmanSeen DEF manager
  <2>3. /\ started.pold <= started'.pold /\ started.connman <= started'.connman /\ calls <= calls'
        /\ started'.pold \in Nat /\ started'.connman \in Nat /\ calls' \in Nat
    BY <1>1, <2>2, Counted
  <2>4. \A i \in DOMAIN s : ToConnmanKnown(s[i])'
    BY <1>1, <2>1, <2>2, <2>3, Counted DEF ToConnmanKnown, Message
  <2>5. \A i \in DOMAIN t : ToPoldKnown(t[i])'
    BY <1>1, <2>1, <2>2, <2>3 DEF ToPoldKnown, Message
  <2> QED BY <1>1, <2>1, <2>2, <2>3, <2>4, <2>5, NumbersKeep
<1>3. CASE connman_disappeared
  BY <1>1, <1>3, ConnmanGone, NumbersAtPlugin DEF client, manager
<1>4. CASE create_session_cb
  BY <1>1, <1>4, PathAnswered, NumbersAtPlugin DEF manager
<1>5. CASE release
  BY <1>1, <1>5, PathReleased, NumbersAtPlugin DEF manager
<1>6. CASE CreateTimeout
  BY <1>1, <1>6, PathLate, NumbersAtPlugin DEF manager
<1>7. CASE pold_manager_register_agent
  <2>1. PICK s : /\ Step(0, s, 1, <<>>)
                 /\ s = IF connman = to_pold[1].value THEN <<Message("Registered", NULL, 0, pold)>> ELSE <<>>
    BY <1>7, AgentRegistered
  <2>2. /\ Theirs /\ calls' = calls /\ agents' = agents \cup {to_pold[1].value}
        /\ to_pold[1] \in Agents({"RegisterAgent"}) /\ to_pold # <<>>
    BY <1>7, AgentRegistered DEF client
  <2>3. to_pold[1].value <= started.connman
    <3>1. 1 \in DOMAIN to_pold /\ to_pold[1].type = "RegisterAgent"
      BY <2>2, Queues DEF Agents
    <3> QED BY <3>1 DEF Numbers, ToPoldKnown
  <2>4. \A i \in DOMAIN s : ToConnmanKnown(s[i])'
    BY <2>1 DEF ToConnmanKnown, Message
  <2>5. \A i \in DOMAIN <<>> : ToPoldKnown(<<>>[i])'
    OBVIOUS
  <2>6. /\ started.pold <= started'.pold /\ started.connman <= started'.connman /\ calls <= calls'
        /\ started'.pold \in Nat /\ started'.connman \in Nat /\ calls' \in Nat
    BY <1>1, <2>2, Counted
  <2>7. \A c \in agents' \ agents : c <= started'.connman
    BY <1>1, <2>2, <2>3
  <2> QED BY <1>1, <2>1, <2>2, <2>4, <2>5, <2>6, <2>7, NumbersKeep
<1>8. CASE pold_manager_unregister_agent \/ owner_disconnect
  <2>1. /\ Theirs /\ calls' = calls /\ agents' \subseteq agents /\ Step(0, <<>>, 1, <<>>)
    BY <1>8, AgentForgotten DEF Forget, client
  <2>2. (\A i \in DOMAIN <<>> : ToPoldKnown(<<>>[i])') /\ (\A i \in DOMAIN <<>> : ToConnmanKnown(<<>>[i])')
    OBVIOUS
  <2>3. /\ started.pold <= started'.pold /\ started.connman <= started'.connman /\ calls <= calls'
        /\ started'.pold \in Nat /\ started'.connman \in Nat /\ calls' \in Nat
    BY <1>1, <2>1, Counted
  <2> QED BY <1>1, <2>1, <2>2, <2>3, NumbersKeep
<1>9. CASE pold_manager_get_policy_config
  <2>1. Theirs /\ UNCHANGED <<calls, agents>>
    BY <1>9, PolicyAsked DEF client
  <2>2. PICK s : /\ Step(0, s, 1, <<>>)
                 /\ s = <<>> \/ \E x \in PolicyMessage : s = IF connman = to_pold[1].value THEN <<x>> ELSE <<>>
    BY <1>9, PolicyAsked
  <2>3. \A i \in DOMAIN s : ToConnmanKnown(s[i])
    BY <2>2 DEF PolicyMessage, ToConnmanKnown
  <2> QED BY <1>1, <2>1, <2>2, <2>3, NumbersAtPlugin
<1>10. ASSUME NEW m \in asked, user_cb(m) PROVE Numbers'
  <2>1. PICK s, x : /\ Step(0, s, 0, <<>>) /\ x \in PolicyMessage
                    /\ s = IF connman = m.value THEN <<x>> ELSE <<>>
    BY <1>10, PolicySent
  <2>2. Theirs /\ UNCHANGED <<calls, agents>>
    BY <1>10, PolicySent DEF client
  <2>3. \A i \in DOMAIN s : ToConnmanKnown(s[i])
    BY <2>1 DEF PolicyMessage, ToConnmanKnown
  <2> QED BY <1>1, <2>1, <2>2, <2>3, NumbersAtPlugin
<1>11. CASE update_policies_cb
  <2>1. PICK S, s : Step(0, s, 0, <<>>) /\ Tells(S, s)
    BY <1>11, AgentsTold
  <2>2. Theirs /\ UNCHANGED <<calls, agents>>
    BY <1>11, AgentsTold DEF client
  <2>3. \A i \in DOMAIN s : ToConnmanKnown(s[i])
    <3>1. \A o : Update(o).type = "Update"
      BY DEF Update, Message
    <3>2. \A i \in DOMAIN s : s[i].type = "Update"
      BY <2>1, <3>1 DEF Tells
    <3> QED BY <3>2 DEF ToConnmanKnown
  <2> QED BY <1>1, <2>1, <2>2, <2>3, NumbersAtPlugin
<1> QED BY <1>2, <1>3, <1>4, <1>5, <1>6, <1>7, <1>8, <1>9, <1>10, <1>11 DEF PoldHandles

(* Starts and stops.                                                         *)
LEMMA NumbersAtLives ==
  ASSUME Typed, Numbers,
         (\E p \in starting : GetNameOwner(p)) \/ PoldStarts \/ PoldStops \/ ConnmanStarts \/ ConnmanStops
  PROVE  Numbers'
<1> USE Unnumbered
<1>0. \A type \in {"appeared", "disappeared"} : ToConnmanKnown(Plain0(type)) /\ ToPoldKnown(Plain0(type))
  BY DEF Plain0, Message, ToConnmanKnown, ToPoldKnown
<1>1. ASSUME NEW p \in starting, GetNameOwner(p) PROVE Numbers'
  <2>1. PICK s, t : /\ Step(0, s, 0, t)
                    /\ s = IF p = "connman" /\ pold # 0 THEN <<Plain0("appeared")>> ELSE <<>>
                    /\ t = IF p = "pold" /\ connman # 0 THEN <<Plain0("appeared")>> ELSE <<>>
    BY <1>1, OwnerFound
  <2>2. UNCHANGED <<started, calls, agents, caller>>
    BY <1>1, OwnerFound DEF client, manager, sessions
  <2>3. (\A i \in DOMAIN s : ToConnmanKnown(s[i])) /\ (\A i \in DOMAIN t : ToPoldKnown(t[i]))
    BY <1>0, <2>1
  <2> QED BY <2>1, <2>2, <2>3, NumbersAtPlugin
<1>2. CASE PoldStarts \/ ConnmanStarts
  <2>1. PICK s, t : Step(0, s, 0, t) /\ s \in {<<>>, <<Plain0("appeared")>>} /\ t \in {<<>>, <<Plain0("appeared")>>}
    BY <1>2, PoldRuns, ConnmanRuns
  <2>2. /\ UNCHANGED <<calls, agents, caller>>
        /\ started.pold <= started'.pold /\ started.connman <= started'.connman
        /\ started'.pold \in Nat /\ started'.connman \in Nat
    BY <1>2, PoldRuns, ConnmanRuns, Counted DEF client, manager, sessions
  <2>3. (\A i \in DOMAIN s : ToConnmanKnown(s[i])') /\ (\A i \in DOMAIN t : ToPoldKnown(t[i])')
    BY <2>1 DEF Plain0, Message, ToConnmanKnown, ToPoldKnown
  <2> QED BY <2>1, <2>2, <2>3, Counted, NumbersKeep
<1>3. CASE PoldStops
  <2>1. /\ UNCHANGED <<started, calls, caller>> /\ agents' = {} /\ to_pold' = <<>> /\ UNCHANGED connman
        /\ connman # 0 => \E s : s \in Seq(ForConnman) /\ Moved(to_connman, to_connman', 0, s) /\ Farewell(s)
    BY <1>3, PoldLeaves DEF sessions
  <2>2. connman = 0 => to_connman' = <<>>
    BY <1>3, <2>1, PoldLeaves DEF Typed, ConnmanOff
  <2>3. ASSUME NEW i \in DOMAIN to_connman' PROVE ToConnmanKnown(to_connman[i])'
    <3>1. CASE connman = 0
      BY <2>2, <3>1
    <3>2. CASE connman # 0
      <4>1. PICK s : s \in Seq(ForConnman) /\ Moved(to_connman, to_connman', 0, s) /\ Farewell(s)
        BY <2>1, <3>2
      <4>2. ASSUME NEW k \in DOMAIN s PROVE s[k].type # "CreateSession"
        <5>1. k \in Nat /\ k # 0
          BY <4>1, LenProperties
        <5>2. k = 1 \/ k = 2 \/ k > 2
          BY <5>1
        <5> QED BY <4>1, <5>2 DEF Farewell, Plain0, Message, PolicyMessage
      <4>3. (\E j \in DOMAIN to_connman : to_connman'[i] = to_connman[j]) \/ (\E k \in DOMAIN s : to_connman'[i] = s[k])
        BY <4>1, Contents
      <4> QED BY <2>1, <4>2, <4>3 DEF ToConnmanKnown, Numbers
    <3> QED BY <3>1, <3>2
  <2> QED BY <2>1, <2>3 DEF Numbers
<1>4. CASE ConnmanStops
  <2>1. /\ UNCHANGED <<started, calls, agents, pold>> /\ caller' = [process |-> 0, number |-> 0] /\ to_connman' = <<>>
        /\ pold # 0 => \E t : t \in Seq(ForPold) /\ Moved(to_pold, to_pold', 0, t) /\ Leaving(t)
    BY <1>4, ConnmanLeaves DEF PluginReset, client, manager
  <2>2. pold = 0 => to_pold' = <<>>
    BY <1>4, <2>1, ConnmanLeaves DEF Typed, PoldOff
  <2>3. ASSUME NEW i \in DOMAIN to_pold' PROVE ToPoldKnown(to_pold[i])'
    <3>1. CASE pold = 0
      BY <2>2, <3>1
    <3>2. CASE pold # 0
      <4>1. PICK t : t \in Seq(ForPold) /\ Moved(to_pold, to_pold', 0, t) /\ Leaving(t)
        BY <2>1, <3>2
      <4>2. ASSUME NEW k \in DOMAIN t PROVE ToPoldKnown(t[k])
        <5>1. \A n \in create_calls : n <= calls
          BY Counted DEF Typed, ClientTypes
        <5> QED BY <4>1, <5>1, Counted DEF Leaving, Plain0, Message, ToPoldKnown
      <4>3. (\E j \in DOMAIN to_pold : to_pold'[i] = to_pold[j]) \/ (\E k \in DOMAIN t : to_pold'[i] = t[k])
        BY <4>1, Contents
      <4> QED BY <2>1, <4>2, <4>3 DEF ToPoldKnown, Numbers
    <3> QED BY <3>1, <3>2
  <2> QED BY <2>1, <2>3, Counted DEF Numbers
<1> QED BY <1>1, <1>2, <1>3, <1>4

(* All steps.                                                                *)
LEMMA NumbersKept == Typed /\ Numbers /\ [Next]_vars => Numbers'
<1> SUFFICES ASSUME Typed, Numbers, [Next]_vars PROVE Numbers'
  OBVIOUS
<1>1. CASE UNCHANGED vars
  BY <1>1 DEF vars, lives, sessions, client, manager, Numbers, ToConnmanKnown, ToPoldKnown
<1> QED BY <1>1, NumbersAtConnman, NumbersAtPold, NumbersAtLives DEF Next, Ours
-----------------------------------------------------------------------------
(* What a queue holds, by types.                                             *)
Has(q, type) == \E i \in DOMAIN q : q[i].type = type
No(q, lo, hi, types) == \A k \in DOMAIN q : lo < k /\ k < hi => q[k].type \notin types
Without(q, types) == \A i \in DOMAIN q : q[i].type \notin types
Spares(q, d, types) == d = 1 => q[1].type \notin types

(* Behind a disappearance that no appearance follows, an answer is ignored.  *)
Excused(q, i) == \E j \in DOMAIN q : j < i /\ q[j].type = "disappeared" /\ No(q, j, i, {"appeared"})

(* The same, whatever follows; and the answer the plugin will take.          *)
Late(q, i) == \E j \in DOMAIN q : j < i /\ q[j].type = "disappeared"
Answer(q, i) == q[i].type = "Registered" /\ No(q, 0, i, {"Registered", "disappeared"})

OutQueue(q) ==
  \A i \in DOMAIN q : q[i].type = "Registered" => Excused(q, i) \/ No(q, 0, i, {"appeared"})
InQueue(q) == \A i \in DOMAIN q : q[i].type = "Registered" => Excused(q, i)
LateQueue(q) == \A i \in DOMAIN q : q[i].type = "Registered" => Late(q, i)
RestExcused(q, i) == \A k \in DOMAIN q : k > i /\ q[k].type = "Registered" => Excused(q, k)

(* The places in a queue.                                                    *)
LEMMA Indices ==
  ASSUME NEW q, NEW p, NEW d, NEW s, Moved(q, p, d, s)
  PROVE  /\ \A i \in DOMAIN q : i \in Nat /\ i >= 1 /\ i <= Len(q)
         /\ \A i \in DOMAIN p : i \in Nat /\ i >= 1
         /\ \A k \in DOMAIN s : k \in Nat /\ k >= 1
         /\ d \in {0, 1} /\ Len(q) \in Nat
         /\ \A i \in Nat : i >= 1 /\ i <= Len(q) => i \in DOMAIN q
         /\ \A i \in DOMAIN q : d = 1 => 1 \in DOMAIN q
BY DEF Moved

(* What is not between two places is not between them when the queue has     *)
(* moved.                                                                    *)
LEMMA NoFollows ==
  ASSUME NEW q, NEW p, NEW d, NEW s, Moved(q, p, d, s), NEW T, NEW lo \in Nat, NEW hi \in DOMAIN q,
         hi > d, lo >= d, No(q, lo, hi, T)
  PROVE  No(p, lo - d, hi - d, T)
<1> SUFFICES ASSUME NEW k \in DOMAIN p, lo - d < k, k < hi - d PROVE p[k].type \notin T
  BY DEF No
<1>1. k + d \in DOMAIN q /\ p[k] = q[k + d]
  <2>1. k \in Nat /\ d \in {0, 1} /\ hi \in Nat /\ hi <= Len(q) /\ Len(q) \in Nat
    BY Indices
  <2>2. ~(k + d > Len(q))
    BY <2>1
  <2> QED BY <2>2, Places
<1>2. lo < k + d /\ k + d < hi
  <2>1. k \in Nat /\ d \in {0, 1} /\ hi \in Nat
    BY Indices
  <2> QED BY <2>1
<1> QED BY <1>1, <1>2 DEF No

(* The same from the head on.                                                *)
LEMMA NoFrom0 ==
  ASSUME NEW q, NEW p, NEW d, NEW s, Moved(q, p, d, s), NEW T, NEW hi \in DOMAIN q, hi > d, No(q, 0, hi, T)
  PROVE  No(p, 0, hi - d, T)
<1> SUFFICES ASSUME NEW k \in DOMAIN p, 0 < k, k < hi - d PROVE p[k].type \notin T
  BY DEF No
<1>1. k \in Nat /\ d \in {0, 1} /\ hi \in Nat /\ hi <= Len(q) /\ Len(q) \in Nat
  BY Indices
<1>2. k + d \in DOMAIN q /\ p[k] = q[k + d]
  <2>2. ~(k + d > Len(q))
    BY <1>1
  <2> QED BY <2>2, Places
<1>3. 0 < k + d /\ k + d < hi
  BY <1>1
<1> QED BY <1>2, <1>3 DEF No

(* And back, when no such message was handled.                               *)
LEMMA NoBefore ==
  ASSUME NEW q, NEW p, NEW d, NEW s, Moved(q, p, d, s), NEW T, Spares(q, d, T),
         NEW i \in DOMAIN p, i + d \in DOMAIN q, No(p, 0, i, T)
  PROVE  No(q, 0, i + d, T)
<1> SUFFICES ASSUME NEW k \in DOMAIN q, 0 < k, k < i + d PROVE q[k].type \notin T
  BY DEF No
<1>1. k \in Nat /\ d \in {0, 1} /\ i \in Nat
  BY Indices
<1>2. CASE k > d
  <2>1. k - d \in DOMAIN p /\ p[k - d] = q[k]
    BY <1>2, Places
  <2>2. 0 < k - d /\ k - d < i
    BY <1>1, <1>2
  <2> QED BY <2>1, <2>2 DEF No
<1>3. CASE ~(k > d)
  <2>1. k = 1 /\ d = 1
    BY <1>1, <1>3
  <2> QED BY <2>1 DEF Spares
<1> QED BY <1>2, <1>3

(* What is excused stays so, until the disappearance is handled.             *)
LEMMA ExcusedFollows ==
  ASSUME NEW q, NEW p, NEW d, NEW s, Moved(q, p, d, s), NEW i \in DOMAIN q, i > d, Excused(q, i)
  PROVE  \/ Excused(p, i - d)
         \/ d = 1 /\ q[1].type = "disappeared" /\ No(p, 0, i - d, {"appeared"})
<1>1. PICK j \in DOMAIN q : j < i /\ q[j].type = "disappeared" /\ No(q, j, i, {"appeared"})
  BY DEF Excused
<1>2. j \in Nat /\ j >= 1 /\ d \in {0, 1} /\ i \in Nat
  BY Indices
<1>3. No(p, j - d, i - d, {"appeared"})
  BY <1>1, <1>2, NoFollows
<1>4. CASE j > d
  <2>1. j - d \in DOMAIN p /\ p[j - d] = q[j] /\ j - d < i - d
    BY <1>1, <1>2, <1>4, Places
  <2> QED BY <1>1, <1>3, <2>1 DEF Excused
<1>5. CASE ~(j > d)
  <2>1. j = 1 /\ d = 1 /\ j - d = 0
    BY <1>2, <1>5
  <2> QED BY <1>1, <1>3, <2>1
<1> QED BY <1>4, <1>5

(* What is late stays so, until a disappearance is handled.                  *)
LEMMA LateFollows ==
  ASSUME NEW q, NEW p, NEW d, NEW s, Moved(q, p, d, s), NEW i \in DOMAIN q, i > d, Late(q, i),
         Spares(q, d, {"disappeared"})
  PROVE  Late(p, i - d)
<1>1. PICK j \in DOMAIN q : j < i /\ q[j].type = "disappeared"
  BY DEF Late
<1>2. j \in Nat /\ j >= 1 /\ d \in {0, 1} /\ i \in Nat
  BY Indices
<1>3. j > d
  BY <1>1, <1>2 DEF Spares
<1>4. j - d \in DOMAIN p /\ p[j - d] = q[j] /\ j - d < i - d
  BY <1>1, <1>2, <1>3, Places
<1> QED BY <1>1, <1>4 DEF Late

(* Where a message of a type that is not sent comes from.                    *)
LEMMA FromBefore ==
  ASSUME NEW q, NEW p, NEW d, NEW s, Moved(q, p, d, s), NEW T, Without(s, T), NEW i \in DOMAIN p, p[i].type \in T
  PROVE  i + d \in DOMAIN q /\ p[i] = q[i + d] /\ i + d > d /\ (i + d) - d = i
<1>1. i + d \in DOMAIN q /\ p[i] = q[i + d]
  BY Places DEF Without
<1>2. i \in Nat /\ i >= 1 /\ d \in {0, 1}
  BY Indices
<1> QED BY <1>1, <1>2

(* What is said of a queue's answers and carries over.                       *)
QueuesFollow(q, p, d) ==
  /\ OutQueue(q) => OutQueue(p)
  /\ InQueue(q) => InQueue(p)
  /\ LateQueue(q) => LateQueue(p)
  /\ \A i \in DOMAIN q : RestExcused(q, i) => RestExcused(p, i - d)
  /\ ~Has(q, "disappeared") => ~Has(p, "disappeared")

(* It does, when no answer is sent and no disappearance sent or handled.     *)
LEMMA Followed ==
  ASSUME NEW q, NEW p, NEW d, NEW s, Moved(q, p, d, s), Without(s, {"Registered", "disappeared"}),
         Spares(q, d, {"disappeared"})
  PROVE  QueuesFollow(q, p, d)
<1>1. ASSUME NEW i \in DOMAIN p, p[i].type = "Registered"
      PROVE  i + d \in DOMAIN q /\ p[i] = q[i + d] /\ i + d > d /\ (i + d) - d = i
  BY <1>1, FromBefore, {"Registered", "disappeared"} = {"Registered", "disappeared"}
<1>2. ASSUME NEW i \in DOMAIN q, i > d, Excused(q, i) PROVE Excused(p, i - d)
  BY <1>2, ExcusedFollows DEF Spares
<1>3. OutQueue(q) => OutQueue(p)
  <2> SUFFICES ASSUME OutQueue(q), NEW i \in DOMAIN p, p[i].type = "Registered"
               PROVE  Excused(p, i) \/ No(p, 0, i, {"appeared"})
    BY DEF OutQueue
  <2>1. PICK k \in DOMAIN q : k = i + d /\ p[i] = q[k] /\ k > d /\ k - d = i
    BY <1>1
  <2>2. Excused(q, k) \/ No(q, 0, k, {"appeared"})
    BY <2>1 DEF OutQueue
  <2>3. No(q, 0, k, {"appeared"}) => No(p, 0, k - d, {"appeared"})
    BY <2>1, NoFrom0
  <2> QED BY <1>2, <2>1, <2>2, <2>3
<1>4. InQueue(q) => InQueue(p)
  BY <1>1, <1>2 DEF InQueue
<1>5. LateQueue(q) => LateQueue(p)
  <2> SUFFICES ASSUME LateQueue(q), NEW i \in DOMAIN p, p[i].type = "Registered" PROVE Late(p, i)
    BY DEF LateQueue
  <2>1. PICK k \in DOMAIN q : k = i + d /\ p[i] = q[k] /\ k > d /\ k - d = i
    BY <1>1
  <2>2. Late(p, k - d)
    BY <2>1, LateFollows DEF LateQueue
  <2> QED BY <2>1, <2>2
<1>6. ASSUME NEW i \in DOMAIN q, RestExcused(q, i) PROVE RestExcused(p, i - d)
  <2> SUFFICES ASSUME NEW k \in DOMAIN p, k > i - d, p[k].type = "Registered" PROVE Excused(p, k)
    BY DEF RestExcused
  <2>1. k + d \in DOMAIN q /\ p[k] = q[k + d] /\ k + d > d /\ (k + d) - d = k
    BY <1>1
  <2>2. k + d > i
    <3>1. k \in Nat /\ i \in Nat /\ d \in {0, 1}
      BY Indices
    <3> QED BY <3>1
  <2>3. Excused(q, k + d)
    BY <1>6, <2>1, <2>2 DEF RestExcused
  <2> QED BY <1>2, <2>1, <2>3
<1>7. ~Has(q, "disappeared") => ~Has(p, "disappeared")
  <2>1. ASSUME NEW i \in DOMAIN p, p[i].type = "disappeared" PROVE i + d \in DOMAIN q /\ p[i] = q[i + d]
    BY <2>1, FromBefore
  <2> QED BY <2>1 DEF Has
<1> QED BY <1>3, <1>4, <1>5, <1>6, <1>7 DEF QueuesFollow

(* The answer the plugin will take is the one it was.                        *)
LEMMA AnswerBefore ==
  ASSUME NEW q, NEW p, NEW d, NEW s, Moved(q, p, d, s), Without(s, {"Registered", "disappeared"}),
         Spares(q, d, {"Registered", "disappeared"}), NEW i \in DOMAIN p, Answer(p, i)
  PROVE  i + d \in DOMAIN q /\ p[i] = q[i + d] /\ Answer(q, i + d) /\ (i + d) - d = i
<1>1. p[i].type \in {"Registered", "disappeared"}
  BY DEF Answer
<1>2. i + d \in DOMAIN q /\ p[i] = q[i + d] /\ (i + d) - d = i
  BY <1>1, FromBefore
<1>3. No(q, 0, i + d, {"Registered", "disappeared"})
  BY <1>2, NoBefore DEF Answer
<1> QED BY <1>2, <1>3 DEF Answer

(* The answers the plugin still gets find the call they belong to.           *)
Out == ~interface /\ ~agent_registered /\ ~register_call
Asking == interface /\ ~agent_registered /\ register_call
In == interface /\ agent_registered /\ ~register_call
Stuck == interface /\ ~agent_registered /\ ~register_call
Admitted == connman \in agents
Requested == \E i \in DOMAIN to_pold : to_pold[i].type = "RegisterAgent" /\ to_pold[i].value = connman

Awaiting(q, i) == (Admitted => q[i].value # NULL /\ ~Has(q, "disappeared")) /\ RestExcused(q, i)
Orderly ==
  \/ Out /\ ~Admitted /\ ~Requested /\ OutQueue(to_connman)
  \/ In /\ ~Requested /\ (Admitted => ~Has(to_connman, "disappeared")) /\ InQueue(to_connman)
  \/ /\ Asking /\ (Requested => LateQueue(to_connman))
     /\ \A i \in DOMAIN to_connman : Answer(to_connman, i) => ~Requested /\ Awaiting(to_connman, i)
  \/ Stuck

(* A step that concerns neither the agent nor pold's record of it.           *)
LEMMA OrderlyKeeps ==
  ASSUME Orderly, UNCHANGED plugin, Admitted' => Admitted, Requested' => Requested,
         NEW d, NEW s, Moved(to_connman, to_connman', d, s), Without(s, {"Registered", "disappeared"}),
         Spares(to_connman, d, {"disappeared"}), Asking => Spares(to_connman, d, {"Registered"})
  PROVE  Orderly'
<1>1. PICK q, p : q = to_connman /\ p = to_connman'
  OBVIOUS
<1>2. QueuesFollow(q, p, d)
  BY <1>1, Followed
<1>3. (Out' <=> Out) /\ (Asking' <=> Asking) /\ (In' <=> In) /\ (Stuck' <=> Stuck)
  BY DEF plugin, Out, Asking, In, Stuck
<1>4. CASE Out /\ ~Admitted /\ ~Requested /\ OutQueue(q)
  BY <1>1, <1>2, <1>3, <1>4 DEF QueuesFollow, Orderly
<1>5. CASE In /\ ~Requested /\ (Admitted => ~Has(q, "disappeared")) /\ InQueue(q)
  BY <1>1, <1>2, <1>3, <1>5 DEF QueuesFollow, Orderly
<1>6. CASE /\ Asking /\ (Requested => LateQueue(q))
           /\ \A i \in DOMAIN q : Answer(q, i) => ~Requested /\ Awaiting(q, i)
  <2>1. Spares(q, d, {"Registered", "disappeared"})
    BY <1>1, <1>6 DEF Spares
  <2>2. ASSUME NEW i \in DOMAIN p, Answer(p, i) PROVE ~Requested' /\ Awaiting(to_connman, i)'
    <3>1. i + d \in DOMAIN q /\ p[i] = q[i + d] /\ Answer(q, i + d) /\ (i + d) - d = i
      BY <1>1, <2>1, <2>2, AnswerBefore
    <3>2. PICK k \in DOMAIN q : k = i + d /\ p[i] = q[k] /\ Answer(q, k) /\ k - d = i
      BY <3>1
    <3>3. ~Requested /\ Awaiting(q, k)
      BY <1>6, <3>2
    <3>4. RestExcused(p, i) /\ (~Has(q, "disappeared") => ~Has(p, "disappeared"))
      BY <1>2, <3>2, <3>3 DEF QueuesFollow, Awaiting
    <3>5. Admitted' => p[i].value # NULL /\ ~Has(p, "disappeared")
      BY <3>2, <3>3, <3>4 DEF Awaiting
    <3> QED BY <1>1, <3>3, <3>4, <3>5 DEF Awaiting
  <2>3. Requested' => LateQueue(p)
    BY <1>2, <1>6 DEF QueuesFollow
  <2> QED BY <1>1, <1>3, <1>6, <2>2, <2>3 DEF Orderly
<1>7. CASE Stuck
  BY <1>3, <1>7 DEF Orderly
<1> QED BY <1>1, <1>4, <1>5, <1>6, <1>7 DEF Orderly
-----------------------------------------------------------------------------
(* pold gets RegisterAgent from a process once.                              *)
Once ==
  /\ \A i, j \in DOMAIN to_pold :
       to_pold[i].type = "RegisterAgent" /\ to_pold[j].type = "RegisterAgent"
         /\ to_pold[i].value = to_pold[j].value => i = j
  /\ \A i \in DOMAIN to_pold : to_pold[i].type = "RegisterAgent" => to_pold[i].value \notin agents

(* The registration was not given up by its timer, and then it is orderly.   *)
NoTimer == "unregistered" \notin faults
Registration == NoTimer => Once /\ (connman # 0 => Orderly)

(* The plugin hears from the present pold behind place i.                    *)
Coming(q, i) ==
  \E k \in DOMAIN q :
    k > i /\ q[k].type = "appeared" /\ \A j \in DOMAIN q : j > k => q[j].type # "disappeared"
Awaits(i) == "connman" \in starting \/ Coming(to_connman, i)
Answered(i) ==
  /\ Answer(to_connman, i)
  /\ to_connman[i].value # NULL => Admitted
  /\ to_connman[i].value = NULL /\ Both => Awaits(i)
Left ==
  \A i \in DOMAIN to_pold :
    to_pold[i].type \in {"AgentLeft", "UnregisterAgent"} => to_pold[i].value # connman
Progress ==
  /\ Both /\ (Out \/ Has(to_connman, "disappeared")) => Awaits(0)
  /\ In => Admitted \/ Has(to_connman, "disappeared")
  /\ Asking => \/ Requested \/ Has(to_connman, "disappeared")
               \/ \E i \in DOMAIN to_connman : Answered(i)
  /\ Stuck => "abandoned" \in faults
Known == Left /\ (connman # 0 /\ NoTimer => Progress)

(* Steps that send no RegisterAgent.                                         *)
LEMMA OnceKeeps ==
  ASSUME Once, NEW e, NEW t, Moved(to_pold, to_pold', e, t), Without(t, {"RegisterAgent"}),
         \A c \in agents' \ agents : e = 1 /\ to_pold[1].type = "RegisterAgent" /\ to_pold[1].value = c
  PROVE  Once'
<1>1. PICK q, p : q = to_pold /\ p = to_pold'
  OBVIOUS
<1>2. ASSUME NEW i \in DOMAIN p, p[i].type = "RegisterAgent"
      PROVE  i + e \in DOMAIN q /\ p[i] = q[i + e] /\ i + e > e /\ (i + e) - e = i
  BY <1>1, <1>2, FromBefore
<1>3. ASSUME NEW i \in DOMAIN p, NEW j \in DOMAIN p, p[i].type = "RegisterAgent", p[j].type = "RegisterAgent",
             p[i].value = p[j].value
      PROVE  i = j
  <2>1. i + e = j + e
    BY <1>1, <1>2, <1>3 DEF Once
  <2>2. (i + e) - e = i /\ (j + e) - e = j
    BY <1>2, <1>3
  <2> QED BY <2>1, <2>2
<1>4. ASSUME NEW i \in DOMAIN p, p[i].type = "RegisterAgent" PROVE p[i].value \notin agents'
  <2>1. PICK k \in DOMAIN q : k = i + e /\ p[i] = q[k] /\ k > e
    BY <1>2, <1>4
  <2>2. q[k].value \notin agents
    BY <1>1, <1>4, <2>1 DEF Once
  <2>3. SUFFICES ASSUME q[k].value \in agents' PROVE FALSE
    BY <2>1
  <2>4. e = 1 /\ q[1].type = "RegisterAgent" /\ q[1].value = q[k].value
    BY <1>1, <2>2, <2>3
  <2>5. k \in Nat /\ 1 \in DOMAIN q /\ k # 1
    BY <1>1, <2>1, <2>4, Indices
  <2> QED BY <1>1, <1>4, <2>1, <2>4, <2>5 DEF Once
<1>8. \A i, j \in DOMAIN to_pold' :
        to_pold'[i].type = "RegisterAgent" /\ to_pold'[j].type = "RegisterAgent"
          /\ to_pold'[i].value = to_pold'[j].value => i = j
  BY ONLY <1>1, <1>3
<1>9. \A i \in DOMAIN to_pold' : to_pold'[i].type = "RegisterAgent" => to_pold'[i].value \notin agents'
  BY ONLY <1>1, <1>4
<1> QED BY ONLY <1>8, <1>9 DEF Once

(* RegisterAgent is sent by a process that has none on its way, and is not   *)
(* registered.                                                               *)
LEMMA OnceSent ==
  ASSUME Once, NEW m, m.type = "RegisterAgent", m.value = connman,
         Moved(to_pold, to_pold', 0, <<m>>), agents' = agents, ~Admitted, ~Requested
  PROVE  Once'
<1>1. PICK q, p, t : q = to_pold /\ p = to_pold' /\ t = <<m>>
  OBVIOUS
<1>2. DOMAIN t = {1} /\ t[1] = m /\ Len(t) = 1
  BY <1>1
<1>3. ASSUME NEW i \in DOMAIN p
      PROVE  (i \in DOMAIN q /\ p[i] = q[i]) \/ (i = Len(q) + 1 /\ p[i] = m)
  <2>1. \/ i + 0 \in DOMAIN q /\ p[i] = q[i + 0]
        \/ i + 0 > Len(q) /\ i + 0 - Len(q) \in DOMAIN t /\ p[i] = t[i + 0 - Len(q)]
    BY <1>1, Places
  <2>2. i \in Nat /\ Len(q) \in Nat
    BY <1>1, Indices
  <2>3. CASE i + 0 \in DOMAIN q /\ p[i] = q[i + 0]
    BY <2>2, <2>3
  <2>4. CASE i + 0 > Len(q) /\ i + 0 - Len(q) \in DOMAIN t /\ p[i] = t[i + 0 - Len(q)]
    <3>1. i - Len(q) = 1
      BY <1>2, <2>2, <2>4
    <3> QED BY <1>2, <2>2, <2>4, <3>1
  <2> QED BY <2>1, <2>3, <2>4
<1>4. \A i \in DOMAIN q : q[i].type = "RegisterAgent" => q[i].value # connman
  BY <1>1 DEF Requested
<1>5. ASSUME NEW i \in DOMAIN p, NEW j \in DOMAIN p, p[i].type = "RegisterAgent", p[j].type = "RegisterAgent",
             p[i].value = p[j].value
      PROVE  i = j
  BY <1>1, <1>3, <1>4, <1>5 DEF Once
<1>6. ASSUME NEW i \in DOMAIN p, p[i].type = "RegisterAgent" PROVE p[i].value \notin agents'
  BY <1>1, <1>3, <1>6 DEF Once, Admitted
<1>8. \A i, j \in DOMAIN to_pold' :
        to_pold'[i].type = "RegisterAgent" /\ to_pold'[j].type = "RegisterAgent"
          /\ to_pold'[i].value = to_pold'[j].value => i = j
  BY ONLY <1>1, <1>5
<1>9. \A i \in DOMAIN to_pold' : to_pold'[i].type = "RegisterAgent" => to_pold'[i].value \notin agents'
  BY ONLY <1>1, <1>6
<1> QED BY ONLY <1>8, <1>9 DEF Once

(* Steps that send no farewell.                                              *)
LEMMA LeftKeeps ==
  ASSUME Left, NEW e, NEW t, Moved(to_pold, to_pold', e, t), connman' = connman,
         Without(t, {"AgentLeft", "UnregisterAgent"})
  PROVE  Left'
<1>1. PICK q, p : q = to_pold /\ p = to_pold'
  OBVIOUS
<1>2. ASSUME NEW i \in DOMAIN p, p[i].type \in {"AgentLeft", "UnregisterAgent"} PROVE p[i].value # connman
  <2>1. i + e \in DOMAIN q /\ p[i] = q[i + e]
    BY <1>1, <1>2, FromBefore
  <2> QED BY <1>1, <1>2, <2>1 DEF Left
<1> QED BY <1>1, <1>2 DEF Left

(* The request on its way.                                                   *)
LEMMA RequestedSame ==
  ASSUME NEW e, NEW t, Moved(to_pold, to_pold', e, t), connman' = connman, Without(t, {"RegisterAgent"})
  PROVE  /\ Requested' => Requested
         /\ Spares(to_pold, e, {"RegisterAgent"}) \/ to_pold[1].value # connman => (Requested => Requested')
<1>1. PICK q, p : q = to_pold /\ p = to_pold'
  OBVIOUS
<1>2. ASSUME NEW i \in DOMAIN p, p[i].type = "RegisterAgent" PROVE i + e \in DOMAIN q /\ p[i] = q[i + e]
  BY <1>1, <1>2, FromBefore
<1>3. Requested' => Requested
  BY <1>1, <1>2 DEF Requested
<1>4. ASSUME Spares(q, e, {"RegisterAgent"}) \/ q[1].value # connman,
             NEW i \in DOMAIN q, q[i].type = "RegisterAgent", q[i].value = connman
      PROVE  Requested'
  <2>1. i > e
    <3>1. i \in Nat /\ i >= 1 /\ e \in {0, 1}
      BY <1>1, Indices
    <3>2. CASE i = 1 /\ e = 1
      BY <1>4, <3>2 DEF Spares
    <3> QED BY <3>1, <3>2
  <2>2. i - e \in DOMAIN p /\ p[i - e] = q[i]
    BY <1>1, <2>1, Places
  <2> QED BY <1>1, <1>4, <2>2 DEF Requested
<1> QED BY <1>1, <1>3, <1>4 DEF Requested

(* The appearance to come.                                                   *)
LEMMA ComingFollows ==
  ASSUME NEW q, NEW p, NEW d, NEW s, Moved(q, p, d, s), Without(s, {"disappeared"}), NEW i \in Nat, Coming(q, i),
         \/ i >= d
         \/ Spares(q, d, {"appeared"})
         \/ \E j \in DOMAIN q : j > d /\ q[j].type = "disappeared"
  PROVE  Coming(p, 0) /\ Coming(p, i - d)
<1>1. PICK k \in DOMAIN q :
        k > i /\ q[k].type = "appeared" /\ \A j \in DOMAIN q : j > k => q[j].type # "disappeared"
  BY DEF Coming
<1>2. k \in Nat /\ k >= 1 /\ d \in {0, 1}
  BY Indices
<1>3. k > d
  <2>1. CASE i >= d
    BY <1>1, <1>2, <2>1
  <2>2. CASE Spares(q, d, {"appeared"})
    <3>1. ~(k = 1 /\ d = 1)
      BY <1>1, <2>2 DEF Spares
    <3> QED BY <1>2, <3>1
  <2>3. CASE \E j \in DOMAIN q : j > d /\ q[j].type = "disappeared"
    <3>1. PICK j \in DOMAIN q : j > d /\ q[j].type = "disappeared"
      BY <2>3
    <3>2. ~(j > k) /\ j \in Nat
      BY <1>1, <3>1, Indices
    <3> QED BY <1>2, <3>1, <3>2
  <2> QED BY <2>1, <2>2, <2>3
<1>4. k - d \in DOMAIN p /\ p[k - d] = q[k] /\ k - d > 0 /\ k - d > i - d
  BY <1>1, <1>2, <1>3, Places
<1>5. ASSUME NEW j \in DOMAIN p, j > k - d PROVE p[j].type # "disappeared"
  <2>1. SUFFICES ASSUME p[j].type = "disappeared" PROVE FALSE
    OBVIOUS
  <2>2. j + d \in DOMAIN q /\ p[j] = q[j + d]
    BY <2>1, FromBefore
  <2>3. j + d > k
    <3>1. j \in Nat
      BY Indices
    <3> QED BY <1>2, <1>5, <3>1
  <2> QED BY <1>1, <2>1, <2>2, <2>3
<1> QED BY <1>1, <1>4, <1>5 DEF Coming

(* The messages of a type.                                                   *)
LEMMA HasFollows ==
  ASSUME NEW q, NEW p, NEW d, NEW s, Moved(q, p, d, s), NEW type
  PROVE  /\ Has(s, type) => Has(p, type)
         /\ Spares(q, d, {type}) => (Has(q, type) => Has(p, type))
         /\ Without(s, {type}) => (Has(p, type) => \E j \in DOMAIN q : j > d /\ q[j].type = type)
<1>1. Has(s, type) => Has(p, type)
  BY Places DEF Has
<1>2. ASSUME Spares(q, d, {type}), NEW i \in DOMAIN q, q[i].type = type PROVE Has(p, type)
  <2>1. i \in Nat /\ i >= 1 /\ d \in {0, 1}
    BY Indices
  <2>2. i > d
    BY <1>2, <2>1 DEF Spares
  <2> QED BY <1>2, <2>2, Places DEF Has
<1>3. ASSUME Without(s, {type}), NEW i \in DOMAIN p, p[i].type = type PROVE \E j \in DOMAIN q : j > d /\ q[j].type = type
  BY <1>3, FromBefore
<1> QED BY <1>1, <1>2, <1>3 DEF Has

(* The answer to come.                                                       *)
LEMMA AnswerFollows ==
  ASSUME NEW q, NEW p, NEW d, NEW s, Moved(q, p, d, s), NEW i \in DOMAIN q, i > d, Answer(q, i)
  PROVE  i - d \in DOMAIN p /\ p[i - d] = q[i] /\ Answer(p, i - d)
BY Places, NoFrom0 DEF Answer

(* Steps that are not the registration's leave its progress alone.           *)
LEMMA ProgressKeeps ==
  ASSUME Progress, UNCHANGED <<plugin, connman>>, pold' = 0 <=> pold = 0,
         "connman" \in starting => "connman" \in starting', Admitted' <=> Admitted, Requested' <=> Requested,
         faults \subseteq faults',
         NEW d, NEW s, Moved(to_connman, to_connman', d, s), Without(s, {"Registered", "disappeared"}),
         Spares(to_connman, d, {"disappeared"}), Asking => Spares(to_connman, d, {"Registered"}),
         Out => Spares(to_connman, d, {"appeared"})
  PROVE  Progress'
<1>1. PICK q, p : q = to_connman /\ p = to_connman'
  OBVIOUS
<1>2. (Out' <=> Out) /\ (Asking' <=> Asking) /\ (In' <=> In) /\ (Stuck' <=> Stuck) /\ (Both' <=> Both)
  BY DEF plugin, Out, Asking, In, Stuck, Both
<1>3. Without(s, {"disappeared"}) /\ Without(s, {"Registered"})
  BY DEF Without
<1>4. /\ Has(q, "disappeared") => Has(p, "disappeared")
      /\ Has(p, "disappeared") => \E j \in DOMAIN q : j > d /\ q[j].type = "disappeared"
  BY <1>1, <1>3, HasFollows
<1>5. ASSUME Both, Out \/ Has(p, "disappeared") PROVE Awaits(0)'
  <2>1. "connman" \in starting \/ Coming(q, 0)
    BY <1>1, <1>4, <1>5 DEF Progress, Has, Awaits
  <2>2. CASE Coming(q, 0)
    <3>1. Spares(q, d, {"appeared"}) \/ \E j \in DOMAIN q : j > d /\ q[j].type = "disappeared"
      BY <1>1, <1>4, <1>5
    <3>2. Coming(p, 0)
      BY ONLY <1>1, <1>3, <2>2, <3>1, ComingFollows, Moved(to_connman, to_connman', d, s)
    <3> QED BY <1>1, <3>2 DEF Awaits
  <2> QED BY <2>1, <2>2 DEF Awaits
<1>6. In => Admitted' \/ Has(p, "disappeared")
  BY <1>1, <1>4 DEF Progress
<1>7. ASSUME Asking PROVE Requested' \/ Has(p, "disappeared") \/ \E i \in DOMAIN p : Answered(i)'
  <2>1. CASE Requested \/ Has(q, "disappeared")
    BY <1>4, <2>1
  <2>2. ASSUME NEW i \in DOMAIN q, Answered(i) PROVE \E j \in DOMAIN p : Answered(j)'
    <3>1. i \in Nat /\ i >= 1 /\ d \in {0, 1}
      BY <1>1, Indices
    <3>2. i > d
      BY <1>1, <1>7, <2>2, <3>1 DEF Spares, Answered, Answer
    <3>3. i - d \in DOMAIN p /\ p[i - d] = q[i] /\ Answer(p, i - d)
      BY <1>1, <2>2, <3>2, AnswerFollows DEF Answered
    <3>4. PICK j \in DOMAIN p : j = i - d /\ p[j] = q[i] /\ Answer(p, j)
      BY <3>3
    <3>5. p[j].value # NULL => Admitted'
      BY <1>1, <2>2, <3>4 DEF Answered
    <3>6. ASSUME p[j].value = NULL, Both PROVE Awaits(j)'
      <4>1. "connman" \in starting \/ Coming(q, i)
        BY <1>1, <2>2, <3>4, <3>6 DEF Answered, Awaits
      <4>2. CASE Coming(q, i)
        <5>1. i >= d
          BY <3>1, <3>2
        <5>2. Coming(p, i - d)
          BY ONLY <1>1, <1>3, <3>1, <4>2, <5>1, ComingFollows, Moved(to_connman, to_connman', d, s)
        <5> QED BY <1>1, <3>4, <5>2 DEF Awaits
      <4> QED BY <4>1, <4>2 DEF Awaits
    <3> QED BY <1>1, <1>2, <3>4, <3>5, <3>6 DEF Answered
  <2> QED BY <1>1, <1>7, <2>1, <2>2 DEF Progress
<1>8. Stuck => "abandoned" \in faults'
  BY DEF Progress
<1> QED BY <1>1, <1>2, <1>5, <1>6, <1>7, <1>8 DEF Progress

(* A step that concerns neither the agent nor pold's record of it.           *)
Elsewhere(d, s, e, t) ==
  /\ Step(d, s, e, t) /\ UNCHANGED <<plugin, connman>> /\ (pold' = 0 <=> pold = 0)
  /\ "connman" \in starting => "connman" \in starting'
  /\ Admitted' <=> Admitted
  /\ agents' \subseteq agents /\ faults \subseteq faults'
  /\ Without(t, {"RegisterAgent", "AgentLeft", "UnregisterAgent"}) /\ Spares(to_pold, e, {"RegisterAgent"})
  /\ Without(s, {"Registered", "disappeared"}) /\ Spares(to_connman, d, {"disappeared"})
  /\ Asking => Spares(to_connman, d, {"Registered"})
  /\ Out => Spares(to_connman, d, {"appeared"})

(* So all is kept by a step elsewhere.                                       *)
LEMMA AgentKeeps ==
  ASSUME Registration, Known, NEW d, NEW s, NEW e, NEW t, Elsewhere(d, s, e, t)
  PROVE  Registration' /\ Known'
<1> USE DEF Elsewhere
<1>1. Moved(to_connman, to_connman', d, s) /\ Moved(to_pold, to_pold', e, t)
  BY DEF Step
<1>2. Without(t, {"RegisterAgent"}) /\ Without(t, {"AgentLeft", "UnregisterAgent"})
  BY DEF Without
<1>3. Left'
  BY <1>1, <1>2, LeftKeeps DEF Known
<1>4. Requested' <=> Requested
  BY <1>1, <1>2, RequestedSame
<1>5. ASSUME NoTimer' PROVE NoTimer /\ Once' /\ (connman # 0 => Orderly' /\ Progress')
  <2>1. NoTimer
    BY <1>5 DEF NoTimer
  <2>2. Once'
    <3>1. Once
      BY <2>1 DEF Registration
    <3>2. \A c \in agents' \ agents : FALSE
      OBVIOUS
    <3> QED BY <1>1, <1>2, <3>1, <3>2, OnceKeeps
  <2>3. ASSUME connman # 0 PROVE Orderly' /\ Progress'
    <3>1. Orderly /\ Progress
      BY <2>1, <2>3 DEF Registration, Known
    <3>2. Orderly'
      BY <1>1, <1>4, <3>1, OrderlyKeeps
    <3>3. Progress'
      BY <1>1, <1>4, <3>1, ProgressKeeps
    <3> QED BY <3>2, <3>3
  <2> QED BY <2>1, <2>2, <2>3
<1> QED BY <1>3, <1>5 DEF Registration, Known
-----------------------------------------------------------------------------
(* What agents tell pold, and what pold tells agents.                        *)
Agency == {"RegisterAgent", "AgentLeft", "UnregisterAgent"}
News == {"Registered", "disappeared"}

(* Requests are neither.                                                     *)
LEMMA WithoutAll ==
  /\ \A s : Refusals(s) => Without(s, News) /\ \A k \in DOMAIN s : s[k].type = "Policy"
  /\ \A t : Questions(t) => Without(t, Agency)
  /\ \A T : Without(<<>>, T)
  /\ \A m, T : Without(<<m>>, T) <=> m.type \notin T
  /\ \A q, T : Spares(q, 0, T)
<1>1. \A m \in PolicyMessage : m.type = "Policy" /\ m.type \notin News
  BY DEF PolicyMessage, News
<1>2. \A m \in Question : m.type \notin Agency
  BY DEF Question, Agency
<1>3. \A m : DOMAIN <<m>> = {1} /\ <<m>>[1] = m
  OBVIOUS
<1> QED BY <1>1, <1>2, <1>3 DEF Refusals, Questions, Without, Spares

(* When a step is elsewhere.                                                 *)
LEMMA Away ==
  ASSUME NEW d, NEW s, NEW e, NEW t, Step(d, s, e, t), UNCHANGED <<plugin, connman, pold, starting, agents>>,
         faults \subseteq faults', Without(s, News), Without(t, Agency),
         Spares(to_pold, e, {"RegisterAgent"}), Spares(to_connman, d, {"disappeared"}),
         Asking => Spares(to_connman, d, {"Registered"}), Out => Spares(to_connman, d, {"appeared"})
  PROVE  Elsewhere(d, s, e, t)
<1>1. Admitted' <=> Admitted
  BY DEF Admitted
<1> QED BY <1>1 DEF Elsewhere, News, Agency

(* What the plugin does beside registering.                                  *)
AsideAtConnman ==
  \/ CreateSession \/ OwnerLeft \/ get_policy_cb \/ agent_update \/ ReleaseSession
  \/ \E o \in Owner : policy_pold_destroy(o) \/ PolicyTimeout(o)
  \/ \E o \in App : policy_pold_create(o)

(* It is elsewhere.                                                          *)
LEMMA AsideStep ==
  ASSUME Typed, AsideAtConnman, Ours
  PROVE  /\ Typed' /\ UNCHANGED <<plugin, connman, pold, starting, agents>> /\ faults \subseteq faults'
         /\ \E d, s, t :
              /\ Step(d, s, 0, t) /\ Without(s, News) /\ Without(t, Agency)
              /\ d = 1 => to_connman[1].type \in {"CreateSession", "OwnerLeft", "Policy", "Update"}
<1> USE WithoutAll
<1>0. UNCHANGED <<starting, agents>>
  BY DEF Ours, manager
<1>1. CASE CreateSession
  <2>1. PICK s, t :
           /\ Step(1, s, 0, t) /\ to_connman[1] \in CreateMessage
           /\ \/ /\ Refusals(s) /\ Questions(t)
              \/ /\ s = <<>>
                 /\ t = IF pold = to_connman[1].value
                        THEN <<Message("Session", Self, to_connman[1].number, NULL)>> ELSE <<>>
    BY <1>1, SessionForPold
  <2>2. Without(s, News)
    BY <2>1
  <2>3. Without(t, Agency)
    BY <2>1 DEF Message, Agency
  <2>4. to_connman[1].type = "CreateSession"
    BY <2>1 DEF CreateMessage
  <2>5. Typed' /\ UNCHANGED <<pold, connman, plugin, faults>>
    BY <1>1, SessionForPold
  <2> QED BY <1>0, <2>1, <2>2, <2>3, <2>4, <2>5
<1>2. CASE OwnerLeft
  BY <1>0, <1>2, OwnerGone
<1>3. ASSUME NEW d, NEW t, NEW o, NEW c, Step(d, <<>>, 0, t), Finished(o, c, t) \/ t = <<>>
      PROVE  Without(t, Agency)
  BY <1>3 DEF Finished, Message, Agency
<1>4. CASE get_policy_cb
  <2>1. PICK t : /\ Step(1, <<>>, 0, t)
                 /\ \/ Finished(to_connman[1].owner, Accepted(to_connman[1].value), t)
                    \/ t = <<>>
    BY <1>4, PolicyAnswered
  <2>2. Typed' /\ to_connman[1].type = "Policy" /\ UNCHANGED <<pold, connman, plugin, faults>>
    BY <1>4, PolicyAnswered DEF PolicyMessage
  <2> QED BY <1>0, <1>3, <2>1, <2>2
<1>5. CASE agent_update
  BY <1>0, <1>5, PolicyReplaced DEF UpdateMessage
<1>6. CASE ReleaseSession
  <2>1. PICK t : /\ Step(0, <<>>, 0, t)
                 /\ t = IF pold = caller.process THEN <<Message("Release", Self, 0, NULL)>> ELSE <<>>
    BY <1>6, SessionReleased
  <2>2. Without(t, Agency)
    BY <2>1 DEF Message, Agency
  <2> QED BY <1>0, <1>6, <2>1, <2>2, SessionReleased
<1>7. ASSUME NEW o \in Owner, policy_pold_destroy(o)
      PROVE  /\ Typed' /\ UNCHANGED <<plugin, connman, pold, faults>> /\ Step(0, <<>>, 0, <<>>)
  BY <1>7, SessionGone
<1>8. ASSUME NEW o \in Owner, PolicyTimeout(o)
      PROVE  /\ Typed' /\ UNCHANGED <<plugin, connman, pold>> /\ faults \subseteq faults'
             /\ \E t : Step(0, <<>>, 0, t) /\ Without(t, Agency)
  <2>1. Typed' /\ UNCHANGED <<plugin, connman, pold>> /\ faults \subseteq faults'
        /\ \E t : Step(0, <<>>, 0, t) /\ Finished(o, NULL, t)
    BY <1>8, PolicyLate
  <2> QED BY <1>3, <2>1
<1>9. ASSUME NEW o \in App, policy_pold_create(o)
      PROVE  /\ Typed' /\ UNCHANGED <<plugin, connman, pold, faults>>
             /\ \E s, t : Step(0, s, 0, t) /\ Without(s, News) /\ Without(t, Agency)
  <2>1. Typed' /\ \E s, t : Step(0, s, 0, t) /\ Refusals(s) /\ Questions(t)
    BY <1>9, SessionMade
  <2> QED BY <1>9, <2>1 DEF policy_pold_create
<1> QED BY <1>0, <1>1, <1>2, <1>4, <1>5, <1>6, <1>7, <1>8, <1>9 DEF AsideAtConnman

(* So the registration is kept.                                              *)
LEMMA AsideKeepsAgent ==
  ASSUME Typed, Registration, Known, AsideAtConnman, Ours
  PROVE  Registration' /\ Known'
<1>1. PICK d, s, t :
              /\ Step(d, s, 0, t) /\ Without(s, News) /\ Without(t, Agency)
              /\ d = 1 => to_connman[1].type \in {"CreateSession", "OwnerLeft", "Policy", "Update"}
  BY AsideStep
<1>2. Elsewhere(d, s, 0, t)
  BY <1>1, AsideStep, Away, WithoutAll DEF Spares
<1> QED BY <1>2, AgentKeeps

(* What pold does beside registering.                                        *)
AsideAtPold ==
  \/ connman_appeared \/ connman_disappeared \/ create_session_cb \/ release
  \/ pold_manager_get_policy_config \/ CreateTimeout \/ update_policies_cb
  \/ \E m \in asked : user_cb(m)

(* It is elsewhere too.                                                      *)
LEMMA PoldAsideStep ==
  ASSUME Typed, AsideAtPold
  PROVE  /\ Typed' /\ Theirs /\ UNCHANGED agents /\ faults \subseteq faults' /\ pold # 0
         /\ \E s, e, t :
              /\ Step(0, s, e, t) /\ Without(s, News) /\ Without(t, Agency)
              /\ e = 1 => to_pold[1].type \in {"appeared", "disappeared", "Session", "Release", "GetPolicyConfig"}
<1> USE WithoutAll
<1>1. CASE connman_appeared
  <2>1. PICK s, t : /\ Step(0, s, 1, t)
                    /\ IF connman = 0
                       THEN s = <<>> /\ t = <<Message("Session", Self, calls + 1, NULL)>>
                       ELSE s = <<Message("CreateSession", Self, calls + 1, pold)>> /\ t = <<>>
    BY <1>1, ConnmanSeen
  <2>2. Without(s, News) /\ Without(t, Agency)
    BY <2>1 DEF Message, News, Agency
  <2> QED BY <1>1, <2>1, <2>2, ConnmanSeen DEF manager
<1>2. CASE connman_disappeared
  BY <1>2, ConnmanGone DEF manager
<1>3. CASE create_session_cb
  BY <1>3, PathAnswered DEF manager, SessionMessage
<1>4. CASE release
  BY <1>4, PathReleased DEF manager
<1>5. CASE pold_manager_get_policy_config
  <2>1. PICK s : /\ Step(0, s, 1, <<>>)
                 /\ s = <<>> \/ \E x \in PolicyMessage : s = IF connman = to_pold[1].value THEN <<x>> ELSE <<>>
    BY <1>5, PolicyAsked
  <2>2. Without(s, News)
    BY <2>1 DEF PolicyMessage, News
  <2>3. to_pold[1].type = "GetPolicyConfig"
    BY <1>5, PolicyAsked DEF Question
  <2> QED BY <1>5, <2>1, <2>2, <2>3, PolicyAsked
<1>6. CASE CreateTimeout
  BY <1>6, PathLate DEF manager
<1>7. CASE update_policies_cb
  <2>1. PICK S, s : Step(0, s, 0, <<>>) /\ Tells(S, s)
    BY <1>7, AgentsTold
  <2>2. \A o : Update(o).type = "Update"
    BY DEF Update, Message
  <2>3. Without(s, News)
    BY <2>1, <2>2 DEF Tells, Without, News
  <2>4. faults \subseteq faults'
    BY <2>1 DEF Tells
  <2> QED BY <1>7, <2>1, <2>3, <2>4, AgentsTold
<1>8. ASSUME NEW m \in asked, user_cb(m)
      PROVE  /\ Typed' /\ Theirs /\ UNCHANGED <<agents, faults>> /\ pold # 0
             /\ \E s : Step(0, s, 0, <<>>) /\ Without(s, News)
  <2>1. PICK s, x : /\ Step(0, s, 0, <<>>) /\ x \in PolicyMessage
                    /\ s = IF connman = m.value THEN <<x>> ELSE <<>>
    BY <1>8, PolicySent
  <2>2. Without(s, News)
    BY <2>1 DEF PolicyMessage, News
  <2> QED BY <1>8, <2>1, <2>2, PolicySent
<1> QED BY <1>1, <1>2, <1>3, <1>4, <1>5, <1>6, <1>7, <1>8 DEF AsideAtPold

(* So the registration is kept.                                              *)
LEMMA PoldAsideKeepsAgent ==
  ASSUME Typed, Registration, Known, AsideAtPold
  PROVE  Registration' /\ Known'
<1>1. PICK s, e, t :
              /\ Step(0, s, e, t) /\ Without(s, News) /\ Without(t, Agency)
              /\ e = 1 => to_pold[1].type \in {"appeared", "disappeared", "Session", "Release", "GetPolicyConfig"}
  BY PoldAsideStep
<1>2. UNCHANGED <<plugin, connman, pold, starting, agents>> /\ faults \subseteq faults'
  BY PoldAsideStep DEF Theirs, lives
<1>3. Elsewhere(0, s, e, t)
  BY <1>1, <1>2, Away, WithoutAll DEF Spares
<1> QED BY <1>3, AgentKeeps
-----------------------------------------------------------------------------
(* Who is late is no answer.                                                 *)
LEMMA LateIsNoAnswer ==
  ASSUME NEW q, NEW i \in DOMAIN q, \A k \in DOMAIN q : k \in Nat /\ k >= 1, Late(q, i)
  PROVE  ~Answer(q, i)
<1>1. PICK j \in DOMAIN q : j < i /\ q[j].type = "disappeared"
  BY DEF Late
<1>2. 0 < j
  OBVIOUS
<1> QED BY <1>1, <1>2 DEF Answer, No

(* Who is excused is late.                                                   *)
LEMMA ExcusedIsLate == ASSUME NEW q, NEW i, Excused(q, i) PROVE Late(q, i)
BY DEF Excused, Late

(* pold has appeared to an agent that has not registered: what is left of    *)
(* earlier registrations is late.                                            *)
LEMMA BehindAppearance ==
  ASSUME NEW q, NEW p, NEW s, Moved(q, p, 1, s), q[1].type = "appeared", OutQueue(q),
         NEW i \in DOMAIN p, i + 1 \in DOMAIN q, p[i] = q[i + 1], p[i].type = "Registered"
  PROVE  Late(p, i)
<1>1. i \in Nat /\ i >= 1 /\ 1 \in DOMAIN q
  BY Indices
<1>2. ~No(q, 0, i + 1, {"appeared"})
  BY <1>1 DEF No
<1>3. PICK k \in DOMAIN q : k = i + 1
  OBVIOUS
<1>4. Excused(q, k)
  BY <1>2, <1>3 DEF OutQueue
<1>5. Late(q, k) /\ k > 1 /\ k - 1 = i /\ Spares(q, 1, {"disappeared"})
  BY <1>1, <1>3, <1>4, ExcusedIsLate DEF Spares
<1>6. Late(p, k - 1)
  BY ONLY <1>3, <1>5, Moved(q, p, 1, s), LateFollows
<1> QED BY <1>5, <1>6

(* The plugin registers when it is not registered: the answers to earlier    *)
(* calls are behind a disappearance.                                         *)
LEMMA AppearedKeepsAgent ==
  ASSUME Typed, Registration, Known, pold_appeared, Ours
  PROVE  Registration' /\ Known'
<1> USE WithoutAll
<1>1. PICK s, t : /\ Step(1, s, 0, t)
                  /\ \/ Registers(s, t)
                     \/ /\ agent_registered \/ interface
                        /\ UNCHANGED plugin /\ s = <<>> /\ t = <<>>
  BY PoldSeen
<1>2. /\ to_connman[1].type = "appeared" /\ to_connman # <<>>
      /\ UNCHANGED <<pold, connman, starting, agents, faults>> /\ connman # 0
  BY PoldSeen DEF Ours, manager, Typed, ConnmanOff
<1>3. CASE /\ agent_registered \/ interface
           /\ UNCHANGED plugin /\ s = <<>> /\ t = <<>>
  <2>1. ~Out
    BY <1>3 DEF Out
  <2>2. Spares(to_connman, 1, {"disappeared"}) /\ Spares(to_connman, 1, {"Registered"})
    BY <1>2 DEF Spares
  <2>3. Without(s, News) /\ Without(t, Agency) /\ Spares(to_pold, 0, {"RegisterAgent"})
    BY <1>3
  <2>4. Elsewhere(1, s, 0, t)
    BY <1>1, <1>2, <1>3, <2>1, <2>2, <2>3, Away
  <2> QED BY <2>4, AgentKeeps
<1>4. CASE Registers(s, t)
  <2> USE <1>4 DEF Registers
  <2>1. PICK q, p, pp, pp1, m, r :
          /\ q = to_connman /\ p = to_connman' /\ pp = to_pold /\ pp1 = to_pold'
          /\ m = Message("RegisterAgent", NULL, 0, connman) /\ r = Plain0("Registered")
    OBVIOUS
  <2>2. /\ m.type = "RegisterAgent" /\ m.value = connman /\ r.type = "Registered" /\ r.value = NULL
        /\ pold # 0 => s = <<>> /\ t = <<m>>
        /\ pold = 0 => s = <<r>> /\ t = <<>>
    BY <2>1 DEF Message, Plain0
  <2>3. Moved(q, p, 1, s) /\ Moved(pp, pp1, 0, t)
    BY <1>1, <2>1 DEF Step
  <2>4. Without(t, {"AgentLeft", "UnregisterAgent"}) /\ Without(s, {"disappeared"})
    BY <2>2
  <2>5. Left'
    BY <1>2, <2>1, <2>3, <2>4, LeftKeeps DEF Known
  <2>6. ASSUME NoTimer PROVE Once' /\ Orderly' /\ Progress'
    <3>1. Once /\ Orderly /\ Progress
      BY <1>2, <2>6 DEF Registration, Known
    <3>2. Out /\ ~Admitted /\ ~Requested /\ OutQueue(q)
      BY <2>1, <3>1 DEF Orderly, In, Asking, Stuck
    <3>3. Asking' /\ ~Admitted'
      BY <1>2, <3>2 DEF Asking, Admitted
    <3>4. \A k \in DOMAIN q : k \in Nat /\ k >= 1 /\ k <= Len(q)
      BY <2>3, Indices
    <3>5. \A k \in DOMAIN p : k \in Nat /\ k >= 1
      BY <2>3, Indices
    <3>6. ASSUME NEW i \in DOMAIN p, i + 1 \in DOMAIN q, p[i] = q[i + 1], p[i].type = "Registered"
          PROVE  Late(p, i)
      BY <1>2, <2>1, <2>3, <3>2, <3>6, BehindAppearance
    <3>7. ASSUME Both, Has(p, "disappeared") PROVE Awaits(0)'
      <4>1. "connman" \in starting \/ Coming(q, 0)
        BY <2>1, <3>1, <3>2, <3>7 DEF Progress, Awaits
      <4>2. CASE Coming(q, 0)
        <5>1. \E j \in DOMAIN q : j > 1 /\ q[j].type = "disappeared"
          BY <2>3, <2>4, <3>7, HasFollows
        <5>2. Coming(p, 0)
          BY ONLY <2>3, <2>4, <4>2, <5>1, ComingFollows, 0 \in Nat
        <5> QED BY <2>1, <5>2 DEF Awaits
      <4> QED BY <1>2, <4>1, <4>2 DEF Awaits
    <3>8. Both' <=> Both
      BY <1>2 DEF Both
    <3>9. CASE pold # 0
      <4>1. s = <<>> /\ t = <<m>>
        BY <2>2, <3>9
      <4>2. Once'
        BY <1>2, <2>1, <2>2, <2>3, <3>1, <3>2, <4>1, OnceSent
      <4>3. Requested'
        <5>1. 1 \in DOMAIN t /\ t[1] = m
          BY <4>1
        <5>2. Len(pp) - 0 + 1 \in DOMAIN pp1 /\ pp1[Len(pp) - 0 + 1] = m
          BY <2>3, <5>1, Places
        <5> QED BY <1>2, <2>1, <2>2, <5>2 DEF Requested
      <4>4. ASSUME NEW i \in DOMAIN p, p[i].type = "Registered" PROVE Late(p, i)
        <5>1. Without(s, {"Registered"})
          BY <4>1
        <5>2. i + 1 \in DOMAIN q /\ p[i] = q[i + 1]
          BY <2>3, <4>4, <5>1, FromBefore
        <5> QED BY <3>6, <4>4, <5>2
      <4>5. \A i \in DOMAIN p : ~Answer(p, i)
        <5>1. ASSUME NEW i \in DOMAIN p, Answer(p, i) PROVE FALSE
          <6>1. Late(p, i)
            BY <4>4, <5>1 DEF Answer
          <6> QED BY <3>5, <5>1, <6>1, LateIsNoAnswer
        <5> QED BY <5>1
      <4>6. Orderly'
        BY <2>1, <3>3, <4>4, <4>5 DEF Orderly, LateQueue
      <4>7. Progress'
        BY <2>1, <3>3, <3>7, <3>8, <4>3 DEF Progress, Out, In, Stuck, Asking
      <4> QED BY <4>2, <4>6, <4>7
    <3>10. CASE pold = 0
      <4>1. s = <<r>> /\ t = <<>>
        BY <2>2, <3>10
      <4>2. Without(t, {"RegisterAgent"})
        BY <4>1
      <4>3. Once'
        BY <1>2, <2>1, <2>3, <3>1, <4>2, OnceKeeps
      <4>4. ~Requested'
        BY <1>2, <2>1, <2>3, <3>2, <4>2, RequestedSame
      <4>5. DOMAIN s = {1} /\ s[1] = r
        BY <4>1
      <4>6. ASSUME NEW i \in DOMAIN p, ~(i + 1 \in DOMAIN q /\ p[i] = q[i + 1]) PROVE i = Len(q) /\ p[i] = r
        <5>1. i + 1 > Len(q) /\ i + 1 - Len(q) \in DOMAIN s /\ p[i] = s[i + 1 - Len(q)]
          BY <2>3, <4>6, Places
        <5>2. i + 1 - Len(q) = 1 /\ Len(q) \in Nat
          BY <2>3, <4>5, <5>1, Indices
        <5> QED BY <3>5, <4>5, <5>1, <5>2
      <4>7. Len(q) \in DOMAIN p /\ p[Len(q)] = r /\ Len(q) \in Nat /\ \A k \in DOMAIN p : k <= Len(q)
        <5>1. Len(q) - 1 + 1 \in DOMAIN p /\ p[Len(q) - 1 + 1] = s[1]
          BY <2>3, <4>5, Places
        <5>2. Len(q) \in Nat
          BY <2>3, Indices
        <5>3. \A k \in DOMAIN p : k <= Len(q)
          BY <3>4, <3>5, <4>6, <5>2
        <5> QED BY <4>5, <5>1, <5>2, <5>3
      <4>8. ASSUME NEW i \in DOMAIN p, Answer(p, i) PROVE i = Len(q)
        <5>1. SUFFICES ASSUME i + 1 \in DOMAIN q, p[i] = q[i + 1] PROVE FALSE
          BY <4>6
        <5>2. Late(p, i)
          BY <3>6, <4>8, <5>1 DEF Answer
        <5> QED BY <3>5, <4>8, <5>2, LateIsNoAnswer
      <4>9. Orderly'
        <5>1. ASSUME NEW i \in DOMAIN p, Answer(p, i) PROVE RestExcused(p, i)
          BY <4>7, <4>8, <5>1, <3>5 DEF RestExcused
        <5> QED BY <2>1, <3>3, <4>4, <5>1 DEF Orderly, Awaiting
      <4>10. ASSUME ~Has(p, "disappeared") PROVE Answered(Len(q))'
        <5>1. ASSUME NEW k \in DOMAIN p, k < Len(q), p[k].type = "Registered" PROVE FALSE
          <6>1. k + 1 \in DOMAIN q /\ p[k] = q[k + 1]
            BY <3>5, <4>6, <4>7, <5>1
          <6>2. Late(p, k)
            BY <3>6, <5>1, <6>1
          <6> QED BY <4>10, <6>2 DEF Late, Has
        <5>2. No(p, 0, Len(q), {"Registered", "disappeared"})
          BY <4>10, <5>1 DEF No, Has
        <5>3. Answer(p, Len(q)) /\ p[Len(q)].value = NULL
          BY <2>2, <4>7, <5>2 DEF Answer
        <5>4. ~Both'
          BY <1>2, <3>10 DEF Both
        <5>5. PICK n : n = Len(q)
          OBVIOUS
        <5>6. Answered(n)'
          BY <2>1, <5>3, <5>4, <5>5 DEF Answered
        <5>7. Answered(Len(q))' <=> Answered(n)'
          <6>1. q = to_connman /\ n = Len(q)
            BY <2>1, <5>5
          <6> QED BY <6>1 DEF Answered
        <5> QED BY <5>6, <5>7
      <4> QED BY <2>1, <3>3, <3>8, <3>10, <4>3, <4>7, <4>9, <4>10 DEF Progress, Out, In, Stuck, Asking, Both
    <3> QED BY <3>9, <3>10
  <2>7. NoTimer' => NoTimer
    BY <1>2 DEF NoTimer
  <2> QED BY <2>5, <2>6, <2>7 DEF Registration, Known
<1> QED BY <1>1, <1>3, <1>4
-----------------------------------------------------------------------------
(* What the plugin has heard of pold's departure leaves no answer to come.   *)
LEMMA DisappearedKeepsAgent ==
  ASSUME Typed, Registration, Known, pold_disappeared, Ours
  PROVE  Registration' /\ Known'
<1> USE WithoutAll
<1>1. /\ to_connman[1].type = "disappeared" /\ to_connman # <<>> /\ Step(1, <<>>, 0, <<>>)
      /\ UNCHANGED <<pold, connman, starting, agents>> /\ connman # 0
      /\ interface' = (interface /\ ~agent_registered)
      /\ agent_registered' = FALSE /\ register_call' = FALSE
      /\ faults' = IF interface' THEN faults \cup {"abandoned"} ELSE faults
  BY PoldGone DEF Ours, manager, Typed, ConnmanOff
<1>2. PICK q, p, s : q = to_connman /\ p = to_connman' /\ s = <<>>
  OBVIOUS
<1>3. Moved(q, p, 1, s) /\ Moved(to_pold, to_pold', 0, <<>>) /\ Without(s, {"disappeared"})
  BY <1>1, <1>2 DEF Step
<1>4. Left'
  BY <1>1, <1>3, LeftKeeps DEF Known
<1>5. ASSUME NoTimer PROVE Once' /\ Orderly' /\ Progress'
  <2>1. Once /\ Orderly /\ Progress
    BY <1>1, <1>5 DEF Registration, Known
  <2>2. Once'
    BY <1>1, <1>3, <2>1, OnceKeeps
  <2>3. (Requested' <=> Requested) /\ (Admitted' <=> Admitted) /\ (Both' <=> Both)
    BY <1>1, <1>3, RequestedSame DEF Admitted, Both
  <2>4. Has(q, "disappeared")
    <3>1. 1 \in DOMAIN q
      BY <1>1, <1>2, Queues
    <3> QED BY <1>1, <1>2, <3>1 DEF Has
  <2>5. ASSUME NEW i \in DOMAIN p, p[i].type = "Registered", OutQueue(q)
        PROVE  Excused(p, i) \/ No(p, 0, i, {"appeared"})
    <3>1. PICK k \in DOMAIN q : k = i + 1 /\ p[i] = q[k] /\ k > 1 /\ k - 1 = i
      <4>1. Without(s, {"Registered"})
        BY <1>2
      <4> QED BY <1>3, <2>5, <4>1, FromBefore
    <3>2. Excused(q, k) \/ No(q, 0, k, {"appeared"})
      BY <2>5, <3>1 DEF OutQueue
    <3>3. CASE Excused(q, k)
      <4>1. Excused(p, k - 1) \/ No(p, 0, k - 1, {"appeared"})
        BY ONLY <1>3, <3>1, <3>3, ExcusedFollows
      <4> QED BY <3>1, <4>1
    <3>4. CASE No(q, 0, k, {"appeared"})
      <4>1. No(p, 0, k - 1, {"appeared"})
        BY ONLY <1>3, <3>1, <3>4, NoFrom0
      <4> QED BY <3>1, <4>1
    <3> QED BY <3>2, <3>3, <3>4
  <2>6. ASSUME Out, ~Admitted, ~Requested, OutQueue(q) PROVE Orderly'
    <3>1. Out'
      BY <1>1, <2>6 DEF Out
    <3>2. OutQueue(p)
      BY ONLY <2>5, <2>6 DEF OutQueue
    <3> QED BY <1>2, <2>3, <2>6, <3>1, <3>2 DEF Orderly
  <2>7. ASSUME In, ~Requested, Admitted => ~Has(q, "disappeared"), InQueue(q) PROVE Orderly'
    <3>1. OutQueue(q)
      BY <2>7 DEF InQueue, OutQueue
    <3>2. Out'
      BY <1>1, <2>7 DEF Out, In
    <3>3. OutQueue(p)
      BY ONLY <2>5, <3>1 DEF OutQueue
    <3> QED BY <1>2, <2>3, <2>4, <2>7, <3>2, <3>3 DEF Orderly
  <2>8. ASSUME Asking \/ Stuck PROVE Orderly'
    <3>1. Stuck'
      BY <1>1, <2>8 DEF Asking, Stuck
    <3> QED BY <3>1 DEF Orderly
  <2>9. Orderly'
    BY <1>2, <2>1, <2>6, <2>7, <2>8 DEF Orderly
  <2>10. ASSUME Both PROVE Awaits(0)'
    <3>1. "connman" \in starting \/ Coming(q, 0)
      BY <1>2, <2>1, <2>4, <2>10 DEF Progress, Awaits
    <3>2. CASE Coming(q, 0)
      <4>1. Spares(q, 1, {"appeared"})
        BY <1>1, <1>2 DEF Spares
      <4>2. Coming(p, 0)
        BY ONLY <1>3, <3>2, <4>1, ComingFollows, 0 \in Nat
      <4> QED BY <1>2, <4>2 DEF Awaits
    <3> QED BY <1>1, <3>1, <3>2 DEF Awaits
  <2>11. Progress'
    BY <1>1, <2>3, <2>10 DEF Progress, In, Asking, Stuck
  <2> QED BY <2>2, <2>9, <2>11
<1>6. NoTimer' => NoTimer
  BY <1>1 DEF NoTimer
<1> QED BY <1>4, <1>5, <1>6 DEF Registration, Known

(* The answer to the registration.                                           *)
LEMMA AnswerKeepsAgent ==
  ASSUME Typed, Registration, Known, agent_register_cb, Ours
  PROVE  Registration' /\ Known'
<1> USE WithoutAll
<1>1. PICK s, t : /\ Step(1, s, 0, t)
                  /\ AnswerIgnored(s, t) \/ AnswerRefused(s, t) \/ AnswerTaken(s, t)
  BY RegistrationAnswered
<1>2. /\ to_connman[1].type = "Registered" /\ to_connman # <<>>
      /\ UNCHANGED <<pold, connman, starting, agents, faults>> /\ connman # 0
  BY RegistrationAnswered DEF Ours, manager, Typed, ConnmanOff, Registered
<1>3. Without(s, News) /\ Without(t, Agency)
  BY <1>1 DEF AnswerIgnored, AnswerRefused, AnswerTaken
<1>4. CASE AnswerIgnored(s, t)
  <2>1. ~Asking /\ UNCHANGED plugin
    BY <1>4 DEF Asking, AnswerIgnored
  <2>2. Spares(to_connman, 1, {"disappeared"}) /\ Spares(to_connman, 1, {"appeared"}) /\ Spares(to_pold, 0, {"RegisterAgent"})
    BY <1>2 DEF Spares
  <2>3. Elsewhere(1, s, 0, t)
    BY <1>1, <1>2, <1>3, <2>1, <2>2, Away
  <2> QED BY <2>3, AgentKeeps
<1>5. CASE AnswerRefused(s, t) \/ AnswerTaken(s, t)
  <2>1. PICK q, p, v : q = to_connman /\ p = to_connman' /\ v = to_connman[1].value
    OBVIOUS
  <2>2. Moved(q, p, 1, s) /\ Moved(to_pold, to_pold', 0, t)
    BY <1>1, <2>1 DEF Step
  <2>3. /\ Without(t, {"AgentLeft", "UnregisterAgent"}) /\ Without(t, {"RegisterAgent"})
        /\ Without(s, {"disappeared"}) /\ Without(s, {"Registered", "disappeared"})
    BY <1>3 DEF Without, Agency, News
  <2>4. Left'
    BY <1>2, <2>2, <2>3, LeftKeeps DEF Known
  <2>5. ASSUME NoTimer PROVE Once' /\ Orderly' /\ Progress'
    <3>1. Once /\ Orderly /\ Progress
      BY <1>2, <2>5 DEF Registration, Known
    <3>2. Once'
      BY <1>2, <2>2, <2>3, <3>1, OnceKeeps
    <3>3. (Requested' => Requested) /\ (Admitted' <=> Admitted) /\ (Both' <=> Both)
      BY <1>2, <2>2, <2>3, RequestedSame DEF Admitted, Both
    <3>4. register_call
      BY <1>5 DEF AnswerRefused, AnswerTaken
    <3>5. Asking /\ \A i \in DOMAIN q : Answer(q, i) => ~Requested /\ Awaiting(to_connman, i)
      BY <2>1, <3>1, <3>4 DEF Orderly, Out, In, Stuck
    <3>6. 1 \in DOMAIN q /\ \A k \in DOMAIN q : k \in Nat /\ k >= 1
      BY <1>2, <2>1, Queues
    <3>7. Answer(q, 1)
      BY <1>2, <2>1, <3>6 DEF Answer, No
    <3>8. ~Requested /\ (Admitted => v # NULL /\ ~Has(q, "disappeared")) /\ RestExcused(q, 1)
      BY <2>1, <3>5, <3>6, <3>7 DEF Awaiting
    <3>9. Spares(q, 1, {"disappeared"}) /\ Spares(q, 1, {"appeared"})
      BY <1>2, <2>1 DEF Spares
    <3>10. InQueue(p)
      <4>1. QueuesFollow(q, p, 1)
        BY <2>2, <2>3, <3>9, Followed
      <4>2. RestExcused(p, 1 - 1)
        BY <3>6, <3>8, <4>1 DEF QueuesFollow
      <4>3. \A k \in DOMAIN p : k > 1 - 1
        BY <2>2, Indices
      <4> QED BY <4>2, <4>3 DEF RestExcused, InQueue
    <3>11. /\ Has(q, "disappeared") => Has(p, "disappeared")
           /\ Has(p, "disappeared") => Has(q, "disappeared")
      <4>1. Has(q, "disappeared") => Has(p, "disappeared")
        BY ONLY <2>2, <3>9, HasFollows
      <4>2. Has(p, "disappeared") => \E j \in DOMAIN q : j > 1 /\ q[j].type = "disappeared"
        BY ONLY <2>2, <2>3, HasFollows
      <4> QED BY <4>1, <4>2 DEF Has
    <3>12. ASSUME NEW i \in DOMAIN q, Answered(i) PROVE i = 1
      <4>1. No(q, 0, i, {"Registered", "disappeared"})
        BY <2>1, <3>12 DEF Answered, Answer
      <4>2. ~(1 < i)
        BY <1>2, <2>1, <3>6, <4>1 DEF No
      <4> QED BY <3>6, <4>2
    <3>13. Has(q, "disappeared") \/ Answered(1)
      BY <2>1, <3>1, <3>5, <3>8, <3>12 DEF Progress
    <3>14. ASSUME Both, Has(q, "disappeared") \/ v = NULL PROVE Awaits(0)'
      <4>1. "connman" \in starting \/ Coming(q, 0) \/ Coming(q, 1)
        <5>1. CASE Has(q, "disappeared")
          BY <2>1, <3>1, <3>14, <5>1 DEF Progress, Awaits
        <5>2. CASE ~Has(q, "disappeared")
          BY <2>1, <3>13, <3>14, <5>2 DEF Answered, Awaits
        <5> QED BY <5>1, <5>2
      <4>2. ASSUME NEW i \in {0, 1}, Coming(q, i) PROVE Coming(p, 0)
        BY <2>2, <2>3, <3>9, <4>2, ComingFollows
      <4> QED BY <1>2, <2>1, <4>1, <4>2 DEF Awaits
    <3>15. CASE AnswerRefused(s, t)
      <4>1. Out' /\ v = NULL
        BY <2>1, <3>5, <3>15 DEF Out, Asking, AnswerRefused
      <4>2. Orderly'
        BY <2>1, <3>3, <3>8, <3>10, <4>1 DEF Orderly, OutQueue, InQueue
      <4>3. Progress'
        BY <3>3, <3>14, <4>1 DEF Progress, Out, In, Asking, Stuck
      <4> QED BY <3>2, <4>2, <4>3
    <3>16. CASE AnswerTaken(s, t)
      <4>1. In' /\ v # NULL
        BY <2>1, <3>5, <3>16 DEF In, Asking, AnswerTaken
      <4>2. Orderly'
        BY <2>1, <3>3, <3>8, <3>10, <3>11, <4>1 DEF Orderly
      <4>3. Admitted \/ Has(p, "disappeared")
        BY <2>1, <3>11, <3>13, <4>1 DEF Answered
      <4>4. Progress'
        BY <2>1, <3>3, <3>11, <3>14, <4>1, <4>3 DEF Progress, Out, In, Asking, Stuck
      <4> QED BY <3>2, <4>2, <4>4
    <3> QED BY <1>5, <3>15, <3>16
  <2>6. NoTimer' => NoTimer
    BY <1>2 DEF NoTimer
  <2> QED BY <2>4, <2>5, <2>6 DEF Registration, Known
<1> QED BY <1>1, <1>4, <1>5

(* With the timer, all bets are off.                                         *)
LEMMA TimeoutKeepsAgent ==
  ASSUME Typed, Registration, Known, RegisterTimeout, Ours
  PROVE  Registration' /\ Known'
<1>1. ~NoTimer' /\ UNCHANGED connman /\ Moved(to_pold, to_pold', 0, <<>>)
  BY RegistrationLate DEF NoTimer, Step
<1>2. Left'
  BY <1>1, LeftKeeps, WithoutAll DEF Known
<1> QED BY <1>1, <1>2 DEF Registration, Known
-----------------------------------------------------------------------------
(* A message behind the queue.                                               *)
LEMMA OneMore ==
  ASSUME NEW q, NEW p, NEW m, Moved(q, p, 0, <<m>>)
  PROVE  /\ Len(q) \in Nat /\ Len(q) + 1 \in DOMAIN p /\ p[Len(q) + 1] = m
         /\ \A i \in DOMAIN q : i \in DOMAIN p /\ p[i] = q[i] /\ i \in Nat /\ i >= 1 /\ i <= Len(q)
         /\ \A i \in DOMAIN p : i \in Nat /\ i >= 1 /\ ((i \in DOMAIN q /\ p[i] = q[i]) \/ i = Len(q) + 1)
<1>1. DOMAIN <<m>> = {1} /\ <<m>>[1] = m /\ Len(<<m>>) = 1
  OBVIOUS
<1>2. PICK s : s = <<m>>
  OBVIOUS
<1>3. /\ Len(q) \in Nat /\ DOMAIN q = 1 .. Len(q) /\ DOMAIN p = 1 .. Len(q) + 1
      /\ \A i \in 1 .. Len(q) : p[i] = q[i]
      /\ p[Len(q) + 1] = m
  BY <1>1 DEF Moved
<1> QED BY <1>3

(* pold registers an agent.                                                  *)
LEMMA RegisteredKeepsAgent ==
  ASSUME Typed, Registration, Known, pold_manager_register_agent
  PROVE  Registration' /\ Known'
<1> USE WithoutAll
<1>1. PICK s : /\ Step(0, s, 1, <<>>)
               /\ s = IF connman = to_pold[1].value
                      THEN <<Message("Registered", NULL, 0, pold)>> ELSE <<>>
  BY AgentRegistered
<1>2. /\ to_pold[1].type = "RegisterAgent" /\ to_pold # <<>> /\ pold # 0
      /\ UNCHANGED <<plugin, pold, connman, starting, faults>>
      /\ to_pold[1].value \notin agents /\ agents' = agents \cup {to_pold[1].value}
      /\ to_pold[1].value # 0 /\ pold # NULL
  BY AgentRegistered, NullApart DEF Theirs, lives, Agents, Typed, LifeTypes
<1>3. PICK q, p, pp, pp1, m : /\ q = to_connman /\ p = to_connman' /\ pp = to_pold /\ pp1 = to_pold'
                              /\ m = Message("Registered", NULL, 0, pold)
  OBVIOUS
<1>4. Moved(q, p, 0, s) /\ Moved(pp, pp1, 1, <<>>)
  BY <1>1, <1>3 DEF Step
<1>5. Left'
  BY <1>2, <1>3, <1>4, LeftKeeps DEF Known
<1>6. ASSUME NoTimer PROVE Once'
  <2>1. Once
    BY <1>6 DEF Registration
  <2> QED BY <1>2, <1>3, <1>4, <2>1, OnceKeeps
<1>7. (Out' <=> Out) /\ (Asking' <=> Asking) /\ (In' <=> In) /\ (Stuck' <=> Stuck) /\ (Both' <=> Both)
  BY <1>2 DEF plugin, Out, Asking, In, Stuck, Both
<1>8. ASSUME NoTimer, connman # 0 PROVE Orderly' /\ Progress'
  <2>1. Once /\ Orderly /\ Progress
    BY <1>8 DEF Registration, Known
  <2>2. CASE connman # to_pold[1].value
    <3>1. s = <<>> /\ (Admitted' <=> Admitted)
      BY <1>1, <1>2, <2>2 DEF Admitted
    <3>2. Requested' <=> Requested
      BY <1>2, <1>3, <1>4, <2>2, RequestedSame
    <3>3. Moved(to_connman, to_connman', 0, s) /\ Without(s, {"Registered", "disappeared"})
      BY <1>3, <1>4, <3>1
    <3>4. Orderly'
      BY <1>2, <2>1, <3>1, <3>2, <3>3, OrderlyKeeps
    <3>5. Progress'
      BY <1>2, <2>1, <3>1, <3>2, <3>3, ProgressKeeps
    <3> QED BY <3>4, <3>5
  <2>3. CASE connman = to_pold[1].value
    <3>1. s = <<m>> /\ m.type = "Registered" /\ m.value = pold
      BY <1>1, <1>3, <2>3 DEF Message
    <3>2. Requested
      <4>1. 1 \in DOMAIN to_pold
        BY <1>2, Queues
      <4> QED BY <1>2, <2>3, <4>1 DEF Requested
    <3>3. ~Requested'
      <4>1. ASSUME NEW i \in DOMAIN pp1, pp1[i].type = "RegisterAgent", pp1[i].value = connman PROVE FALSE
        <5>1. i + 1 \in DOMAIN pp /\ pp1[i] = pp[i + 1]
          <6>1. PICK T : T = {"RegisterAgent"}
            OBVIOUS
          <6>2. Without(<<>>, T) /\ pp1[i].type \in T
            BY <4>1, <6>1
          <6> QED BY ONLY <1>4, <6>2, FromBefore
        <5>4. 1 \in DOMAIN pp
          BY <1>2, <1>3, Queues
        <5>2. i + 1 = 1
          BY <1>2, <1>3, <2>1, <2>3, <4>1, <5>1, <5>4 DEF Once
        <5>3. i \in Nat /\ i >= 1
          BY <1>4, Indices
        <5> QED BY <5>2, <5>3
      <4> QED BY <1>2, <1>3, <4>1 DEF Requested
    <3>4. Admitted'
      BY <1>2, <2>3 DEF Admitted
    <3>5. Moved(q, p, 0, <<m>>) /\ Without(<<m>>, {"disappeared"})
      BY <1>4, <3>1
    <3>6. PICK n : n = Len(q) + 1
      OBVIOUS
    <3>7. /\ n \in Nat /\ n \in DOMAIN p /\ p[n] = m
          /\ \A i \in DOMAIN q : i \in DOMAIN p /\ p[i] = q[i] /\ i \in Nat /\ i >= 1 /\ i < n
          /\ \A i \in DOMAIN p : i \in Nat /\ i >= 1 /\ ((i \in DOMAIN q /\ p[i] = q[i]) \/ i = n)
      BY <3>5, <3>6, OneMore
    <3>8. Both /\ Has(p, "disappeared") => Awaits(0)'
      <4>1. ASSUME Both, Has(p, "disappeared") PROVE Awaits(0)'
        <5>1. Has(q, "disappeared")
          BY <3>1, <3>7, <4>1 DEF Has
        <5>2. "connman" \in starting \/ Coming(q, 0)
          BY <1>3, <2>1, <4>1, <5>1 DEF Progress, Awaits
        <5>3. Coming(q, 0) => Coming(p, 0)
          BY ONLY <3>5, ComingFollows, 0 \in Nat, 0 >= 0
        <5> QED BY <1>2, <1>3, <5>2, <5>3 DEF Awaits
      <4> QED BY <4>1
    <3>9. CASE Stuck
      <4>1. Orderly'
        BY <1>7, <3>9 DEF Orderly
      <4>2. Stuck' /\ "abandoned" \in faults'
        BY <1>2, <1>7, <2>1, <3>9 DEF Progress
      <4>3. Progress'
        BY <1>3, <1>7, <3>8, <4>2 DEF Progress, Out, In, Asking, Stuck
      <4> QED BY <4>1, <4>3
    <3>10. CASE Asking /\ LateQueue(q)
      <4>1. \A i \in DOMAIN q : i \in Nat /\ i >= 1
        BY <3>7
      <4>2. ASSUME NEW i \in DOMAIN p, Answer(p, i) PROVE i = n
        <5>1. SUFFICES ASSUME i \in DOMAIN q, p[i] = q[i] PROVE FALSE
          BY <3>7
        <5>2. Late(q, i)
          BY <3>10, <4>2, <5>1 DEF LateQueue, Answer
        <5>3. PICK j \in DOMAIN q : j < i /\ q[j].type = "disappeared"
          BY <5>2 DEF Late
        <5>4. j \in DOMAIN p /\ p[j].type = "disappeared" /\ 0 < j
          BY <3>7, <5>3
        <5> QED BY <4>2, <5>3, <5>4 DEF Answer, No
      <4>3. ASSUME Answer(p, n) PROVE ~Has(p, "disappeared") /\ RestExcused(p, n)
        <5>1. RestExcused(p, n)
          BY <3>7 DEF RestExcused
        <5>2. ASSUME NEW j \in DOMAIN p, p[j].type = "disappeared" PROVE FALSE
          <6>1. j < n /\ 0 < j
            BY <3>1, <3>7, <5>2
          <6> QED BY <4>3, <5>2, <6>1 DEF Answer, No
        <5> QED BY <5>1, <5>2 DEF Has
      <4>4. Orderly'
        <5>1. ASSUME NEW i \in DOMAIN p, Answer(p, i) PROVE Awaiting(p, i)'
          <6>1. i = n
            BY <4>2, <5>1
          <6>2. p[n].value # NULL
            BY <1>2, <3>1, <3>7
          <6> QED BY <4>3, <5>1, <6>1, <6>2, <1>3 DEF Awaiting
        <5>2. \A i \in DOMAIN p : Answer(p, i) => ~Requested' /\ Awaiting(p, i)'
          BY <3>3, <5>1
        <5> QED BY <1>3, <1>7, <3>3, <3>10, <5>2 DEF Orderly
      <4>5. ASSUME ~Has(p, "disappeared") PROVE Answered(n)'
        <5>1. ASSUME NEW k \in DOMAIN p, 0 < k, k < n PROVE p[k].type \notin {"Registered", "disappeared"}
          <6>1. k \in DOMAIN q /\ p[k] = q[k]
            BY <3>7, <5>1
          <6>2. p[k].type # "disappeared"
            BY <4>5 DEF Has
          <6>3. ASSUME p[k].type = "Registered" PROVE FALSE
            <7>1. Late(q, k)
              BY <3>10, <6>1, <6>3 DEF LateQueue
            <7>2. PICK j \in DOMAIN q : q[j].type = "disappeared"
              BY <7>1 DEF Late
            <7> QED BY <3>7, <4>5, <7>2 DEF Has
          <6> QED BY <6>2, <6>3
        <5>2. Answer(p, n)
          BY <3>1, <3>7, <5>1 DEF Answer, No
        <5>3. p[n].value # NULL
          BY <1>2, <3>1, <3>7
        <5> QED BY <1>3, <3>4, <5>2, <5>3 DEF Answered
      <4>6. Progress'
        <5>1. Asking' => Has(p, "disappeared") \/ \E i \in DOMAIN p : Answered(i)'
          BY <3>7, <4>5
        <5> QED BY <1>3, <1>7, <3>8, <3>10, <5>1 DEF Progress, Out, In, Asking, Stuck
      <4> QED BY <4>4, <4>6
    <3> QED BY <1>3, <2>1, <3>2, <3>9, <3>10 DEF Orderly
  <2> QED BY <2>2, <2>3
<1>9. (NoTimer' <=> NoTimer) /\ connman' = connman
  BY <1>2 DEF NoTimer
<1> QED BY <1>5, <1>6, <1>8, <1>9 DEF Registration, Known

(* pold forgets agents of processes that have left only.                     *)
LEMMA ForgottenKeepsAgent ==
  ASSUME Typed, Registration, Known, pold_manager_unregister_agent \/ owner_disconnect
  PROVE  Registration' /\ Known'
<1> USE WithoutAll
<1>1. /\ to_pold[1].type \in {"UnregisterAgent", "AgentLeft"} /\ to_pold # <<>>
      /\ Forget(to_pold[1].value) \/ agents' = agents
      /\ UNCHANGED <<plugin, pold, connman, starting, faults>> /\ Step(0, <<>>, 1, <<>>)
  BY AgentForgotten DEF Theirs, lives, Agents
<1>2. 1 \in DOMAIN to_pold
  BY <1>1, Queues
<1>3. to_pold[1].value # connman
  BY <1>1, <1>2 DEF Known, Left
<1>4. (Admitted' <=> Admitted) /\ agents' \subseteq agents
  BY <1>1, <1>3 DEF Admitted, Forget
<1>5. Elsewhere(0, <<>>, 1, <<>>)
  BY <1>1, <1>4 DEF Elsewhere, Spares
<1> QED BY <1>5, AgentKeeps
-----------------------------------------------------------------------------
(* The plugin will hear that pold runs, or pold does not run.                *)
LEMMA TidingsKeepAgent ==
  ASSUME Typed, Registration, Known, NEW s, NEW t, Step(0, s, 0, t),
         UNCHANGED <<plugin, connman, agents, faults>>, Without(t, Agency),
         connman # 0 => s = <<Plain0("appeared")>> \/ (pold' = 0 /\ pold = 0 /\ s = <<>>)
  PROVE  Registration' /\ Known'
<1> USE WithoutAll
<1>1. PICK q, p : q = to_connman /\ p = to_connman'
  OBVIOUS
<1>2. Moved(q, p, 0, s) /\ Moved(to_pold, to_pold', 0, t)
  BY <1>1 DEF Step
<1>3. Without(t, {"RegisterAgent"}) /\ Without(t, {"AgentLeft", "UnregisterAgent"})
  BY DEF Without, Agency
<1>4. Left'
  BY <1>2, <1>3, LeftKeeps DEF Known
<1>5. ASSUME NoTimer PROVE Once'
  <2>1. Once
    BY <1>5 DEF Registration
  <2> QED BY <1>2, <1>3, <2>1, OnceKeeps
<1>6. /\ (Out' <=> Out) /\ (Asking' <=> Asking) /\ (In' <=> In) /\ (Stuck' <=> Stuck)
      /\ (Admitted' <=> Admitted)
  BY DEF plugin, Out, Asking, In, Stuck, Admitted
<1>7. Requested' <=> Requested
  BY <1>2, <1>3, RequestedSame
<1>8. ASSUME NoTimer, connman # 0 PROVE Orderly' /\ Progress'
  <2>1. Orderly /\ Progress
    BY <1>8 DEF Registration, Known
  <2>2. Without(s, {"Registered", "disappeared"}) /\ Without(s, {"disappeared"})
    BY <1>8 DEF Plain0, Message
  <2>3. Orderly'
    <3>1. Moved(to_connman, to_connman', 0, s)
      BY <1>1, <1>2
    <3>2. Spares(to_connman, 0, {"disappeared"}) /\ Spares(to_connman, 0, {"Registered"})
      OBVIOUS
    <3>3. (Admitted' => Admitted) /\ (Requested' => Requested)
      BY <1>6, <1>7
    <3> QED BY <2>1, <2>2, <3>1, <3>2, <3>3, OrderlyKeeps
  <2>4. \A i \in DOMAIN q : i \in Nat /\ i >= 1 /\ i >= 0 /\ i <= Len(q) /\ i - 0 = i
    BY <1>2, Indices
  <2>5. ASSUME Both' PROVE Awaits(0)' /\ \A i \in DOMAIN q : Awaits(i)'
    <3>1. PICK m : m = Plain0("appeared")
      OBVIOUS
    <3>2. s = <<m>> /\ m.type = "appeared"
      BY <1>8, <2>5, <3>1 DEF Both, Plain0, Message
    <3>3. PICK n : n = Len(q) + 1
      OBVIOUS
    <3>4. /\ n \in Nat /\ n \in DOMAIN p /\ p[n] = m
          /\ \A i \in DOMAIN p : i \in Nat /\ i >= 1 /\ i <= n
          /\ \A i \in DOMAIN q : i < n
      BY <1>2, <2>4, <3>2, <3>3, OneMore
    <3>5. \A j \in DOMAIN p : ~(j > n)
      BY <3>4
    <3>6. Coming(p, 0) /\ \A i \in DOMAIN q : Coming(p, i)
      BY <2>4, <3>2, <3>4, <3>5 DEF Coming
    <3> QED BY <1>1, <3>6 DEF Awaits
  <2>6. /\ Has(q, "disappeared") => Has(p, "disappeared")
    BY <1>2, HasFollows
  <2>7. ASSUME NEW i \in DOMAIN q, Answered(i) PROVE i \in DOMAIN p /\ Answered(i)'
    <3>1. i - 0 \in DOMAIN p /\ p[i - 0] = q[i] /\ Answer(p, i - 0)
      <4>1. i > 0 /\ Answer(q, i)
        BY <1>1, <2>4, <2>7 DEF Answered
      <4> QED BY ONLY <1>2, <4>1, i \in DOMAIN q, AnswerFollows
    <3>2. i \in DOMAIN p /\ p[i] = q[i] /\ Answer(p, i)
      BY <2>4, <3>1
    <3>3. p[i].value # NULL => Admitted'
      BY <1>1, <1>6, <2>7, <3>2 DEF Answered
    <3> QED BY <1>1, <2>5, <3>2, <3>3 DEF Answered
  <2>8. In => Admitted' \/ Has(p, "disappeared")
    BY <1>1, <1>6, <2>1, <2>6 DEF Progress
  <2>9. Asking => Requested' \/ Has(p, "disappeared") \/ \E i \in DOMAIN p : Answered(i)'
    BY <1>1, <1>7, <2>1, <2>6, <2>7 DEF Progress
  <2>10. Stuck => "abandoned" \in faults'
    BY <2>1 DEF Progress
  <2>11. Progress'
    BY <1>1, <1>6, <2>5, <2>8, <2>9, <2>10 DEF Progress
  <2> QED BY <2>3, <2>11
<1>9. (NoTimer' <=> NoTimer) /\ connman' = connman
  BY DEF NoTimer
<1> QED BY <1>4, <1>5, <1>8, <1>9 DEF Registration, Known

(* The answer to GetNameOwner.                                               *)
LEMMA OwnerFoundKeepsAgent ==
  ASSUME Typed, Registration, Known, NEW x \in starting, GetNameOwner(x)
  PROVE  Registration' /\ Known'
<1> USE WithoutAll
<1>1. PICK s, t : /\ Step(0, s, 0, t)
                  /\ s = IF x = "connman" /\ pold # 0 THEN <<Plain0("appeared")>> ELSE <<>>
                  /\ t = IF x = "pold" /\ connman # 0 THEN <<Plain0("appeared")>> ELSE <<>>
  BY OwnerFound
<1>2. /\ starting' = starting \ {x}
      /\ UNCHANGED <<pold, connman, plugin, agents, faults>>
  BY OwnerFound DEF manager
<1>3. Without(s, News) /\ Without(t, Agency)
  BY <1>1 DEF Plain0, Message, News, Agency
<1>4. CASE x # "connman"
  <2>1. "connman" \in starting => "connman" \in starting'
    BY <1>2, <1>4
  <2>2. Admitted' <=> Admitted
    BY <1>2 DEF Admitted
  <2>3. Elsewhere(0, s, 0, t)
    BY <1>1, <1>2, <1>3, <2>1, <2>2 DEF Elsewhere, News, Agency
  <2> QED BY <2>3, AgentKeeps
<1>5. CASE x = "connman"
  <2>1. s = <<Plain0("appeared")>> \/ (pold' = 0 /\ pold = 0 /\ s = <<>>)
    BY <1>1, <1>2, <1>5
  <2> QED BY <1>1, <1>2, <1>3, <2>1, TidingsKeepAgent
<1> QED BY <1>4, <1>5

(* pold starts with no agents, and the plugin hears of it behind all it      *)
(* heard of the last.                                                        *)
LEMMA PoldStartsKeepsAgent ==
  ASSUME Typed, Registration, Known, PoldStarts
  PROVE  Registration' /\ Known'
<1>1. PICK s : /\ Step(0, s, 0, <<>>)
               /\ s = IF connman = 0 THEN <<>> ELSE <<Plain0("appeared")>>
  BY PoldRuns
<1>2. UNCHANGED <<plugin, connman, agents, faults>>
  BY PoldRuns DEF manager
<1> QED BY <1>1, <1>2, TidingsKeepAgent, WithoutAll

(* What pold leaves behind in the plugin's queue.                            *)
LEMMA Deserted ==
  ASSUME NEW q, NEW p, NEW s, Moved(q, p, 0, s), Farewell(s)
  PROVE  /\ Has(p, "disappeared")
         /\ \A i \in DOMAIN p : p[i].type = "Registered" =>
              (i \in DOMAIN q /\ p[i] = q[i]) \/ (register_call /\ Excused(p, i))
         /\ \A i \in DOMAIN p : Answer(p, i) => i \in DOMAIN q /\ p[i] = q[i] /\ Answer(q, i)
         /\ \A i \in DOMAIN q : Excused(q, i) => Excused(p, i)
<1>1. PICK n : n = Len(q)
  OBVIOUS
<1>2. /\ n \in Nat /\ DOMAIN q = 1 .. n
      /\ \A i \in DOMAIN p : i \in Nat /\ i >= 1
      /\ \A k \in DOMAIN s : k \in Nat /\ k >= 1 /\ n + k \in DOMAIN p /\ p[n + k] = s[k]
      /\ \A i \in DOMAIN p : (i \in DOMAIN q /\ p[i] = q[i]) \/ (i > n /\ i - n \in DOMAIN s /\ p[i] = s[i - n])
  <2>1. n \in Nat /\ DOMAIN q = 1 .. n /\ DOMAIN p = 1 .. n + Len(s) /\ DOMAIN s = 1 .. Len(s) /\ Len(s) \in Nat
    BY <1>1 DEF Moved
  <2>2. \A k \in DOMAIN s : n + k \in DOMAIN p /\ p[n + k] = s[k]
    BY <1>1, <2>1 DEF Moved
  <2>3. \A i \in DOMAIN p : (i \in DOMAIN q /\ p[i] = q[i]) \/ (i > n /\ i - n \in DOMAIN s /\ p[i] = s[i - n])
    <3> TAKE i \in DOMAIN p
    <3>1. CASE i <= n
      <4>1. i \in 1 .. n /\ i + 0 = i /\ n - 0 = n
        BY <2>1, <3>1
      <4> QED BY <1>1, <2>1, <4>1 DEF Moved
    <3>2. CASE i > n
      <4>1. i - n \in DOMAIN s /\ n + (i - n) = i
        BY <2>1, <3>2
      <4> QED BY <2>2, <3>2, <4>1
    <3> QED BY <2>1, <3>1, <3>2
  <2> QED BY <2>1, <2>2, <2>3
<1>3. /\ n + 1 \in DOMAIN p /\ p[n + 1].type = "disappeared"
      /\ n + 2 \in DOMAIN p /\ p[n + 2].type = "OwnerLeft"
  BY <1>2 DEF Farewell, Plain0, Message
<1>4. ASSUME NEW i \in DOMAIN p, i > n, p[i].type = "Registered"
      PROVE  register_call /\ i = n + 3
  <2>1. i - n \in DOMAIN s /\ p[i] = s[i - n] /\ i \in Nat /\ i - n >= 1
    BY <1>2, <1>4
  <2>2. PICK k : k = i - n
    OBVIOUS
  <2>3. k \in DOMAIN s /\ s[k].type = "Registered" /\ k \in Nat /\ k # 1 /\ k # 2 /\ k >= 1
    BY <1>2, <1>3, <1>4, <2>1, <2>2
  <2>4. k > 2
    BY <2>3
  <2>5. register_call /\ k = 3
    BY <2>3, <2>4 DEF Farewell, PolicyMessage
  <2> QED BY <1>2, <2>1, <2>2, <2>5
<1>5. ASSUME n + 3 \in DOMAIN p PROVE Excused(p, n + 3)
  <2>1. n + 1 < n + 3 /\ \A k \in Nat : n + 1 < k /\ k < n + 3 => k = n + 2
    BY <1>2
  <2>2. No(p, n + 1, n + 3, {"appeared"})
    BY <1>2, <1>3, <2>1 DEF No
  <2> QED BY <1>3, <2>1, <2>2 DEF Excused
<1>6. ASSUME NEW i \in DOMAIN p, p[i].type = "Registered"
      PROVE  (i \in DOMAIN q /\ p[i] = q[i]) \/ (register_call /\ Excused(p, i))
  BY <1>2, <1>4, <1>5, <1>6
<1>7. ASSUME NEW i \in DOMAIN p, Answer(p, i) PROVE i \in DOMAIN q /\ p[i] = q[i] /\ Answer(q, i)
  <2>1. i \in DOMAIN q /\ p[i] = q[i]
    <3>1. SUFFICES ASSUME i > n PROVE FALSE
      BY <1>2
    <3>2. i = n + 3
      BY <1>4, <1>7, <3>1 DEF Answer
    <3>3. 0 < n + 1 /\ n + 1 < i
      BY <1>2, <3>2
    <3> QED BY <1>3, <1>7, <3>3 DEF Answer, No
  <2>2. \A k \in DOMAIN q : k \in DOMAIN p /\ p[k] = q[k]
    <3>1. \A k \in DOMAIN q : k > 0 => k - 0 \in DOMAIN p /\ p[k - 0] = q[k]
      BY Places
    <3>2. \A k \in DOMAIN q : k > 0 /\ k - 0 = k
      BY <1>2
    <3> QED BY <3>1, <3>2
  <2> QED BY <1>7, <2>1, <2>2 DEF Answer, No
<1>8. ASSUME NEW i \in DOMAIN q, Excused(q, i) PROVE Excused(p, i)
  <2>1. i > 0 /\ i - 0 = i /\ 0 # 1
    BY <1>2
  <2>2. Excused(p, i - 0)
    BY <1>8, <2>1, ExcusedFollows
  <2> QED BY <2>1, <2>2
<1> QED BY <1>3, <1>6, <1>7, <1>8 DEF Has

(* pold stops: the plugin hears of it before its calls fail.                 *)
LEMMA PoldStopsKeepsAgent ==
  ASSUME Typed, Registration, Known, PoldStops
  PROVE  Registration' /\ Known'
<1>1. /\ pold' = 0 /\ to_pold' = <<>> /\ agents' = {} /\ UNCHANGED <<connman, plugin, faults>>
      /\ connman # 0 => \E s : s \in Seq(ForConnman) /\ Moved(to_connman, to_connman', 0, s) /\ Farewell(s)
  BY PoldLeaves
<1>2. Left' /\ Once' /\ ~Requested' /\ ~Admitted' /\ ~Both'
  <2>1. DOMAIN to_pold' = {}
    BY <1>1
  <2> QED BY <1>1, <2>1 DEF Left, Once, Requested, Admitted, Both
<1>3. (Out' <=> Out) /\ (Asking' <=> Asking) /\ (In' <=> In) /\ (Stuck' <=> Stuck)
  BY <1>1 DEF plugin, Out, Asking, In, Stuck
<1>4. ASSUME NoTimer, connman # 0 PROVE Orderly' /\ Progress'
  <2>1. PICK s : s \in Seq(ForConnman) /\ Moved(to_connman, to_connman', 0, s) /\ Farewell(s)
    BY <1>1, <1>4
  <2>2. PICK q, p : q = to_connman /\ p = to_connman'
    OBVIOUS
  <2>3. Moved(q, p, 0, s) /\ Orderly /\ Progress
    BY <1>4, <2>1, <2>2 DEF Registration, Known
  <2>4. /\ Has(p, "disappeared")
        /\ \A i \in DOMAIN p : p[i].type = "Registered" =>
             (i \in DOMAIN q /\ p[i] = q[i]) \/ (register_call /\ Excused(p, i))
        /\ \A i \in DOMAIN p : Answer(p, i) => i \in DOMAIN q /\ p[i] = q[i] /\ Answer(q, i)
        /\ \A i \in DOMAIN q : Excused(q, i) => Excused(p, i)
    BY <2>1, <2>3, Deserted
  <2>5. ASSUME Out, OutQueue(q) PROVE Orderly'
    <3>1. ASSUME NEW i \in DOMAIN p, p[i].type = "Registered" PROVE Excused(p, i) \/ No(p, 0, i, {"appeared"})
      <4>1. i \in DOMAIN q /\ p[i] = q[i]
        BY <2>4, <2>5, <3>1 DEF Out
      <4>2. CASE No(q, 0, i, {"appeared"})
        <5>1. i > 0 /\ i - 0 = i
          BY <2>3, <4>1, Indices
        <5>2. No(p, 0, i - 0, {"appeared"})
          BY ONLY <2>3, <4>1, <4>2, <5>1, NoFrom0
        <5> QED BY <5>1, <5>2
      <4> QED BY <2>4, <2>5, <3>1, <4>1, <4>2 DEF OutQueue
    <3>2. OutQueue(p)
      BY ONLY <3>1 DEF OutQueue
    <3> QED BY <1>2, <1>3, <2>2, <2>5, <3>2 DEF Orderly
  <2>6. ASSUME In, InQueue(q) PROVE Orderly'
    <3>1. InQueue(p)
      BY <2>4, <2>6 DEF InQueue
    <3> QED BY <1>2, <1>3, <2>2, <2>6, <3>1 DEF Orderly
  <2>7. ASSUME Asking, \A i \in DOMAIN q : Answer(q, i) => RestExcused(q, i) PROVE Orderly'
    <3>1. ASSUME NEW i \in DOMAIN p, Answer(p, i) PROVE RestExcused(p, i)
      <4>1. RestExcused(q, i)
        BY <2>4, <2>7, <3>1
      <4> QED BY <2>4, <4>1 DEF RestExcused
    <3>2. \A i \in DOMAIN p : Answer(p, i) => ~Requested' /\ Awaiting(p, i)'
      BY <1>2, <3>1 DEF Awaiting
    <3> QED BY <1>2, <1>3, <2>2, <2>7, <3>2 DEF Orderly
  <2>8. ASSUME Stuck PROVE Orderly'
    BY <1>3, <2>8 DEF Orderly
  <2>9. Orderly'
    BY <2>2, <2>3, <2>5, <2>6, <2>7, <2>8 DEF Orderly, Awaiting
  <2>10. Progress'
    BY <1>1, <1>2, <1>3, <2>2, <2>3, <2>4 DEF Progress
  <2> QED BY <2>9, <2>10
<1>5. (NoTimer' <=> NoTimer) /\ connman' = connman
  BY <1>1 DEF NoTimer
<1> QED BY <1>2, <1>4, <1>5 DEF Registration, Known

(* A new process of ConnMan is not known to pold.                            *)
LEMMA ConnmanStartsKeepsAgent ==
  ASSUME Typed, Registration, Known, Numbers, ConnmanStarts
  PROVE  Registration' /\ Known'
<1> USE WithoutAll
<1>1. PICK t : /\ Step(0, <<>>, 0, t)
               /\ t = IF pold = 0 THEN <<>> ELSE <<Plain0("appeared")>>
  BY ConnmanRuns
<1>2. /\ connman' = started.connman + 1 /\ starting' = starting \cup {"connman"} /\ connman' # 0
      /\ UNCHANGED <<pold, agents, plugin, to_connman, faults>> /\ connman = 0
      /\ to_connman = <<>> /\ ~agent_registered /\ ~interface /\ ~register_call /\ started.connman \in Nat
  BY ConnmanRuns DEF manager, Typed, ConnmanOff
<1>3. /\ Without(t, {"RegisterAgent"}) /\ Without(t, {"AgentLeft", "UnregisterAgent"})
      /\ Moved(to_pold, to_pold', 0, t)
  BY <1>1 DEF Plain0, Message, Step
<1>4. \A c \in agents : c \in Nat /\ c <= started.connman
  BY Counted DEF Numbers
<1>5. ~Admitted'
  BY <1>2, <1>4 DEF Admitted
<1>6. PICK q, p : q = to_pold /\ p = to_pold'
  OBVIOUS
<1>7. \A i \in DOMAIN q : q[i].type \in {"RegisterAgent", "AgentLeft", "UnregisterAgent"} =>
                            q[i].value # connman'
  BY <1>2, <1>6, Counted DEF Numbers, ToPoldKnown
<1>8. ASSUME NEW i \in DOMAIN p, p[i].type \in {"RegisterAgent", "AgentLeft", "UnregisterAgent"}
      PROVE  p[i].value # connman'
  <2>1. PICK T : T = {"RegisterAgent", "AgentLeft", "UnregisterAgent"}
    OBVIOUS
  <2>2. Without(t, T) /\ Moved(q, p, 0, t) /\ p[i].type \in T
    BY <1>3, <1>6, <1>8, <2>1 DEF Without
  <2>3. i + 0 \in DOMAIN q /\ p[i] = q[i + 0]
    BY ONLY <2>2, i \in DOMAIN p, FromBefore
  <2> QED BY <1>7, <1>8, <2>3
<1>9. ~Requested' /\ Left'
  BY <1>6, <1>8 DEF Requested, Left
<1>10. ASSUME NoTimer PROVE Once'
  <2>1. Once
    BY <1>10 DEF Registration
  <2> QED BY <1>2, <1>3, <2>1, OnceKeeps
<1>11. Out' /\ ~In' /\ ~Asking' /\ ~Stuck'
  BY <1>2 DEF plugin, Out, In, Asking, Stuck
<1>12. Orderly'
  <2>1. DOMAIN to_connman' = {}
    BY <1>2
  <2> QED BY <1>5, <1>9, <1>11, <2>1 DEF Orderly, OutQueue
<1>13. Progress'
  BY <1>2, <1>11 DEF Progress, Awaits
<1>14. NoTimer' <=> NoTimer
  BY <1>2 DEF NoTimer
<1> QED BY <1>9, <1>10, <1>12, <1>13, <1>14 DEF Registration, Known

(* Without ConnMan, nothing is to be kept but Once.                          *)
LEMMA ConnmanStopsKeepsAgent ==
  ASSUME Typed, Registration, Known, ConnmanStops
  PROVE  Registration' /\ Known'
<1> USE WithoutAll
<1>1. /\ connman' = 0 /\ UNCHANGED <<pold, agents, faults>> /\ Typed'
      /\ pold # 0 => \E t : t \in Seq(ForPold) /\ Moved(to_pold, to_pold', 0, t) /\ Leaving(t)
  BY ConnmanLeaves DEF manager
<1>2. PICK q : q = to_pold'
  OBVIOUS
<1>3. q \in Seq(ForPold) /\ (pold = 0 => q = <<>>)
  BY <1>1, <1>2 DEF Typed, QueueTypes, PoldOff
<1>4. \A i \in DOMAIN q : q[i] \in ForPold
  BY <1>3, ElementOfSeq
<1>5. Left'
  <2>1. ASSUME NEW i \in DOMAIN q, q[i].type \in {"AgentLeft", "UnregisterAgent"} PROVE q[i].value # 0
    BY <1>4, <2>1, NullApart DEF ForPold, Plain, Agents, Question, SessionMessage, ReleaseMessage
  <2> QED BY <1>1, <1>2, <2>1 DEF Left
<1>6. ASSUME NoTimer PROVE Once'
  <2>1. CASE pold = 0
    <3>1. DOMAIN to_pold' = {}
      BY <1>2, <1>3, <2>1
    <3> QED BY <3>1 DEF Once
  <2>2. CASE pold # 0
    <3>1. PICK t : t \in Seq(ForPold) /\ Moved(to_pold, to_pold', 0, t) /\ Leaving(t)
      BY <1>1, <2>2
    <3>2. Without(t, {"RegisterAgent"})
      BY <3>1 DEF Leaving, Without, Plain0, Message
    <3>3. Once
      BY <1>6 DEF Registration
    <3> QED BY <1>1, <3>1, <3>2, <3>3, OnceKeeps
  <2> QED BY <2>1, <2>2
<1>7. NoTimer' <=> NoTimer
  BY <1>1 DEF NoTimer
<1> QED BY <1>1, <1>5, <1>6, <1>7 DEF Registration, Known
-----------------------------------------------------------------------------
(* The inductive invariant of the registration.                              *)
Agreed == Typed /\ Numbers /\ Registration /\ Known

(* It holds initially.                                                       *)
LEMMA AgreedAtFirst == Init => Agreed
<1> SUFFICES ASSUME Init PROVE Registration /\ Known
  BY TypedInit, NumbersInit DEF Agreed
<1>1. to_pold = <<>> /\ connman = 0 /\ DOMAIN to_pold = {}
  BY DEF Init
<1> QED BY <1>1 DEF Registration, Known, Once, Left

(* Every step keeps it.                                                      *)
LEMMA AgreedStays == Agreed /\ [Next]_vars => Agreed'
<1> SUFFICES ASSUME Agreed, [Next]_vars PROVE Registration' /\ Known'
  BY TypedKept, NumbersKept DEF Agreed
<1>0. Typed /\ Numbers /\ Registration /\ Known
  BY DEF Agreed
<1>1. ASSUME Ours, Connman PROVE Registration' /\ Known'
  <2>1. AsideAtConnman \/ pold_appeared \/ pold_disappeared \/ agent_register_cb \/ RegisterTimeout
    BY <1>1 DEF Connman, PluginHandles, AsideAtConnman
  <2> QED BY <1>0, <1>1, <2>1, AsideKeepsAgent, AppearedKeepsAgent, DisappearedKeepsAgent, AnswerKeepsAgent,
             TimeoutKeepsAgent
<1>2. ASSUME NEW o \in App, policy_pold_create(o), Ours PROVE Registration' /\ Known'
  BY <1>0, <1>2, AsideKeepsAgent DEF AsideAtConnman
<1>3. ASSUME PoldHandles \/ CreateTimeout \/ update_policies_cb \/ \E m \in asked : user_cb(m)
      PROVE  Registration' /\ Known'
  <2>1. AsideAtPold \/ pold_manager_register_agent \/ pold_manager_unregister_agent \/ owner_disconnect
    BY <1>3 DEF PoldHandles, AsideAtPold
  <2> QED BY <1>0, <2>1, PoldAsideKeepsAgent, RegisteredKeepsAgent, ForgottenKeepsAgent
<1>4. ASSUME NEW p \in starting, GetNameOwner(p) PROVE Registration' /\ Known'
  BY <1>0, <1>4, OwnerFoundKeepsAgent
<1>5. CASE PoldStarts \/ PoldStops \/ ConnmanStarts \/ ConnmanStops
  BY <1>0, <1>5, PoldStartsKeepsAgent, PoldStopsKeepsAgent, ConnmanStartsKeepsAgent, ConnmanStopsKeepsAgent
<1>6. CASE UNCHANGED vars
  <2>1. Elsewhere(0, <<>>, 0, <<>>)
    <3>1. UNCHANGED <<plugin, connman, pold, starting, agents, to_connman, to_pold, faults>>
      BY <1>6 DEF vars, lives, plugin, manager
    <3>2. Step(0, <<>>, 0, <<>>)
      <4>1. PICK q, p : q = to_connman /\ p = to_pold
        OBVIOUS
      <4>2. q \in Seq(ForConnman) /\ p \in Seq(ForPold)
        BY <1>0, <4>1 DEF Typed, QueueTypes
      <4>3. Moved(q, q, 0, <<>>) /\ Moved(p, p, 0, <<>>)
        BY ONLY <4>2, Unmoved
      <4> QED BY <3>1, <4>1, <4>3, EmptySeq DEF Step
    <3> QED BY <3>1, <3>2, Away, WithoutAll
  <2> QED BY <1>0, <2>1, AgentKeeps
<1> QED BY <1>1, <1>2, <1>3, <1>4, <1>5, <1>6 DEF Next, Ours

(* So it holds throughout.                                                   *)
LEMMA AlwaysAgreed == Spec => []Agreed
BY AgreedAtFirst, AgreedStays, PTL DEF Spec

(* Whatever starts and stops, pold never gets RegisterAgent from an agent it *)
(* has registered, unless the plugin's RegisterAgent timed out.              *)
THEOREM RegistersOnce == Spec => []NeverRegistersTwice
<1>1. Agreed => NeverRegistersTwice
  <2> SUFFICES ASSUME Agreed, NoTimer, to_pold # <<>>, Head(to_pold).type = "RegisterAgent"
               PROVE  Head(to_pold).value \notin agents
    BY DEF NeverRegistersTwice, NoTimer
  <2>1. Typed /\ Once
    BY DEF Agreed, Registration
  <2>2. 1 \in DOMAIN to_pold /\ to_pold[1] = Head(to_pold)
    BY <2>1, Queues
  <2> QED BY <2>1, <2>2 DEF Once
<1> QED BY <1>1, AlwaysAgreed, PTL

(* Once all is quiet, nothing is left to wait for: the plugin is registered. *)
LEMMA QuietKnown == Agreed => AgentKnown
<1> SUFFICES ASSUME Agreed, Quiet, "abandoned" \notin faults, "unregistered" \notin faults
             PROVE  agent_registered /\ interface /\ connman \in agents
  BY DEF AgentKnown
<1>1. Both /\ to_connman = <<>> /\ to_pold = <<>> /\ starting = {} /\ ~register_call
  BY DEF Quiet
<1>2. Orderly /\ Progress
  BY <1>1 DEF Agreed, Registration, Known, NoTimer, Both
<1>3. DOMAIN to_connman = {} /\ DOMAIN to_pold = {}
  BY <1>1
<1>4. ~Awaits(0) /\ ~Has(to_connman, "disappeared")
  BY <1>1, <1>3 DEF Awaits, Coming, Has
<1>5. ~Out /\ ~Asking /\ ~Stuck
  BY <1>1, <1>2, <1>4 DEF Progress, Asking
<1>6. In
  BY <1>2, <1>5 DEF Orderly
<1> QED BY <1>2, <1>4, <1>6 DEF Progress, In, Admitted

(* When all is quiet, the plugin is registered and pold knows it, unless     *)
(* pold left the registration unanswered or it timed out.                    *)
THEOREM RegistrationSettles == Spec => []AgentKnown
BY QuietKnown, AlwaysAgreed, PTL
-----------------------------------------------------------------------------
(* A session that is being created waits for the agent's registration, for   *)
(* an answer, or for ever; one that is created has a policy.                 *)
WaitsSoundly(o) ==
  session_hash[o] # NULL =>
    /\ session_hash[o].cbd => ~agent_registered
    /\ session[o] = "creating" => session_hash[o].cbd \/ session_hash[o].pending # 0 \/ o \in silent
    /\ session[o] = "created" => session_hash[o].config # NULL
Waiting == \A o \in Owner : WaitsSoundly(o)

(* Steps that leave the sessions alone, and do not complete the              *)
(* registration.                                                             *)
LEMMA WaitingKeeps ==
  ASSUME Waiting, UNCHANGED <<session, session_hash, silent>>, agent_registered' => agent_registered
  PROVE  Waiting'
BY DEF Waiting, WaitsSoundly

(* Steps that change one session.                                            *)
LEMMA WaitingElsewhere ==
  ASSUME Waiting, NEW o \in Owner, SameElsewhere(o), agent_registered' = agent_registered, WaitsSoundly(o)'
  PROVE  Waiting'
<1>1. ASSUME NEW x \in Owner, x # o PROVE WaitsSoundly(x)'
  BY <1>1 DEF Waiting, WaitsSoundly, SameElsewhere
<1> QED BY <1>1 DEF Waiting

(* A new session asks, or waits for the registration.                        *)
LEMMA NewWaits ==
  ASSUME Typed, Waiting, NEW o \in Owner, NewSession(o), agent_registered' = agent_registered
  PROVE  Waiting'
<1>0. PICK n \in Nat \ {0} :
        session_hash' = [session_hash EXCEPT ![o] =
          policy_config(~agent_registered, IF agent_registered THEN n ELSE 0)]
  BY DEF NewSession
<1>1. PICK r : r = policy_config(~agent_registered, IF agent_registered THEN n ELSE 0)
  OBVIOUS
<1>a. session_hash' = [session_hash EXCEPT ![o] = r]
  BY <1>0, <1>1
<1>2. /\ session' = [session EXCEPT ![o] = "creating"]
      /\ session_hash \in [Owner -> PolicyConfig \cup {NULL}]
      /\ session \in [Owner -> {"none", "creating", "created"}]
      /\ agent_registered \in BOOLEAN /\ silent' = silent
  BY DEF NewSession, Typed, SessionTypes, PluginTypes
<1>3. SameElsewhere(o) /\ session_hash'[o] = r /\ session'[o] = "creating"
  BY <1>a, <1>2 DEF SameElsewhere
<1>4. /\ r.cbd => ~agent_registered
      /\ r.cbd \/ r.pending # 0
  <2>1. CASE agent_registered
    <3>1. r = policy_config(FALSE, n)
      BY <1>1, <1>2, <2>1
    <3> QED BY <2>1, <3>1 DEF policy_config
  <2>2. CASE ~agent_registered
    <3>1. r = policy_config(TRUE, 0)
      BY <1>1, <1>2, <2>2
    <3> QED BY <2>2, <3>1 DEF policy_config
  <2> QED BY <2>1, <2>2
<1>5. WaitsSoundly(o)'
  BY <1>3, <1>4 DEF WaitsSoundly
<1> QED BY <1>3, <1>5, WaitingElsewhere

(* A request that ends leaves no session waiting.                            *)
LEMMA FinishedWaits ==
  ASSUME Typed, Waiting, NEW o \in Owner, NEW c, NEW t, Finished(o, c, t), agent_registered' = agent_registered
  PROVE  Waiting'
<1>1. WaitsSoundly(o)'
  <2>1. CASE c = NULL
    BY <2>1 DEF Finished, WaitsSoundly
  <2>2. CASE c # NULL
    <3>1. PICK r : r = policy_config(FALSE, 0)
      OBVIOUS
    <3>2. session_hash'[o] = [r EXCEPT !.config = c] /\ session'[o] = "created"
      BY <2>2, <3>1 DEF Finished
    <3>3. r = [cbd |-> FALSE, pending |-> 0, config |-> NULL]
      BY <3>1 DEF policy_config
    <3>4. session_hash'[o].cbd = FALSE /\ session_hash'[o].config = c
      BY <3>2, <3>3
    <3> QED BY <2>2, <3>2, <3>4 DEF WaitsSoundly
  <2> QED BY <2>1, <2>2
<1> QED BY <1>1, WaitingElsewhere DEF Finished

(* ConnMan's steps.                                                          *)
LEMMA WaitingAtConnman ==
  ASSUME Typed, Waiting, Connman \/ \E o \in App : policy_pold_create(o), Ours
  PROVE  Waiting'
<1>0. Self \in Owner /\ App \subseteq Owner
  BY DEF Owner
<1>1. ASSUME NEW o \in App, policy_pold_create(o) PROVE Waiting'
  <2>1. NewSession(o) /\ agent_registered' = agent_registered
    BY <1>1, SessionMade DEF policy_pold_create, plugin
  <2> QED BY <1>0, <2>1, NewWaits
<1>2. CASE CreateSession
  <2>1. UNCHANGED <<session, session_hash, silent>> \/ NewSession(Self)
    BY <1>2, SessionForPold DEF sessions
  <2>2. agent_registered' = agent_registered
    BY <1>2, SessionForPold DEF plugin
  <2> QED BY <1>0, <2>1, <2>2, NewWaits, WaitingKeeps
<1>3. CASE OwnerLeft \/ ReleaseSession
  <2>1. session_hash'[Self] = NULL /\ SameElsewhere(Self) /\ agent_registered' = agent_registered
    BY <1>3, OwnerGone, SessionReleased DEF plugin
  <2>2. WaitsSoundly(Self)'
    BY <2>1 DEF WaitsSoundly
  <2> QED BY <1>0, <2>1, <2>2, WaitingElsewhere
<1>4. CASE get_policy_cb
  <2>0. PICK o, c : o = to_connman[1].owner /\ c = Accepted(to_connman[1].value)
    OBVIOUS
  <2>1. PICK t : Finished(o, c, t) \/ Silenced(o) \/ UNCHANGED sessions
    BY <1>4, <2>0, PolicyAnswered
  <2>2. o \in Owner /\ agent_registered' = agent_registered
    BY <1>4, <2>0, PolicyAnswered DEF PolicyMessage, plugin
  <2>3. CASE Silenced(o)
    <3>1. WaitsSoundly(o)'
      BY <2>2, <2>3 DEF Silenced, WaitsSoundly, Waiting
    <3> QED BY <2>2, <2>3, <3>1, WaitingElsewhere DEF Silenced
  <2> QED BY <2>1, <2>2, <2>3, FinishedWaits, WaitingKeeps DEF sessions
<1>5. ASSUME NEW o \in Owner, PolicyTimeout(o) PROVE Waiting'
  <2>1. PICK t : Finished(o, NULL, t)
    BY <1>5, PolicyLate
  <2>2. agent_registered' = agent_registered
    BY <1>5, PolicyLate DEF plugin
  <2> QED BY <2>1, <2>2, FinishedWaits
<1>6. ASSUME NEW o \in Owner, policy_pold_destroy(o) PROVE Waiting'
  <2>1. session_hash'[o] = NULL /\ SameElsewhere(o) /\ agent_registered' = agent_registered
    BY <1>6, SessionGone DEF plugin
  <2>2. WaitsSoundly(o)'
    BY <2>1 DEF WaitsSoundly
  <2> QED BY <2>1, <2>2, WaitingElsewhere
<1>7. CASE pold_appeared
  <2>1. UNCHANGED sessions /\ agent_registered' = agent_registered
    BY <1>7, PoldSeen DEF Registers, plugin
  <2> QED BY <2>1, WaitingKeeps DEF sessions
<1>8. CASE pold_disappeared
  BY <1>8, PoldGone, WaitingKeeps DEF sessions
<1>9. CASE RegisterTimeout
  BY <1>9, RegistrationLate, WaitingKeeps DEF sessions
<1>10. CASE agent_register_cb
  <2>1. PICK s, t : AnswerIgnored(s, t) \/ AnswerRefused(s, t) \/ AnswerTaken(s, t)
    BY <1>10, RegistrationAnswered
  <2>2. CASE AnswerIgnored(s, t) \/ AnswerRefused(s, t)
    BY <2>2, WaitingKeeps DEF AnswerIgnored, AnswerRefused, sessions, plugin
  <2>3. CASE AnswerTaken(s, t)
    <3>1. session' = session /\ silent' = silent
      BY <2>3 DEF AnswerTaken
    <3>2. ASSUME NEW o \in Owner PROVE WaitsSoundly(o)'
      <4>1. CASE session_hash[o] # NULL /\ session_hash[o].cbd
        <5>1. PICK n \in Nat \ {0} : session_hash'[o] = policy_config(FALSE, n)
          BY <2>3, <4>1 DEF AnswerTaken
        <5>2. session_hash'[o].cbd = FALSE /\ session_hash'[o].pending # 0
          BY <5>1 DEF policy_config
        <5>3. session'[o] # "created"
          BY <3>1, <4>1 DEF Typed, Requests
        <5> QED BY <5>2, <5>3 DEF WaitsSoundly
      <4>2. CASE ~(session_hash[o] # NULL /\ session_hash[o].cbd)
        <5>1. session_hash'[o] = session_hash[o]
          BY <2>3, <4>2 DEF AnswerTaken
        <5> QED BY <3>1, <4>2, <5>1 DEF WaitsSoundly, Waiting
      <4> QED BY <4>1, <4>2
    <3> QED BY <3>2 DEF Waiting
  <2> QED BY <2>1, <2>2, <2>3
<1>11. CASE agent_update
  <2>1. PICK o, v : o = to_connman[1].owner /\ v = to_connman[1].value
    OBVIOUS
  <2>2. /\ o \in Owner
        /\ IF interface /\ session_hash[o] # NULL
           THEN \E config : /\ Leaves(session_hash[o].config, v, config)
                            /\ session_hash' = [session_hash EXCEPT ![o].config = config]
           ELSE session_hash' = session_hash
        /\ session' = session /\ silent' = silent /\ agent_registered' = agent_registered
    BY <1>11, <2>1, PolicyReplaced DEF UpdateMessage, Owner, plugin
  <2>3. CASE interface /\ session_hash[o] # NULL
    <3>1. PICK r : r = session_hash[o]
      OBVIOUS
    <3>2. r \in PolicyConfig /\ session_hash \in [Owner -> PolicyConfig \cup {NULL}]
      BY <2>2, <2>3, <3>1 DEF Typed, SessionTypes
    <3>3. PICK c : Leaves(r.config, v, c) /\ session_hash' = [session_hash EXCEPT ![o].config = c]
      BY <2>2, <2>3, <3>1
    <3>4. PICK u : u = [r EXCEPT !.config = c]
      OBVIOUS
    <3>5. u.cbd = r.cbd /\ u.pending = r.pending /\ u.config = c
      BY <3>2, <3>4 DEF PolicyConfig
    <3>6. session_hash' = [session_hash EXCEPT ![o] = u]
      BY <3>1, <3>3, <3>4
    <3>7. SameElsewhere(o) /\ session_hash'[o] = u
      BY <2>2, <3>2, <3>6 DEF SameElsewhere
    <3>8. c = NULL => r.config = NULL
      BY <3>3 DEF Leaves
    <3>9. WaitsSoundly(o)'
      BY <2>2, <2>3, <3>1, <3>5, <3>7, <3>8 DEF WaitsSoundly, Waiting
    <3> QED BY <2>2, <3>7, <3>9, WaitingElsewhere
  <2>4. CASE ~(interface /\ session_hash[o] # NULL)
    BY <2>2, <2>4, WaitingKeeps
  <2> QED BY <2>3, <2>4
<1> QED BY <1>1, <1>2, <1>3, <1>4, <1>5, <1>6, <1>7, <1>8, <1>9, <1>10, <1>11 DEF Connman, PluginHandles

(* All steps.                                                                *)
LEMMA WaitingKept == Typed /\ Waiting /\ [Next]_vars => Waiting'
<1> SUFFICES ASSUME Typed, Waiting, [Next]_vars PROVE Waiting'
  OBVIOUS
<1>1. Theirs => Waiting'
  BY WaitingKeeps DEF Theirs, plugin, sessions
<1>2. CASE PoldHandles \/ CreateTimeout \/ update_policies_cb \/ \E m \in asked : user_cb(m)
  BY <1>1, <1>2, ConnmanSeen, ConnmanGone, PathAnswered, PathReleased, AgentRegistered, AgentForgotten, PolicyAsked,
     PathLate, AgentsTold, PolicySent DEF PoldHandles
<1>3. CASE (\E p \in starting : GetNameOwner(p)) \/ PoldStarts \/ PoldStops \/ ConnmanStarts
  <2>1. UNCHANGED <<plugin, sessions>>
    BY <1>3, OwnerFound, PoldRuns, PoldLeaves, ConnmanRuns
  <2> QED BY <2>1, WaitingKeeps DEF plugin, sessions
<1>4. CASE ConnmanStops
  BY <1>4, ConnmanLeaves DEF PluginReset, Waiting, WaitsSoundly
<1>5. CASE UNCHANGED vars
  BY <1>5, WaitingKeeps DEF vars, plugin, sessions
<1> QED BY <1>2, <1>3, <1>4, <1>5, WaitingAtConnman DEF Next, Ours

(* At first there are no sessions.                                           *)
LEMMA WaitingInit == Init => Waiting
BY DEF Init, PluginInit, Waiting, WaitsSoundly
-----------------------------------------------------------------------------
(* pold's own session. What pold asks ConnMan, and what it is answered.      *)
Deals == {"CreateSession", "OwnerLeft"}
Words == {"Session", "Release"}

(* What a step of ConnMan leaves alone, whoever's session it is about.       *)
Fixed == UNCHANGED <<pold, connman, client>>
OwnSame == session'[Self] = session[Self] /\ caller' = caller

(* pold hears that ConnMan is there, or its GetNameOwner is not answered.    *)
Heard(t) == "pold" \in starting => "pold" \in starting' \/ connman = 0 \/ Has(t, "appeared")

(* The steps, as far as they concern pold's own session: not at all;         *)
Quietly(d, s, e, t) ==
  /\ Step(d, s, e, t) /\ Fixed /\ OwnSame /\ faults \subseteq faults' /\ Heard(t)
  /\ Without(s, Deals) /\ Without(t, Words)
  /\ Spares(to_connman, d, Deals) /\ Spares(to_pold, e, {"Session", "Release", "appeared"})

(* ConnMan makes the session,                                                *)
Asked(s, t) ==
  /\ Step(1, s, 0, t) /\ Fixed /\ UNCHANGED <<faults, starting>>
  /\ to_connman[1] \in CreateMessage /\ Without(s, Deals) /\ Without(t, Words)
  /\ session[Self] = "none" /\ session'[Self] = "creating"
  /\ caller'.process = to_connman[1].value /\ caller'.number = to_connman[1].number

(* refuses it,                                                               *)
Denied(t) ==
  /\ Step(1, <<>>, 0, t) /\ Fixed /\ OwnSame /\ UNCHANGED <<faults, starting>>
  /\ to_connman[1] \in CreateMessage /\ session[Self] # "none"
  /\ t = IF pold = to_connman[1].value THEN <<Message("Session", Self, to_connman[1].number, NULL)>> ELSE <<>>

(* drops it because pold left,                                               *)
Orphaned ==
  /\ Step(1, <<>>, 0, <<>>) /\ Fixed /\ UNCHANGED <<faults, starting>>
  /\ to_connman[1].type = "OwnerLeft" /\ session'[Self] = "none" /\ caller' = caller

(* completes it or gives it up,                                              *)
Ended(d, t) ==
  /\ Step(d, <<>>, 0, t) /\ Fixed /\ starting' = starting /\ faults \subseteq faults' /\ caller' = caller
  /\ IF d = 0 THEN "timeout" \in faults' ELSE to_connman[1].type = "Policy"
  /\ session[Self] = "creating" /\ session'[Self] \in {"none", "created"}
  /\ t = IF pold = caller.process
         THEN <<Message("Session", Self, caller.number, IF session'[Self] = "none" THEN NULL ELSE connman)>>
         ELSE <<>>

(* or releases it.                                                           *)
Freed(t) ==
  /\ Step(0, <<>>, 0, t) /\ Fixed /\ UNCHANGED <<faults, starting>> /\ caller' = caller
  /\ session[Self] = "created" /\ session'[Self] = "none"
  /\ t = IF pold = caller.process THEN <<Message("Release", Self, 0, NULL)>> ELSE <<>>
AtConnman ==
  \/ \E d, s, e, t : Quietly(d, s, e, t)
  \/ \E s, t : Asked(s, t)
  \/ \E t : Denied(t)
  \/ Orphaned
  \/ \E d, t : Ended(d, t)
  \/ \E t : Freed(t)

(* Requests for policies, and their answers, are not about sessions.         *)
LEMMA QuietWords ==
  /\ \A s : Refusals(s) => Without(s, Deals)
  /\ \A t : Questions(t) => Without(t, Words)
<1>1. \A m \in PolicyMessage : m.type \notin Deals
  BY DEF PolicyMessage, Deals
<1>2. \A m \in Question : m.type \notin Words
  BY DEF Question, Words
<1> QED BY <1>1, <1>2 DEF Refusals, Questions, Without

(* A step of ConnMan that does nothing to pold's session.                    *)
LEMMA QuietStep ==
  ASSUME NEW d, NEW s, NEW t, Step(d, s, 0, t), Fixed, OwnSame, faults \subseteq faults', starting' = starting,
         Without(s, Deals), Without(t, Words), d = 1 => to_connman[1].type \notin Deals
  PROVE  Quietly(d, s, 0, t)
BY DEF Quietly, Heard, Spares

(* An application's session is not pold's.                                   *)
LEMMA SessionQuietly ==
  ASSUME Typed, NEW o \in App, policy_pold_create(o), Ours
  PROVE  AtConnman
<1>1. PICK s, t : Step(0, s, 0, t) /\ Refusals(s) /\ Questions(t)
  BY SessionMade
<1>2. NewSession(o) /\ caller' = caller /\ UNCHANGED <<pold, connman, faults, client, starting>>
  BY SessionMade DEF policy_pold_create, Ours
<1>3. o # Self /\ o \in Owner /\ Self \in Owner
  BY PluginAssumption DEF Owner
<1>4. session \in [Owner -> {"none", "creating", "created"}] /\ session' = [session EXCEPT ![o] = "creating"]
  BY <1>2 DEF Typed, SessionTypes, NewSession
<1>5. session'[Self] = session[Self]
  BY <1>3, <1>4
<1>6. Quietly(0, s, 0, t)
  BY <1>1, <1>2, <1>5, QuietWords, QuietStep DEF Fixed, OwnSame
<1> QED BY <1>6 DEF AtConnman

(* CreateSession makes the session, or there is one.                         *)
LEMMA AskedOrDenied ==
  ASSUME Typed, CreateSession, Ours
  PROVE  AtConnman
<1>1. PICK s, t :
              /\ Step(1, s, 0, t)
              /\ \/ /\ NewSession(Self) /\ Refusals(s) /\ Questions(t)
                    /\ caller' = [process |-> to_connman[1].value, number |-> to_connman[1].number]
                 \/ /\ session[Self] # "none" /\ UNCHANGED sessions /\ s = <<>>
                    /\ t = IF pold = to_connman[1].value
                           THEN <<Message("Session", Self, to_connman[1].number, NULL)>> ELSE <<>>
  BY SessionForPold
<1>2. Fixed /\ UNCHANGED <<faults, starting>> /\ to_connman[1] \in CreateMessage
  BY SessionForPold DEF Fixed, Ours
<1>3. CASE NewSession(Self) /\ Refusals(s) /\ Questions(t)
           /\ caller' = [process |-> to_connman[1].value, number |-> to_connman[1].number]
  <2>1. session \in [Owner -> {"none", "creating", "created"}] /\ session' = [session EXCEPT ![Self] = "creating"]
        /\ Self \in Owner /\ session[Self] = "none"
    BY <1>3 DEF Typed, SessionTypes, NewSession, Owner
  <2>2. caller'.process = to_connman[1].value /\ caller'.number = to_connman[1].number
    BY <1>3
  <2>3. Asked(s, t)
    BY <1>1, <1>2, <1>3, <2>1, <2>2, QuietWords DEF Asked
  <2> QED BY <2>3 DEF AtConnman
<1>4. CASE session[Self] # "none" /\ UNCHANGED sessions /\ s = <<>>
           /\ t = IF pold = to_connman[1].value
                  THEN <<Message("Session", Self, to_connman[1].number, NULL)>> ELSE <<>>
  <2>1. Denied(t)
    BY <1>1, <1>2, <1>4 DEF Denied, OwnSame, sessions
  <2> QED BY <2>1 DEF AtConnman
<1> QED BY <1>1, <1>3, <1>4

(* A request ends, pold's own or another.                                    *)
LEMMA EndsSomewhere ==
  ASSUME Typed, NEW o \in Owner, NEW c, NEW d \in {0, 1}, NEW t, Step(d, <<>>, 0, t), Finished(o, c, t),
         Fixed, caller' = caller, starting' = starting, faults \subseteq faults',
         IF d = 0 THEN "timeout" \in faults' ELSE to_connman[1].type = "Policy"
  PROVE  AtConnman
<1>1. CASE o # Self
  <2>1. session'[Self] = session[Self] /\ t = <<>>
    BY <1>1 DEF Finished, SameElsewhere, Owner
  <2>2. Without(t, Words) /\ Without(<<>>, Deals)
    BY <2>1, WithoutAll
  <2>3. Quietly(d, <<>>, 0, t)
    BY <2>1, <2>2, QuietStep DEF OwnSame, Deals
  <2> QED BY <2>3 DEF AtConnman
<1>2. CASE o = Self
  <2>1. session[Self] = "creating"
    BY <1>2 DEF Finished, Typed, Requests
  <2>2. (c = NULL <=> session'[Self] = "none") /\ session'[Self] \in {"none", "created"}
    BY <1>2 DEF Finished
  <2>3. t = IF pold = caller.process
            THEN <<Message("Session", Self, caller.number, IF session'[Self] = "none" THEN NULL ELSE connman)>>
            ELSE <<>>
    BY <1>2, <2>2 DEF Finished
  <2>4. Ended(d, t)
    BY <2>1, <2>2, <2>3 DEF Ended
  <2> QED BY <2>4 DEF AtConnman
<1> QED BY <1>1, <1>2

(* A step that is about others.                                              *)
LEMMA NothingOfPolds ==
  ASSUME Step(0, <<>>, 0, <<>>) \/ (Step(1, <<>>, 0, <<>>) /\ to_connman[1].type \notin Deals),
         Fixed, OwnSame, faults \subseteq faults', starting' = starting
  PROVE  AtConnman
<1>1. Without(<<>>, Deals) /\ Without(<<>>, Words)
  BY WithoutAll
<1>2. Quietly(0, <<>>, 0, <<>>) \/ Quietly(1, <<>>, 0, <<>>)
  BY <1>1, QuietStep
<1> QED BY <1>2 DEF AtConnman

(* What the handlers of ConnMan do to pold's session.                        *)
LEMMA StepsAtConnman ==
  ASSUME Typed, Connman \/ \E o \in App : policy_pold_create(o), Ours
  PROVE  AtConnman
<1> USE WithoutAll
<1>0. UNCHANGED <<client, starting>> /\ Self \in Owner
  BY DEF Ours, Owner
<1>1. CASE \E o \in App : policy_pold_create(o)
  BY <1>1, SessionQuietly
<1>2. CASE CreateSession
  BY <1>2, AskedOrDenied
<1>3. CASE OwnerLeft
  BY <1>0, <1>3, OwnerGone DEF AtConnman, Orphaned, Fixed
<1>4. CASE get_policy_cb
  <2>1. PICK t : /\ Step(1, <<>>, 0, t)
                 /\ \/ Finished(to_connman[1].owner, Accepted(to_connman[1].value), t)
                    \/ t = <<>> /\ Silenced(to_connman[1].owner)
                    \/ t = <<>> /\ UNCHANGED sessions
    BY <1>4, PolicyAnswered
  <2>2. PICK o, c : o = to_connman[1].owner /\ c = Accepted(to_connman[1].value)
    OBVIOUS
  <2>3. o \in Owner /\ to_connman[1].type = "Policy" /\ UNCHANGED <<pold, connman, faults, caller>>
    BY <1>4, <2>2, PolicyAnswered DEF PolicyMessage
  <2>4. CASE Finished(o, c, t)
    BY <1>0, <2>1, <2>3, <2>4, EndsSomewhere DEF Fixed
  <2>5. CASE t = <<>> /\ UNCHANGED sessions
    BY <1>0, <2>1, <2>3, <2>5, NothingOfPolds DEF Fixed, OwnSame, sessions, Deals
  <2>6. CASE t = <<>> /\ Silenced(o)
    <3>1. OwnSame
      BY <2>3, <2>6 DEF Silenced, OwnSame
    <3> QED BY <1>0, <2>1, <2>3, <2>6, <3>1, NothingOfPolds DEF Fixed, Deals
  <2> QED BY <2>1, <2>2, <2>4, <2>5, <2>6
<1>5. ASSUME NEW o \in Owner, PolicyTimeout(o) PROVE AtConnman
  <2>1. PICK t : Step(0, <<>>, 0, t) /\ Finished(o, NULL, t)
    BY <1>5, PolicyLate
  <2>2. UNCHANGED <<pold, connman, caller>> /\ faults' = faults \cup {"timeout"}
    BY <1>5, PolicyLate
  <2>3. PICK c : c = NULL
    OBVIOUS
  <2> QED BY <1>0, <2>1, <2>2, <2>3, EndsSomewhere DEF Fixed
<1>6. CASE ReleaseSession
  <2>1. PICK t : /\ Step(0, <<>>, 0, t)
                 /\ t = IF pold = caller.process THEN <<Message("Release", Self, 0, NULL)>> ELSE <<>>
    BY <1>6, SessionReleased
  <2>2. Freed(t)
    BY <1>0, <1>6, <2>1, SessionReleased DEF Freed, Fixed
  <2> QED BY <2>2 DEF AtConnman
<1>7. ASSUME NEW o \in Owner, policy_pold_destroy(o) PROVE AtConnman
  <2>1. OwnSame
    BY <1>0, <1>7, SessionGone DEF SameElsewhere, OwnSame
  <2> QED BY <1>0, <1>7, <2>1, SessionGone, NothingOfPolds DEF Fixed
<1>8. CASE pold_appeared
  <2>1. PICK s, t : /\ Step(1, s, 0, t)
                    /\ Registers(s, t) \/ (s = <<>> /\ t = <<>>)
    BY <1>8, PoldSeen
  <2>2. to_connman[1].type = "appeared" /\ UNCHANGED <<pold, connman, sessions, faults>>
    BY <1>8, PoldSeen
  <2>3. Without(s, Deals) /\ Without(t, Words)
    BY <2>1 DEF Registers, Message, Deals, Words
  <2>4. Quietly(1, s, 0, t)
    BY <1>0, <2>1, <2>2, <2>3, QuietStep DEF Fixed, OwnSame, sessions, Deals
  <2> QED BY <2>4 DEF AtConnman
<1>9. CASE pold_disappeared
  BY <1>0, <1>9, PoldGone, NothingOfPolds DEF Fixed, OwnSame, sessions, Deals
<1>10. CASE agent_register_cb
  <2>1. PICK s, t : /\ Step(1, s, 0, t)
                    /\ AnswerIgnored(s, t) \/ AnswerRefused(s, t) \/ AnswerTaken(s, t)
    BY <1>10, RegistrationAnswered
  <2>2. to_connman[1].type = "Registered" /\ UNCHANGED <<pold, connman, session, caller, faults>>
    BY <1>10, RegistrationAnswered DEF Registered
  <2>3. Without(s, Deals) /\ Without(t, Words)
    BY <2>1, QuietWords DEF AnswerIgnored, AnswerRefused, AnswerTaken
  <2>4. Quietly(1, s, 0, t)
    BY <1>0, <2>1, <2>2, <2>3, QuietStep DEF Fixed, OwnSame, Deals
  <2> QED BY <2>4 DEF AtConnman
<1>11. CASE agent_update
  BY <1>0, <1>11, PolicyReplaced, NothingOfPolds DEF Fixed, OwnSame, UpdateMessage, Deals
<1>12. CASE RegisterTimeout
  BY <1>0, <1>12, RegistrationLate, NothingOfPolds DEF Fixed, OwnSame, sessions
<1> QED BY <1>1, <1>2, <1>3, <1>4, <1>5, <1>6, <1>7, <1>8, <1>9, <1>10, <1>11, <1>12 DEF Connman, PluginHandles

(* What those of pold do: only three concern it.                             *)
LEMMA StepsAtPold ==
  ASSUME Typed, PoldHandles \/ update_policies_cb \/ \E m \in asked : user_cb(m)
  PROVE  AtConnman \/ connman_appeared \/ create_session_cb \/ release
<1> USE WithoutAll
<1>1. ASSUME NEW s, NEW e \in {0, 1}, NEW t, Step(0, s, e, t), Theirs, UNCHANGED client, faults \subseteq faults',
             Without(s, Deals), Without(t, Words), e = 1 => to_pold[1].type \notin {"Session", "Release", "appeared"}
      PROVE  AtConnman
  <2>1. Quietly(0, s, e, t)
    BY <1>1 DEF Quietly, Fixed, OwnSame, Heard, Spares, Theirs, lives, sessions
  <2> QED BY <2>1 DEF AtConnman
<1>2. CASE connman_disappeared
  BY <1>1, <1>2, ConnmanGone
<1>3. CASE pold_manager_register_agent
  <2>1. PICK s : /\ Step(0, s, 1, <<>>)
                 /\ s = IF connman = to_pold[1].value
                        THEN <<Message("Registered", NULL, 0, pold)>> ELSE <<>>
    BY <1>3, AgentRegistered
  <2>2. Without(s, Deals)
    BY <2>1 DEF Message, Deals
  <2>3. Theirs /\ UNCHANGED <<client, faults>> /\ to_pold[1].type = "RegisterAgent"
    BY <1>3, AgentRegistered DEF Agents
  <2> QED BY <1>1, <2>1, <2>2, <2>3
<1>4. CASE pold_manager_unregister_agent \/ owner_disconnect
  <2>1. to_pold[1].type \in {"UnregisterAgent", "AgentLeft"}
    BY <1>4, AgentForgotten DEF Agents
  <2> QED BY <1>1, <1>4, <2>1, AgentForgotten
<1>5. CASE pold_manager_get_policy_config
  <2>1. to_pold[1].type = "GetPolicyConfig"
    BY <1>5, PolicyAsked DEF Question
  <2>2. PICK s : /\ Step(0, s, 1, <<>>)
                 /\ s = <<>> \/ \E x \in PolicyMessage : s = IF connman = to_pold[1].value THEN <<x>> ELSE <<>>
    BY <1>5, PolicyAsked
  <2>3. Without(s, Deals)
    BY <2>2 DEF PolicyMessage, Deals
  <2> QED BY <1>1, <1>5, <2>1, <2>2, <2>3, PolicyAsked
<1>6. CASE update_policies_cb
  <2>1. PICK S, s : Step(0, s, 0, <<>>) /\ Tells(S, s)
    BY <1>6, AgentsTold
  <2>2. \A o : Update(o).type = "Update"
    BY DEF Update, Message
  <2>3. Without(s, Deals)
    BY <2>1, <2>2 DEF Tells, Without, Deals
  <2>4. faults \subseteq faults'
    BY <2>1 DEF Tells
  <2> QED BY <1>1, <1>6, <2>1, <2>3, <2>4, AgentsTold
<1>7. ASSUME NEW m \in asked, user_cb(m) PROVE AtConnman
  <2>1. PICK s, x : /\ Step(0, s, 0, <<>>) /\ x \in PolicyMessage
                    /\ s = IF connman = m.value THEN <<x>> ELSE <<>>
    BY <1>7, PolicySent
  <2>2. Without(s, Deals)
    BY <2>1 DEF PolicyMessage, Deals
  <2> QED BY <1>1, <1>7, <2>1, <2>2, PolicySent
<1> QED BY <1>2, <1>3, <1>4, <1>5, <1>6, <1>7 DEF PoldHandles

(* And an answer to GetNameOwner.                                            *)
LEMMA OwnerQuietly ==
  ASSUME Typed, NEW p \in starting, GetNameOwner(p)
  PROVE  AtConnman
<1>1. PICK s, t : /\ Step(0, s, 0, t)
                  /\ s = IF p = "connman" /\ pold # 0 THEN <<Plain0("appeared")>> ELSE <<>>
                  /\ t = IF p = "pold" /\ connman # 0 THEN <<Plain0("appeared")>> ELSE <<>>
  BY OwnerFound
<1>2. Without(s, Deals) /\ Without(t, Words)
  BY <1>1, WithoutAll DEF Plain0, Message, Deals, Words
<1>3. UNCHANGED <<pold, connman, sessions, client, faults>> /\ starting' = starting \ {p}
  BY OwnerFound
<1>4. Heard(t)
  <2>1. CASE p = "pold" /\ connman # 0
    <3>1. t[1] = Plain0("appeared") /\ 1 \in DOMAIN t /\ Plain0("appeared").type = "appeared"
      BY <1>1, <2>1 DEF Plain0, Message
    <3> QED BY <3>1 DEF Heard, Has
  <2>2. CASE ~(p = "pold" /\ connman # 0)
    BY <1>3, <2>2 DEF Heard
  <2> QED BY <2>1, <2>2
<1>5. Quietly(0, s, 0, t)
  BY <1>1, <1>2, <1>3, <1>4 DEF Quietly, Fixed, OwnSame, sessions, Spares
<1> QED BY <1>5 DEF AtConnman

(* The steps of all, as far as they concern pold's session.                  *)
LEMMA Steps ==
  ASSUME Typed, [Next]_vars
  PROVE  \/ AtConnman
         \/ connman_appeared \/ create_session_cb \/ release \/ CreateTimeout
         \/ PoldStarts \/ PoldStops \/ ConnmanStarts \/ ConnmanStops
<1>1. CASE UNCHANGED vars
  <2>1. UNCHANGED <<pold, connman, sessions, client, faults, starting, to_connman, to_pold>>
    BY <1>1 DEF vars, lives
  <2>2. Step(0, <<>>, 0, <<>>)
    BY <2>1, SendsNothing
  <2> QED BY <2>1, <2>2, NothingOfPolds DEF Fixed, OwnSame, sessions
<1>2. CASE (Connman \/ \E o \in App : policy_pold_create(o)) /\ Ours
  BY <1>2, StepsAtConnman
<1> QED BY <1>1, <1>2, StepsAtPold, OwnerQuietly DEF Next, Ours
-----------------------------------------------------------------------------
(* What ConnMan hears of an owner that left is about the process before.     *)
Made == session[Self] # "none" /\ caller.process = pold
Departures ==
  /\ Made => ~Has(to_connman, "OwnerLeft")
  /\ \A i, j \in DOMAIN to_connman :
       to_connman[i].type = "CreateSession" /\ to_connman[i].value = pold /\ j > i =>
         to_connman[j].type # "OwnerLeft"

(* A step that hears of no owner's leaving.                                  *)
LEMMA DeparturesKeep ==
  ASSUME Departures, NEW d, NEW s, Moved(to_connman, to_connman', d, s), Without(s, {"OwnerLeft"}), pold' = pold,
         Made' => Made \/ (d = 1 /\ to_connman[1].type = "CreateSession" /\ to_connman[1].value = pold)
  PROVE  Departures'
<1>1. PICK q, p : q = to_connman /\ p = to_connman'
  OBVIOUS
<1>2. PICK T : T = {"OwnerLeft"}
  OBVIOUS
<1>3. Moved(q, p, d, s) /\ Without(s, T)
  BY <1>1, <1>2
<1>4. ASSUME NEW j \in DOMAIN p, p[j].type = "OwnerLeft"
      PROVE  j + d \in DOMAIN q /\ q[j + d].type = "OwnerLeft" /\ j + d > d
  <2>1. p[j].type \in T
    BY <1>2, <1>4
  <2>2. j + d \in DOMAIN q /\ p[j] = q[j + d] /\ j + d > d
    BY ONLY <1>3, <2>1, j \in DOMAIN p, FromBefore
  <2> QED BY <1>4, <2>2
<1>5. ASSUME Made', NEW j \in DOMAIN p, p[j].type = "OwnerLeft" PROVE FALSE
  <2>1. CASE Made
    BY <1>1, <1>4, <1>5, <2>1 DEF Departures, Has
  <2>2. CASE d = 1 /\ q[1].type = "CreateSession" /\ q[1].value = pold
    <3>1. 1 \in DOMAIN q /\ j + d > 1
      BY <1>3, <1>4, <1>5, <2>2, Indices
    <3> QED BY <1>1, <1>4, <1>5, <2>2, <3>1 DEF Departures
  <2> QED BY <1>1, <1>5, <2>1, <2>2
<1>6. ASSUME NEW i \in DOMAIN p, NEW j \in DOMAIN p, p[i].type = "CreateSession", p[i].value = pold, j > i,
             p[j].type = "OwnerLeft"
      PROVE  FALSE
  <2>1. j + d \in DOMAIN q /\ q[j + d].type = "OwnerLeft"
    BY <1>4, <1>6
  <2>2. /\ i \in Nat /\ j \in Nat /\ d \in {0, 1} /\ Len(q) \in Nat /\ j + d <= Len(q) /\ i >= 1
    BY <1>3, <1>6, <2>1, Indices
  <2>3. i + d \in DOMAIN q /\ i + d < j + d
    <3>1. i + d <= Len(q) /\ i + d >= 1 /\ i + d \in Nat /\ i + d < j + d
      BY <1>6, <2>2
    <3> QED BY <1>3, <3>1, Indices
  <2>4. p[i] = q[i + d]
    <3>1. \/ p[i] = q[i + d]
          \/ i + d > Len(q)
      BY <1>3, <1>6, Places
    <3> QED BY <2>2, <2>3, <3>1
  <2> QED BY <1>1, <1>6, <2>1, <2>3, <2>4 DEF Departures
<1>7. (Made => ~Has(to_connman, "OwnerLeft"))'
  BY <1>1, <1>5 DEF Has
<1>8. (\A i, j \in DOMAIN to_connman :
       to_connman[i].type = "CreateSession" /\ to_connman[i].value = pold /\ j > i =>
         to_connman[j].type # "OwnerLeft")'
  BY <1>1, <1>6
<1> QED BY <1>7, <1>8 DEF Departures

(* Calls come from processes.                                                *)
LEMMA CallersRun == \A m \in ForConnman : m.type = "CreateSession" => m.value # 0
<1>1. \A m \in ForConnman : m.type = "CreateSession" => m.value \in Process
  BY DEF ForConnman, Plain, Registered, CreateMessage, PolicyMessage, UpdateMessage
<1> QED BY <1>1, NullApart

(* A new process of pold has no session, and no process has none.            *)
LEMMA Anew ==
  ASSUME Typed, Numbers, PoldStarts \/ PoldStops
  PROVE  ~Made' /\ \A i \in DOMAIN to_connman' : to_connman'[i].type = "CreateSession" => to_connman'[i].value # pold'
<1>0. Typed'
  BY TypedKept DEF Next
<1>1. CASE PoldStarts
  <2>1. pold' = started.pold + 1 /\ started.pold \in Nat /\ UNCHANGED sessions
    BY <1>1, PoldRuns
  <2>2. caller.process <= started.pold /\ caller.process \in Nat
    BY Counted DEF Numbers
  <2>3. ~Made'
    BY <2>1, <2>2 DEF Made, sessions
  <2>4. PICK s : /\ Step(0, s, 0, <<>>)
                 /\ s = IF connman = 0 THEN <<>> ELSE <<Plain0("appeared")>>
    BY <1>1, PoldRuns
  <2>5. ASSUME NEW i \in DOMAIN to_connman', to_connman'[i].type = "CreateSession" PROVE to_connman'[i].value # pold'
    <3>1. PICK q, p : q = to_connman /\ p = to_connman'
      OBVIOUS
    <3>2. PICK T : T = {"CreateSession"}
      OBVIOUS
    <3>3. Without(s, T) /\ p[i].type \in T /\ i \in DOMAIN p /\ Moved(q, p, 0, s)
      BY <2>4, <2>5, <3>1, <3>2, WithoutAll DEF Plain0, Message, Step
    <3>4. i + 0 \in DOMAIN q /\ p[i] = q[i + 0]
      BY ONLY <3>3, FromBefore
    <3>5. q[i + 0].value <= started.pold /\ q[i + 0].value \in Nat
      BY <2>5, <3>1, <3>4, Counted DEF Numbers, ToConnmanKnown
    <3> QED BY <2>1, <3>1, <3>4, <3>5
  <2> QED BY <2>3, <2>5
<1>2. CASE PoldStops
  <2>1. pold' = 0
    BY <1>2, PoldLeaves
  <2>2. ~Made'
    BY <1>0, <2>1 DEF Made, Typed, SessionTypes
  <2>3. \A i \in DOMAIN to_connman' : to_connman'[i] \in ForConnman
    <3>1. PICK p : p = to_connman'
      OBVIOUS
    <3>2. p \in Seq(ForConnman)
      BY <1>0, <3>1 DEF Typed, QueueTypes
    <3>3. \A i \in DOMAIN p : p[i] \in ForConnman
      BY ONLY <3>2, ElementOfSeq, LenProperties
    <3> QED BY <3>1, <3>3
  <2> QED BY <2>1, <2>2, <2>3, CallersRun
<1> QED BY <1>1, <1>2

(* Departures is inductive: pold's process leaves before the next one        *)
(* starts, and the messages say so in this order.                            *)
LEMMA DeparturesKept == Typed /\ Numbers /\ Departures /\ [Next]_vars => Departures'
<1> SUFFICES ASSUME Typed, Numbers, Departures, [Next]_vars PROVE Departures'
  OBVIOUS
<1> USE WithoutAll
<1>0. Typed'
  BY TypedKept
<1>1. CASE AtConnman
  <2>1. ASSUME NEW d, NEW s, NEW e, NEW t, Quietly(d, s, e, t) PROVE Departures'
    <3>1. Without(s, {"OwnerLeft"}) /\ Made' = Made /\ pold' = pold /\ Moved(to_connman, to_connman', d, s)
      BY <2>1 DEF Quietly, Without, Deals, Made, OwnSame, Fixed, Step
    <3> QED BY <3>1, DeparturesKeep
  <2>2. ASSUME NEW s, NEW t, Asked(s, t) PROVE Departures'
    <3>1. Without(s, {"OwnerLeft"}) /\ pold' = pold /\ Moved(to_connman, to_connman', 1, s)
          /\ (Made' => to_connman[1].type = "CreateSession" /\ to_connman[1].value = pold)
      BY <2>2 DEF Asked, Without, Deals, Made, Fixed, Step, CreateMessage
    <3> QED BY <3>1, DeparturesKeep
  <2>3. ASSUME NEW d, NEW t, Step(d, <<>>, 0, t), Fixed, Made' => Made PROVE Departures'
    <3>1. pold' = pold /\ Moved(to_connman, to_connman', d, <<>>) /\ Without(<<>>, {"OwnerLeft"})
      BY <2>3 DEF Fixed, Step
    <3> QED BY <2>3, <3>1, DeparturesKeep
  <2>4. ASSUME NEW t, Denied(t) PROVE Departures'
    BY <2>3, <2>4 DEF Denied, Made, OwnSame, Fixed
  <2>5. CASE Orphaned
    BY <2>3, <2>5 DEF Orphaned, Made
  <2>6. ASSUME NEW d, NEW t, Ended(d, t) PROVE Departures'
    BY <2>3, <2>6 DEF Ended, Made, Fixed
  <2>7. ASSUME NEW t, Freed(t) PROVE Departures'
    BY <2>3, <2>7 DEF Freed, Made
  <2> QED BY <1>1, <2>1, <2>2, <2>4, <2>5, <2>6, <2>7 DEF AtConnman
<1>2. ASSUME NEW s, NEW e, NEW t, Step(0, s, e, t), Theirs, Without(s, {"OwnerLeft"}) PROVE Departures'
  <2>1. pold' = pold /\ Moved(to_connman, to_connman', 0, s) /\ Made' = Made
    BY <1>2 DEF Theirs, lives, sessions, Made, Step
  <2> QED BY <1>2, <2>1, DeparturesKeep
<1>3. CASE connman_appeared
  <2>1. PICK s, t : /\ Step(0, s, 1, t)
                    /\ IF connman = 0
                       THEN s = <<>> /\ t = <<Message("Session", Self, calls + 1, NULL)>>
                       ELSE s = <<Message("CreateSession", Self, calls + 1, pold)>> /\ t = <<>>
    BY <1>3, ConnmanSeen
  <2>2. Without(s, {"OwnerLeft"})
    BY <2>1 DEF Message
  <2> QED BY <1>2, <1>3, <2>1, <2>2, ConnmanSeen
<1>4. CASE create_session_cb \/ release \/ CreateTimeout
  BY <1>2, <1>4, PathAnswered, PathReleased, PathLate
<1>5. CASE PoldStarts \/ PoldStops
  BY <1>5, Anew DEF Departures
<1>7. CASE ConnmanStarts
  <2>1. UNCHANGED <<pold, sessions, to_connman>>
    BY <1>7, ConnmanRuns
  <2> QED BY <2>1 DEF Departures, Made, sessions, Has
<1>8. CASE ConnmanStops
  <2>1. to_connman' = <<>> /\ DOMAIN <<>> = {}
    BY <1>8, ConnmanLeaves
  <2> QED BY <2>1 DEF Departures, Has
<1> QED BY <1>1, <1>3, <1>4, <1>5, <1>7, <1>8, Steps
-----------------------------------------------------------------------------
(* Each CreateSession under way is on its way, or its session is being made, *)
(* or its answer is on its way.                                              *)
CreateFor(m, n) == m.type = "CreateSession" /\ m.number = n /\ m.value = pold
AnswerFor(m, n) == m.type = "Session" /\ m.number = n
Sent(n) == \E i \in DOMAIN to_connman : CreateFor(to_connman[i], n)
Maker(n) == session[Self] = "creating" /\ caller.process = pold /\ caller.number = n
ReplyTo(n) == \E i \in DOMAIN to_pold : AnswerFor(to_pold[i], n)
Answerable == \A n \in create_calls : Sent(n) \/ Maker(n) \/ ReplyTo(n)

(* A call stays sent until it is handled.                                    *)
LEMMA SentKeeps ==
  ASSUME NEW n, Sent(n), NEW d, NEW s, Moved(to_connman, to_connman', d, s), pold' = pold,
         d = 1 => ~CreateFor(to_connman[1], n)
  PROVE  Sent(n)'
<1>1. PICK q, p : q = to_connman /\ p = to_connman'
  OBVIOUS
<1>2. PICK i \in DOMAIN q : CreateFor(q[i], n)
  BY <1>1 DEF Sent
<1>3. i \in Nat /\ i >= 1 /\ d \in {0, 1}
  BY <1>1, Indices
<1>4. i > d
  BY <1>1, <1>2, <1>3
<1>5. i - d \in DOMAIN p /\ p[i - d] = q[i]
  BY <1>1, <1>4, Places
<1> QED BY <1>1, <1>2, <1>5 DEF Sent, CreateFor

(* So does an answer.                                                        *)
LEMMA ReplyKeeps ==
  ASSUME NEW n, ReplyTo(n), NEW e, NEW t, Moved(to_pold, to_pold', e, t), e = 1 => ~AnswerFor(to_pold[1], n)
  PROVE  ReplyTo(n)'
<1>1. PICK q, p : q = to_pold /\ p = to_pold'
  OBVIOUS
<1>2. PICK i \in DOMAIN q : AnswerFor(q[i], n)
  BY <1>1 DEF ReplyTo
<1>3. i \in Nat /\ i >= 1 /\ e \in {0, 1}
  BY <1>1, Indices
<1>4. i > e
  BY <1>1, <1>2, <1>3
<1>5. i - e \in DOMAIN p /\ p[i - e] = q[i]
  BY <1>1, <1>4, Places
<1> QED BY <1>1, <1>2, <1>5 DEF ReplyTo

(* An answer that a step sends is on its way.                                *)
LEMMA ReplySent ==
  ASSUME NEW n, NEW e, NEW t, Moved(to_pold, to_pold', e, t), NEW k \in DOMAIN t, AnswerFor(t[k], n)
  PROVE  ReplyTo(n)'
<1>1. PICK q, p : q = to_pold /\ p = to_pold'
  OBVIOUS
<1>2. Len(q) - e + k \in DOMAIN p /\ p[Len(q) - e + k] = t[k]
  BY <1>1, Places
<1> QED BY <1>1, <1>2 DEF ReplyTo

(* So is a call.                                                             *)
LEMMA CreateSent ==
  ASSUME NEW n, NEW d, NEW s, Moved(to_connman, to_connman', d, s), NEW k \in DOMAIN s, CreateFor(s[k], n), pold' = pold
  PROVE  Sent(n)'
<1>1. PICK q, p : q = to_connman /\ p = to_connman'
  OBVIOUS
<1>2. Len(q) - d + k \in DOMAIN p /\ p[Len(q) - d + k] = s[k]
  BY <1>1, Places
<1> QED BY <1>1, <1>2 DEF Sent, CreateFor

(* The only element of a sequence of one.                                    *)
LEMMA One == \A m : <<m>>[1] = m /\ 1 \in DOMAIN <<m>>
OBVIOUS

(* A step of ConnMan answers a call, or leaves it as it is.                  *)
LEMMA AnswerableAtConnman ==
  ASSUME Typed, Departures, Answerable, AtConnman
  PROVE  Answerable'
<1>1. ASSUME NEW d, NEW s, NEW e, NEW t, Quietly(d, s, e, t), NEW n \in create_calls
      PROVE  Sent(n)' \/ Maker(n)' \/ ReplyTo(n)'
  <2>1. Moved(to_connman, to_connman', d, s) /\ Moved(to_pold, to_pold', e, t) /\ pold' = pold
    BY <1>1 DEF Quietly, Step, Fixed
  <2>2. Maker(n) => Maker(n)'
    BY <1>1, <2>1 DEF Quietly, OwnSame, Maker
  <2>3. d = 1 => ~CreateFor(to_connman[1], n)
    BY <1>1 DEF Quietly, Spares, Deals, CreateFor
  <2>4. e = 1 => ~AnswerFor(to_pold[1], n)
    BY <1>1 DEF Quietly, Spares, AnswerFor
  <2>5. Sent(n) => Sent(n)'
    BY ONLY <2>1, <2>3, SentKeeps
  <2>6. ReplyTo(n) => ReplyTo(n)'
    BY ONLY <2>1, <2>4, ReplyKeeps
  <2> QED BY <1>1, <2>2, <2>5, <2>6 DEF Answerable
<1>2. ASSUME NEW d, NEW s, NEW t, Step(d, s, 0, t), Fixed, NEW n \in create_calls,
             d = 1 /\ CreateFor(to_connman[1], n) => Maker(n)' \/ ReplyTo(n)',
             Maker(n) => Maker(n)' \/ ReplyTo(n)'
      PROVE  Sent(n)' \/ Maker(n)' \/ ReplyTo(n)'
  <2>1. Moved(to_connman, to_connman', d, s) /\ Moved(to_pold, to_pold', 0, t) /\ pold' = pold
    BY <1>2 DEF Step, Fixed
  <2>2. CASE d = 1 /\ CreateFor(to_connman[1], n)
    BY <1>2, <2>2
  <2>3. ASSUME Sent(n), ~(d = 1 /\ CreateFor(to_connman[1], n)) PROVE Sent(n)'
    BY ONLY <2>1, <2>3, SentKeeps
  <2>4. ReplyTo(n) => ReplyTo(n)'
    BY ONLY <2>1, ReplyKeeps, 0 # 1
  <2> QED BY <1>2, <2>2, <2>3, <2>4 DEF Answerable
<1>3. ASSUME NEW s, NEW t, Asked(s, t), NEW n \in create_calls PROVE Sent(n)' \/ Maker(n)' \/ ReplyTo(n)'
  <2>1. Step(1, s, 0, t) /\ Fixed
    BY <1>3 DEF Asked
  <2>2. CreateFor(to_connman[1], n) => Maker(n)'
    BY <1>3 DEF Asked, CreateFor, Maker, Fixed
  <2>3. ~Maker(n)
    BY <1>3 DEF Asked, Maker
  <2> QED BY <1>2, <1>3, <2>1, <2>2, <2>3
<1>4. ASSUME NEW t, Denied(t), NEW n \in create_calls PROVE Sent(n)' \/ Maker(n)' \/ ReplyTo(n)'
  <2>1. Step(1, <<>>, 0, t) /\ Fixed
    BY <1>4 DEF Denied
  <2>2. ASSUME CreateFor(to_connman[1], n) PROVE ReplyTo(n)'
    <3>1. PICK m : m = Message("Session", Self, to_connman[1].number, NULL)
      OBVIOUS
    <3>2. t = <<m>> /\ AnswerFor(m, n)
      BY <1>4, <2>2, <3>1 DEF Denied, CreateFor, AnswerFor, Message
    <3>3. Moved(to_pold, to_pold', 0, t) /\ 1 \in DOMAIN t /\ AnswerFor(t[1], n)
      BY <2>1, <3>2, One DEF Step
    <3> QED BY ONLY <3>3, ReplySent
  <2>3. Maker(n) => Maker(n)'
    BY <1>4 DEF Denied, Maker, OwnSame, Fixed
  <2> QED BY <1>2, <1>4, <2>1, <2>2, <2>3
<1>5. ASSUME Orphaned, NEW n \in create_calls PROVE Sent(n)' \/ Maker(n)' \/ ReplyTo(n)'
  <2>1. Step(1, <<>>, 0, <<>>) /\ Fixed /\ to_connman[1].type = "OwnerLeft"
    BY <1>5 DEF Orphaned
  <2>2. 1 \in DOMAIN to_connman
    BY <2>1 DEF Step, Moved
  <2>3. ~Made
    BY <2>1, <2>2 DEF Departures, Has
  <2>4. ~Maker(n) /\ ~CreateFor(to_connman[1], n)
    BY <2>1, <2>3 DEF Made, Maker, CreateFor
  <2> QED BY <1>2, <1>5, <2>1, <2>4
<1>6. ASSUME NEW d, NEW t, Ended(d, t), NEW n \in create_calls PROVE Sent(n)' \/ Maker(n)' \/ ReplyTo(n)'
  <2>1. Step(d, <<>>, 0, t) /\ Fixed
    BY <1>6 DEF Ended
  <2>2. d = 1 => ~CreateFor(to_connman[1], n)
    BY <1>6 DEF Ended, CreateFor
  <2>3. ASSUME Maker(n) PROVE ReplyTo(n)'
    <3>1. PICK v : v = IF session'[Self] = "none" THEN NULL ELSE connman
      OBVIOUS
    <3>2. PICK m : m = Message("Session", Self, caller.number, v)
      OBVIOUS
    <3>3. t = <<m>> /\ AnswerFor(m, n)
      BY <1>6, <2>3, <3>1, <3>2 DEF Ended, Maker, AnswerFor, Message
    <3>4. Moved(to_pold, to_pold', 0, t) /\ 1 \in DOMAIN t /\ AnswerFor(t[1], n)
      BY <2>1, <3>3, One DEF Step
    <3> QED BY ONLY <3>4, ReplySent
  <2> QED BY <1>2, <1>6, <2>1, <2>2, <2>3
<1>7. ASSUME NEW t, Freed(t), NEW n \in create_calls PROVE Sent(n)' \/ Maker(n)' \/ ReplyTo(n)'
  <2>1. Step(0, <<>>, 0, t) /\ Fixed /\ ~Maker(n)
    BY <1>7 DEF Freed, Maker
  <2> QED BY <1>2, <1>7, <2>1
<1>8. create_calls' = create_calls
  BY DEF AtConnman, Quietly, Asked, Denied, Orphaned, Ended, Freed, Fixed, client
<1> QED BY <1>1, <1>3, <1>4, <1>5, <1>6, <1>7, <1>8 DEF AtConnman, Answerable

(* Answerable is inductive.                                                  *)
LEMMA AnswerableKept == Typed /\ Departures /\ Answerable /\ [Next]_vars => Answerable'
<1> SUFFICES ASSUME Typed, Departures, Answerable, [Next]_vars PROVE Answerable'
  OBVIOUS
<1>1. ASSUME NEW s, NEW e, NEW t, Step(0, s, e, t), Theirs, NEW n \in create_calls, e = 1 => ~AnswerFor(to_pold[1], n)
      PROVE  Sent(n)' \/ Maker(n)' \/ ReplyTo(n)'
  <2>1. Moved(to_connman, to_connman', 0, s) /\ Moved(to_pold, to_pold', e, t) /\ pold' = pold
    BY <1>1 DEF Step, Theirs, lives
  <2>2. Maker(n) => Maker(n)'
    BY <1>1, <2>1 DEF Maker, Theirs, sessions
  <2>3. Sent(n) => Sent(n)'
    BY ONLY <2>1, SentKeeps, 0 # 1
  <2>4. ReplyTo(n) => ReplyTo(n)'
    BY ONLY <1>1, <2>1, ReplyKeeps
  <2> QED BY <1>1, <2>2, <2>3, <2>4 DEF Answerable
<1>2. CASE connman_appeared
  <2>1. PICK s, t : /\ Step(0, s, 1, t)
                    /\ IF connman = 0
                       THEN s = <<>> /\ t = <<Message("Session", Self, calls + 1, NULL)>>
                       ELSE s = <<Message("CreateSession", Self, calls + 1, pold)>> /\ t = <<>>
    BY <1>2, ConnmanSeen
  <2>2. Theirs /\ to_pold[1].type = "appeared" /\ create_calls' = create_calls \cup {calls + 1}
    BY <1>2, ConnmanSeen
  <2>3. ASSUME NEW n \in create_calls PROVE Sent(n)' \/ Maker(n)' \/ ReplyTo(n)'
    BY <1>1, <2>1, <2>2, <2>3 DEF AnswerFor
  <2>4. PICK c : c = calls + 1
    OBVIOUS
  <2>5. Moved(to_connman, to_connman', 0, s) /\ Moved(to_pold, to_pold', 1, t) /\ pold' = pold
    BY <2>1, <2>2 DEF Step, Theirs, lives
  <2>6. Sent(c)' \/ ReplyTo(c)'
    <3>1. CASE connman = 0
      <4>1. PICK m : m = Message("Session", Self, c, NULL)
        OBVIOUS
      <4>2. t = <<m>> /\ AnswerFor(m, c)
        BY <2>1, <2>4, <3>1, <4>1 DEF AnswerFor, Message
      <4>3. 1 \in DOMAIN t /\ AnswerFor(t[1], c)
        BY <4>2, One
      <4> QED BY ONLY <2>5, <4>3, ReplySent
    <3>2. CASE connman # 0
      <4>1. PICK m : m = Message("CreateSession", Self, c, pold)
        OBVIOUS
      <4>2. s = <<m>> /\ CreateFor(m, c)
        BY <2>1, <2>4, <3>2, <4>1 DEF CreateFor, Message
      <4>3. 1 \in DOMAIN s /\ CreateFor(s[1], c)
        BY <4>2, One
      <4> QED BY ONLY <2>5, <4>3, CreateSent
    <3> QED BY <3>1, <3>2
  <2> QED BY <2>2, <2>3, <2>4, <2>6 DEF Answerable
<1>3. CASE create_session_cb
  <2>1. /\ Theirs /\ Step(0, <<>>, 1, <<>>) /\ create_calls' \subseteq create_calls
        /\ to_pold[1].number \notin create_calls'
    BY <1>3, PathAnswered
  <2>2. ASSUME NEW n \in create_calls' PROVE Sent(n)' \/ Maker(n)' \/ ReplyTo(n)'
    <3>1. n \in create_calls /\ ~AnswerFor(to_pold[1], n)
      BY <2>1, <2>2 DEF AnswerFor
    <3> QED BY <1>1, <2>1, <3>1
  <2> QED BY <2>2 DEF Answerable
<1>4. CASE release
  <2>1. Theirs /\ Step(0, <<>>, 1, <<>>) /\ create_calls' = create_calls /\ to_pold[1].type = "Release"
    BY <1>4, PathReleased
  <2> QED BY <1>1, <2>1 DEF Answerable, AnswerFor
<1>5. CASE CreateTimeout
  <2>1. Theirs /\ Step(0, <<>>, 0, <<>>) /\ create_calls' \subseteq create_calls
    BY <1>5, PathLate
  <2> QED BY <1>1, <2>1 DEF Answerable
<1>6. CASE PoldStarts \/ PoldStops
  <2>1. create_calls' = {}
    BY <1>6, PoldRuns, PoldLeaves DEF Typed, PoldOff, client
  <2> QED BY <2>1 DEF Answerable
<1>7. CASE ConnmanStarts
  <2>1. PICK t : Step(0, <<>>, 0, t)
    BY <1>7, ConnmanRuns
  <2>2. UNCHANGED <<pold, sessions, create_calls>>
    BY <1>7, ConnmanRuns DEF client
  <2>3. Moved(to_connman, to_connman', 0, <<>>) /\ Moved(to_pold, to_pold', 0, t) /\ pold' = pold
    BY <2>1, <2>2 DEF Step
  <2>4. ASSUME NEW n \in create_calls PROVE Sent(n)' \/ Maker(n)' \/ ReplyTo(n)'
    <3>1. Maker(n) => Maker(n)'
      BY <2>2 DEF Maker, sessions
    <3>2. Sent(n) => Sent(n)'
      BY ONLY <2>3, SentKeeps, 0 # 1
    <3>3. ReplyTo(n) => ReplyTo(n)'
      BY ONLY <2>3, ReplyKeeps, 0 # 1
    <3> QED BY <2>4, <3>1, <3>2, <3>3 DEF Answerable
  <2> QED BY <2>2, <2>4 DEF Answerable
<1>8. CASE ConnmanStops
  <2>1. create_calls' = create_calls /\ (pold = 0 => create_calls = {})
    BY <1>8, ConnmanLeaves DEF client, Typed, PoldOff
  <2>2. ASSUME NEW n \in create_calls PROVE ReplyTo(n)'
    <3>1. pold # 0
      BY <2>1, <2>2
    <3>2. PICK t : t \in Seq(ForPold) /\ Moved(to_pold, to_pold', 0, t) /\ Leaving(t)
      BY <1>8, <3>1, ConnmanLeaves
    <3>3. PICK k \in DOMAIN t : t[k] = Message("Session", Self, n, NULL)
      BY <2>2, <3>2 DEF Leaving
    <3>4. AnswerFor(t[k], n)
      BY <3>3 DEF AnswerFor, Message
    <3> QED BY ONLY <3>2, <3>4, k \in DOMAIN t, ReplySent
  <2> QED BY <2>1, <2>2 DEF Answerable
<1> QED BY <1>2, <1>3, <1>4, <1>5, <1>6, <1>7, <1>8, AnswerableAtConnman, Steps

Attended == Agreed /\ Waiting /\ Departures /\ Answerable

(* So is all that keeps a session from waiting for ever.                     *)
LEMMA AttendedStays == Attended /\ [Next]_vars => Attended'
BY AgreedStays, WaitingKept, DeparturesKept, AnswerableKept DEF Attended, Agreed

(* It holds before anything runs.                                            *)
LEMMA AttendedAtFirst == Init => Attended
<1> SUFFICES ASSUME Init PROVE Departures /\ Answerable
  BY AgreedAtFirst, WaitingInit DEF Attended
<1>1. to_connman = <<>> /\ DOMAIN <<>> = {} /\ create_calls = {}
  BY DEF Init
<1> QED BY <1>1 DEF Departures, Answerable, Has

(* And so always.                                                            *)
LEMMA AlwaysAttended == Spec => []Attended
BY AttendedAtFirst, AttendedStays, PTL DEF Spec

(* Whatever starts, stops and leaves, when all is quiet no session is left   *)
(* waiting, except for a reply that came without arguments: each request     *)
(* that was put off has been made, and each that was made was answered,      *)
(* pold's own CreateSession included.                                        *)
THEOREM NoneWaits == Spec => []NothingWaits
<1>1. Attended => NothingWaits
  <2> SUFFICES ASSUME Attended, Quiet, faults \cap {"abandoned", "unregistered"} = {}
               PROVE  create_calls = {} /\ \A o \in Owner : session[o] = "creating" => o \in silent
    BY DEF NothingWaits
  <2>1. agent_registered
    BY QuietKnown DEF AgentKnown, Attended
  <2>2. ASSUME NEW o \in Owner, session[o] = "creating", o \notin silent PROVE FALSE
    <3>1. session_hash[o] # NULL
      BY <2>2 DEF Attended, Agreed, Typed, SessionTypes
    <3>2. session_hash[o].cbd \/ session_hash[o].pending # 0
      BY <2>2, <3>1 DEF Attended, Waiting, WaitsSoundly
    <3>3. ~session_hash[o].cbd
      BY <2>1, <3>1 DEF Attended, Waiting, WaitsSoundly
    <3>4. ~Pending(o)
      BY DEF Quiet
    <3> QED BY <3>1, <3>2, <3>3, <3>4 DEF Pending
  <2>3. ASSUME NEW n \in create_calls PROVE FALSE
    <3>1. DOMAIN to_connman = {} /\ DOMAIN to_pold = {}
      BY DEF Quiet
    <3>2. Maker(n)
      BY <2>3, <3>1 DEF Attended, Answerable, Sent, ReplyTo
    <3>3. Self \notin silent
      BY PluginAssumption DEF Attended, Agreed, Typed, SessionTypes
    <3> QED BY <2>2, <3>2, <3>3 DEF Maker, Owner
  <2> QED BY <2>2, <2>3
<1> QED BY <1>1, AlwaysAttended, PTL
-----------------------------------------------------------------------------
(* pold's path is sound: it is that of its session, or news that end it are  *)
(* behind place i of the queue.                                              *)
Mine == session[Self] = "created" /\ caller.process = pold
EndsPath == {"appeared", "Release"}
HasBehind(i) == \E k \in DOMAIN to_pold : k > i /\ to_pold[k].type \in EndsPath
Sound(v, i) ==
  v # NULL /\ connman # 0 => (v = connman /\ Mine) \/ "pold" \in starting \/ HasBehind(i)
Announced == \A i \in DOMAIN to_pold : to_pold[i].type = "Session" => Sound(to_pold[i].value, i)
Held == create_calls # {} \/ Sound(session_path, 0)
Paths == Held /\ Announced

(* News behind place i stay behind it.                                       *)
LEMMA BehindFollows ==
  ASSUME NEW e, NEW t, Moved(to_pold, to_pold', e, t), NEW i \in Nat,
         HasBehind(i), i >= e \/ Spares(to_pold, e, EndsPath)
  PROVE  HasBehind(i - e)' /\ HasBehind(0)'
<1>1. PICK q, p : q = to_pold /\ p = to_pold'
  OBVIOUS
<1>2. PICK k \in DOMAIN q : k > i /\ q[k].type \in EndsPath
  BY <1>1 DEF HasBehind
<1>3. k \in Nat /\ k >= 1 /\ e \in {0, 1}
  BY <1>1, Indices
<1>4. k > e
  BY <1>1, <1>2, <1>3 DEF Spares
<1>5. k - e \in DOMAIN p /\ p[k - e] = q[k]
  BY <1>1, <1>4, Places
<1>6. k - e > i - e /\ k - e > 0
  BY <1>2, <1>3, <1>4
<1> QED BY <1>1, <1>2, <1>5, <1>6 DEF HasBehind

(* News that a step sends are behind all.                                    *)
LEMMA BehindSent ==
  ASSUME NEW e, NEW t, Moved(to_pold, to_pold', e, t), NEW k \in DOMAIN t, t[k].type \in EndsPath
  PROVE  HasBehind(0)' /\ \A i \in DOMAIN to_pold : HasBehind(i - e)'
<1>1. PICK q, p : q = to_pold /\ p = to_pold'
  OBVIOUS
<1>2. Len(q) - e + k \in DOMAIN p /\ p[Len(q) - e + k] = t[k]
  BY <1>1, Places
<1>3. k \in Nat /\ k >= 1 /\ Len(q) \in Nat /\ e \in {0, 1}
      /\ \A i \in DOMAIN q : i \in Nat /\ i >= 1 /\ i <= Len(q)
  BY <1>1, Indices
<1>4. Len(q) - e + k > 0
  BY <1>1, <1>2, Indices
<1>5. \A i \in DOMAIN q : Len(q) - e + k > i - e
  BY <1>3
<1> QED BY <1>1, <1>2, <1>4, <1>5 DEF HasBehind

(* What keeps paths sound: the session stays pold's, or its end is sent.     *)
Soundly(t) ==
  /\ connman' = connman
  /\ Mine => Mine' \/ Has(t, "Release")
  /\ "pold" \in starting => "pold" \in starting' \/ connman = 0 \/ Has(t, "appeared")

(* A path announced stays sound.                                             *)
LEMMA SoundFollows ==
  ASSUME NEW e, NEW t, Moved(to_pold, to_pold', e, t), Soundly(t), NEW v,
         NEW i, i \in DOMAIN to_pold \/ (i = 0 /\ e = 0), Sound(v, i),
         i >= e
  PROVE  Sound(v, i - e)'
<1> SUFFICES ASSUME v # NULL, connman # 0
             PROVE  (v = connman' /\ Mine') \/ "pold" \in starting' \/ HasBehind(i - e)'
  BY DEF Sound, Soundly
<1>1. \A k \in DOMAIN t : t[k].type \in EndsPath => HasBehind(i - e)'
  BY BehindSent
<1>2. Has(t, "Release") \/ Has(t, "appeared") => HasBehind(i - e)'
  BY <1>1 DEF Has, EndsPath
<1>3. i \in Nat
  BY Indices
<1>4. HasBehind(i) => HasBehind(i - e)'
  BY <1>3, BehindFollows
<1> QED BY <1>2, <1>4 DEF Sound, Soundly

(* The path itself, while the head of the queue is handled.                  *)
LEMMA PathFollows ==
  ASSUME NEW e, NEW t, Moved(to_pold, to_pold', e, t), Soundly(t), NEW v, Sound(v, 0), Spares(to_pold, e, EndsPath)
  PROVE  Sound(v, 0)'
<1> SUFFICES ASSUME v # NULL, connman # 0
             PROVE  (v = connman' /\ Mine') \/ "pold" \in starting' \/ HasBehind(0)'
  BY DEF Sound, Soundly
<1>1. \A k \in DOMAIN t : t[k].type \in EndsPath => HasBehind(0)'
  BY BehindSent
<1>2. Has(t, "Release") \/ Has(t, "appeared") => HasBehind(0)'
  BY <1>1 DEF Has, EndsPath
<1>4. HasBehind(0) => HasBehind(0)'
  BY BehindFollows
<1> QED BY <1>2, <1>4 DEF Sound, Soundly

(* The sessions announced, old and new.                                      *)
NewSound(t) ==
  \A k \in DOMAIN t : t[k].type = "Session" =>
    (t[k].value # NULL /\ connman' # 0 => t[k].value = connman' /\ Mine')

(* New announcements are of the session there is.                            *)
LEMMA AnnouncedFollow ==
  ASSUME Typed, Paths, NEW e, NEW t, Moved(to_pold, to_pold', e, t), Soundly(t), NewSound(t)
  PROVE  Announced'
<1>1. PICK q, p : q = to_pold /\ p = to_pold'
  OBVIOUS
<1>2. SUFFICES ASSUME NEW i \in DOMAIN p, p[i].type = "Session" PROVE Sound(p[i].value, i)'
  BY <1>1 DEF Announced, Sound
<1>3. CASE i + e \in DOMAIN q /\ p[i] = q[i + e]
  <2>1. PICK j : j = i + e
    OBVIOUS
  <2>2. i \in Nat /\ e \in {0, 1} /\ i >= 1
    BY <1>1, Indices
  <2>3. j \in DOMAIN to_pold /\ j >= e /\ j - e = i
    BY <1>1, <1>3, <2>1, <2>2
  <2>4. PICK v : v = p[i].value
    OBVIOUS
  <2>5. Sound(v, j)
    BY <1>1, <1>2, <1>3, <2>1, <2>3, <2>4 DEF Paths, Announced
  <2>6. Sound(v, j - e)'
    BY ONLY <2>3, <2>5, SoundFollows, Moved(to_pold, to_pold', e, t), Soundly(t)
  <2> QED BY <2>3, <2>4, <2>6
<1>4. CASE i + e - Len(q) \in DOMAIN t /\ p[i] = t[i + e - Len(q)]
  BY <1>2, <1>4 DEF NewSound, Sound
<1>5. \/ i + e \in DOMAIN q /\ p[i] = q[i + e]
      \/ i + e - Len(q) \in DOMAIN t /\ p[i] = t[i + e - Len(q)]
  <2>1. Moved(q, p, e, t)
    BY <1>1
  <2> QED BY ONLY <2>1, i \in DOMAIN p, Places
<1> QED BY <1>3, <1>4, <1>5

(* A step that leaves the path alone.                                        *)
LEMMA PathsKeep ==
  ASSUME Typed, Paths, NEW e, NEW t, Moved(to_pold, to_pold', e, t), Soundly(t), NewSound(t),
         session_path' = session_path, create_calls' = create_calls, Spares(to_pold, e, EndsPath)
  PROVE  Paths'
<1>1. PICK v : v = session_path
  OBVIOUS
<1>2. Sound(v, 0) => Sound(v, 0)'
  BY PathFollows
<1>3. create_calls # {} \/ Sound(v, 0)
  BY <1>1 DEF Paths, Held, Sound
<1>4. Held'
  BY <1>1, <1>2, <1>3 DEF Held, Sound
<1> QED BY <1>4, AnnouncedFollow DEF Paths

(* A step of ConnMan that ends the session says so.                          *)
LEMMA PathsAtConnman ==
  ASSUME Typed, Departures, Paths, AtConnman
  PROVE  Paths'
<1> USE WithoutAll
<1>0. pold' = pold /\ connman' = connman /\ UNCHANGED <<session_path, create_calls>>
  BY DEF AtConnman, Quietly, Asked, Denied, Orphaned, Ended, Freed, Fixed, client
<1>1. ASSUME NEW t, Without(t, {"Session"}) PROVE NewSound(t)
  BY <1>1 DEF Without, NewSound
<1>2. ASSUME NEW d, NEW s, NEW e, NEW t, Quietly(d, s, e, t) PROVE Paths'
  <2>1. Moved(to_pold, to_pold', e, t) /\ Without(t, {"Session"}) /\ Spares(to_pold, e, EndsPath)
    BY <1>2 DEF Quietly, Step, Without, Words, Spares, EndsPath
  <2>2. Soundly(t)
    BY <1>0, <1>2 DEF Quietly, OwnSame, Heard, Soundly, Mine
  <2>3. NewSound(t)
    BY <1>1, <2>1
  <2> QED BY ONLY Typed, Paths, <1>0, <2>1, <2>2, <2>3, PathsKeep
<1>3. ASSUME NEW d, NEW s, NEW t, Step(d, s, 0, t), starting' = starting, Mine => Mine' \/ Has(t, "Release"), NewSound(t)
      PROVE  Paths'
  <2>1. Moved(to_pold, to_pold', 0, t) /\ Spares(to_pold, 0, EndsPath)
    BY <1>3 DEF Step
  <2>2. Soundly(t)
    BY <1>0, <1>3 DEF Soundly
  <2> QED BY ONLY Typed, Paths, <1>0, <1>3, <2>1, <2>2, PathsKeep
<1>4. ASSUME NEW s, NEW t, Asked(s, t) PROVE Paths'
  <2>1. Step(1, s, 0, t) /\ starting' = starting /\ ~Mine /\ Without(t, {"Session"})
    BY <1>4 DEF Asked, Mine, Without, Words
  <2> QED BY <1>1, <1>3, <2>1
<1>5. ASSUME NEW t, Denied(t) PROVE Paths'
  <2>1. Step(1, <<>>, 0, t) /\ starting' = starting /\ Mine' = Mine
    BY <1>0, <1>5 DEF Denied, Mine, OwnSame
  <2>2. NewSound(t)
    <3>1. PICK m : m = Message("Session", Self, to_connman[1].number, NULL)
      OBVIOUS
    <3>2. m.value = NULL /\ t \in {<<>>, <<m>>}
      BY <1>5, <3>1 DEF Denied, Message
    <3> QED BY <3>2 DEF NewSound
  <2> QED BY <1>3, <2>1, <2>2
<1>6. CASE Orphaned
  <2>1. Step(1, <<>>, 0, <<>>) /\ starting' = starting /\ to_connman[1].type = "OwnerLeft"
    BY <1>6 DEF Orphaned
  <2>2. 1 \in DOMAIN to_connman
    BY <2>1 DEF Step, Moved
  <2>3. ~Mine
    BY <2>1, <2>2 DEF Departures, Has, Made, Mine
  <2> QED BY <1>1, <1>3, <2>1, <2>3
<1>7. ASSUME NEW d, NEW t, Ended(d, t) PROVE Paths'
  <2>1. Step(d, <<>>, 0, t) /\ starting' = starting /\ ~Mine
    BY <1>7 DEF Ended, Mine
  <2>2. NewSound(t)
    <3>1. PICK v : v = IF session'[Self] = "none" THEN NULL ELSE connman
      OBVIOUS
    <3>2. PICK m : m = Message("Session", Self, caller.number, v)
      OBVIOUS
    <3>3. t = (IF pold = caller.process THEN <<m>> ELSE <<>>) /\ m.value = v
      BY <1>7, <3>1, <3>2 DEF Ended, Message
    <3>4. pold = caller.process /\ v # NULL => v = connman' /\ Mine'
      BY <1>0, <1>7, <3>1 DEF Ended, Mine
    <3> QED BY <3>3, <3>4 DEF NewSound
  <2> QED BY <1>3, <2>1, <2>2
<1>8. ASSUME NEW t, Freed(t) PROVE Paths'
  <2>1. Step(0, <<>>, 0, t) /\ starting' = starting
    BY <1>8 DEF Freed
  <2>2. PICK m : m = Message("Release", Self, 0, NULL)
    OBVIOUS
  <2>3. m.type = "Release" /\ t = IF pold = caller.process THEN <<m>> ELSE <<>>
    BY <1>8, <2>2 DEF Freed, Message
  <2>4. Mine => Has(t, "Release")
    BY <2>3 DEF Mine, Has
  <2>5. Without(t, {"Session"})
    BY <2>3
  <2> QED BY <1>1, <1>3, <2>1, <2>4, <2>5
<1> QED BY <1>2, <1>4, <1>5, <1>6, <1>7, <1>8 DEF AtConnman

(* Paths is inductive.                                                       *)
LEMMA PathsKept == Typed /\ Departures /\ Paths /\ [Next]_vars => Paths'
<1> SUFFICES ASSUME Typed, Departures, Paths, [Next]_vars PROVE Paths'
  OBVIOUS
<1> USE WithoutAll
<1>0. Typed'
  BY TypedKept
<1>1. ASSUME NEW s, NEW e, NEW t, Step(0, s, e, t), Theirs, NewSound(t)
      PROVE  /\ Soundly(t) /\ Moved(to_pold, to_pold', e, t)
             /\ Announced'
  <2>1. Soundly(t) /\ Moved(to_pold, to_pold', e, t)
    BY <1>1 DEF Soundly, Theirs, lives, sessions, Mine, Step
  <2> QED BY <1>1, <2>1, AnnouncedFollow
<1>2. NewSound(<<>>)
  BY DEF NewSound
<1>3. CASE connman_appeared
  <2>1. PICK s, t : /\ Step(0, s, 1, t)
                    /\ IF connman = 0
                       THEN s = <<>> /\ t = <<Message("Session", Self, calls + 1, NULL)>>
                       ELSE s = <<Message("CreateSession", Self, calls + 1, pold)>> /\ t = <<>>
    BY <1>3, ConnmanSeen
  <2>2. Theirs /\ create_calls' # {}
    BY <1>3, ConnmanSeen
  <2>3. NewSound(t)
    <3>1. PICK m : m = Message("Session", Self, calls + 1, NULL)
      OBVIOUS
    <3>2. m.value = NULL /\ t \in {<<>>, <<m>>}
      BY <2>1, <3>1 DEF Message
    <3> QED BY <3>2 DEF NewSound
  <2> QED BY <1>1, <2>1, <2>2, <2>3 DEF Paths, Held
<1>4. CASE create_session_cb
  <2>1. /\ Theirs /\ Step(0, <<>>, 1, <<>>) /\ to_pold[1].type = "Session" /\ to_pold # <<>>
        /\ \/ session_path' = to_pold[1].value
           \/ UNCHANGED <<session_path, create_calls>>
    BY <1>4, PathAnswered DEF SessionMessage
  <2>2. /\ Soundly(<<>>) /\ Moved(to_pold, to_pold', 1, <<>>)
        /\ Announced'
    BY <1>1, <1>2, <2>1
  <2>3. CASE session_path' = to_pold[1].value
    <3>1. PICK v, i : v = to_pold[1].value /\ i = 1
      OBVIOUS
    <3>2. i \in DOMAIN to_pold
      BY <2>2, <3>1 DEF Moved
    <3>3. Sound(v, i)
      BY <2>1, <3>1, <3>2 DEF Paths, Announced, Sound
    <3>4. i >= 1
      BY <3>1
    <3>5. Sound(v, i - 1)'
      BY ONLY <2>2, <3>2, <3>3, <3>4, SoundFollows
    <3>6. i - 1 = 0
      BY <3>1
    <3> QED BY <2>2, <2>3, <3>1, <3>5, <3>6 DEF Paths, Held, Sound
  <2>4. CASE UNCHANGED <<session_path, create_calls>>
    <3>1. Spares(to_pold, 1, EndsPath)
      BY <2>1 DEF Spares, EndsPath
    <3> QED BY ONLY Typed, Paths, <1>2, <2>2, <2>4, <3>1, PathsKeep
  <2> QED BY <2>1, <2>3, <2>4
<1>5. CASE release
  <2>1. Theirs /\ Step(0, <<>>, 1, <<>>) /\ session_path' = NULL
    BY <1>5, PathReleased
  <2> QED BY <1>1, <1>2, <2>1 DEF Paths, Held, Announced, Sound
<1>6. CASE CreateTimeout
  <2>1. Theirs /\ Step(0, <<>>, 0, <<>>) /\ session_path' = NULL
    BY <1>6, PathLate
  <2> QED BY <1>1, <1>2, <2>1 DEF Paths, Held, Announced, Sound
<1>7. CASE PoldStarts \/ PoldStops
  <2>1. session_path' = NULL
    BY <1>7, PoldRuns, PoldLeaves DEF Typed, PoldOff, client
  <2>2. to_pold' = <<>>
    BY <1>7, PoldRuns, PoldLeaves DEF Typed, PoldOff
  <2> QED BY <2>1, <2>2 DEF Paths, Held, Announced, Sound
<1>8. CASE ConnmanStarts
  <2>1. UNCHANGED <<pold, client>>
    BY <1>8, ConnmanRuns
  <2>2. PICK t : /\ Step(0, <<>>, 0, t)
                 /\ t = IF pold = 0 THEN <<>> ELSE <<Plain0("appeared")>>
    BY <1>8, ConnmanRuns
  <2>3. CASE pold = 0
    <3>1. session_path' = NULL /\ to_pold' = <<>>
      BY <1>0, <2>1, <2>3 DEF Typed, PoldOff
    <3> QED BY <3>1 DEF Paths, Held, Announced, Sound
  <2>4. CASE pold # 0
    <3>1. PICK m : m = Plain0("appeared")
      OBVIOUS
    <3>2. m.type \in EndsPath /\ t = <<m>> /\ Moved(to_pold, to_pold', 0, t)
      BY <2>2, <2>4, <3>1 DEF Plain0, Message, EndsPath, Step
    <3>3. 1 \in DOMAIN t /\ t[1].type \in EndsPath
      BY <3>2, One
    <3>4. HasBehind(0)' /\ \A i \in DOMAIN to_pold : HasBehind(i - 0)'
      BY ONLY <3>2, <3>3, BehindSent
    <3>5. ASSUME NEW i \in DOMAIN to_pold', to_pold'[i].type = "Session" PROVE HasBehind(i)'
      <4>1. PICK q, p : q = to_pold /\ p = to_pold'
        OBVIOUS
      <4>2. PICK T : T = {"Session"}
        OBVIOUS
      <4>3. Moved(q, p, 0, t) /\ Without(t, T) /\ i \in DOMAIN p /\ p[i].type \in T
        BY <3>1, <3>2, <3>5, <4>1, <4>2 DEF Plain0, Message
      <4>4. i + 0 \in DOMAIN q
        BY ONLY <4>3, FromBefore
      <4>5. i \in Nat /\ i \in DOMAIN q
        BY <4>3, <4>4, Indices
      <4>6. HasBehind(i - 0)' /\ i - 0 = i
        BY <3>4, <4>1, <4>5
      <4> QED BY <4>6
    <3> QED BY <3>4, <3>5 DEF Paths, Held, Announced, Sound
  <2> QED BY <2>3, <2>4
<1>9. CASE ConnmanStops
  <2>1. connman' = 0
    BY <1>9, ConnmanLeaves
  <2> QED BY <2>1 DEF Paths, Held, Announced, Sound
<1> QED BY <1>3, <1>4, <1>5, <1>6, <1>7, <1>8, <1>9, PathsAtConnman, Steps
-----------------------------------------------------------------------------
(* While pold has not been told twice that ConnMan appeared, and no timer    *)
(* has fired, there is one call, one session, and one answer.                *)
Calling(m) == m.type = "CreateSession" /\ m.value = pold
Creator(n) == Made /\ caller.number = n
Owns(n) == Mine /\ caller.number = n
Joined == session_path = connman /\ ~Has(to_pold, "Release") /\ create_calls = {}
Confirmed(n) ==
  \E i \in DOMAIN to_pold :
    /\ AnswerFor(to_pold[i], n) /\ to_pold[i].value = connman
    /\ \A j \in DOMAIN to_pold : AnswerFor(to_pold[j], n) => j = i
    /\ \A k \in DOMAIN to_pold : k > i => to_pold[k].type # "Release"
OneCall == \A n, m \in create_calls : n = m
Sole == \A i, j \in DOMAIN to_connman : Calling(to_connman[i]) /\ Calling(to_connman[j]) => i = j
Unserved == \A n : Sent(n) => n \in create_calls /\ ~Creator(n) /\ ~ReplyTo(n)
Served == \A n : Maker(n) => n \in create_calls /\ ~ReplyTo(n)
Done == \A n : Owns(n) => Joined \/ (n \in create_calls /\ Confirmed(n))
Single == OneCall /\ Sole /\ Unserved /\ Served /\ Done
Undisturbed == faults \cap {"twice", "timeout"} = {}
Found == Undisturbed => Single

(* A step that asks for no session leaves the calls there were, but for the  *)
(* one it handles.                                                           *)
LEMMA CallsFollow ==
  ASSUME NEW d, NEW s, Moved(to_connman, to_connman', d, s), Without(s, {"CreateSession"}), pold' = pold
  PROVE  /\ \A n : Sent(n)' => Sent(n)
         /\ Sole => Sole'
         /\ Sole /\ d = 1 /\ Calling(to_connman[1]) => \A n : ~Sent(n)'
<1>1. PICK q, p : q = to_connman /\ p = to_connman'
  OBVIOUS
<1>2. PICK T : T = {"CreateSession"}
  OBVIOUS
<1>3. Moved(q, p, d, s) /\ Without(s, T)
  BY <1>1, <1>2
<1>4. ASSUME NEW i \in DOMAIN p, p[i].type = "CreateSession"
      PROVE  i + d \in DOMAIN q /\ p[i] = q[i + d] /\ i + d > d /\ (i + d) - d = i
  <2>1. p[i].type \in T
    BY <1>2, <1>4
  <2> QED BY ONLY <1>3, <2>1, i \in DOMAIN p, FromBefore
<1>5. ASSUME NEW n, Sent(n)'
      PROVE  \E i \in DOMAIN q : CreateFor(q[i], n) /\ i > d
  <2>1. PICK i \in DOMAIN p : p[i].type = "CreateSession" /\ p[i].number = n /\ p[i].value = pold
    BY <1>1, <1>5 DEF Sent, CreateFor
  <2>2. PICK j : j = i + d
    OBVIOUS
  <2> QED BY <1>4, <2>1, <2>2 DEF CreateFor
<1>6. \A n : Sent(n)' => Sent(n)
  BY <1>1, <1>5 DEF Sent
<1>7. Sole => Sole'
  <2> SUFFICES ASSUME Sole, NEW i \in DOMAIN p, NEW j \in DOMAIN p,
                      p[i].type = "CreateSession", p[i].value = pold, p[j].type = "CreateSession", p[j].value = pold
               PROVE  i = j
    BY <1>1 DEF Sole, Calling
  <2>1. i + d = j + d
    BY <1>1, <1>4 DEF Sole, Calling
  <2> QED BY <1>4, <2>1
<1>8. ASSUME Sole, d = 1, Calling(q[1]), NEW n, Sent(n)' PROVE FALSE
  <2>1. PICK i \in DOMAIN q : CreateFor(q[i], n) /\ i > 1
    BY <1>5, <1>8
  <2>2. 1 \in DOMAIN q
    BY <1>3, <1>8, <2>1, Indices
  <2>3. i = 1
    BY <1>1, <1>8, <2>1, <2>2 DEF Sole, Calling, CreateFor
  <2> QED BY <2>1, <2>3
<1> QED BY <1>1, <1>6, <1>7, <1>8

(* A step that answers none brings no answer.                                *)
LEMMA RepliesFollow ==
  ASSUME NEW e, NEW t, Moved(to_pold, to_pold', e, t), Without(t, {"Session"})
  PROVE  \A n : ReplyTo(n)' => ReplyTo(n)
<1>1. PICK q, p : q = to_pold /\ p = to_pold'
  OBVIOUS
<1>2. PICK T : T = {"Session"}
  OBVIOUS
<1>3. ASSUME NEW i \in DOMAIN p, p[i].type = "Session" PROVE i + e \in DOMAIN q /\ p[i] = q[i + e]
  <2>1. p[i].type \in T /\ Moved(q, p, e, t) /\ Without(t, T)
    BY <1>1, <1>2, <1>3
  <2> QED BY ONLY <2>1, i \in DOMAIN p, FromBefore
<1> QED BY <1>1, <1>3 DEF ReplyTo, AnswerFor

(* A session confirmed stays so until pold reads of it.                      *)
LEMMA ConfirmedFollows ==
  ASSUME NEW e, NEW t, Moved(to_pold, to_pold', e, t), Without(t, Words), connman' = connman,
         NEW n, e = 1 => ~AnswerFor(to_pold[1], n), Confirmed(n)
  PROVE  Confirmed(n)'
<1>1. PICK q, p, c : q = to_pold /\ p = to_pold' /\ c = connman
  OBVIOUS
<1>2. PICK i \in DOMAIN q :
        /\ AnswerFor(q[i], n) /\ q[i].value = c
        /\ \A j \in DOMAIN q : AnswerFor(q[j], n) => j = i
        /\ \A k \in DOMAIN q : k > i => q[k].type # "Release"
  BY <1>1 DEF Confirmed
<1>3. i \in Nat /\ i >= 1 /\ e \in {0, 1}
  BY <1>1, Indices
<1>4. i > e
  BY <1>1, <1>2, <1>3
<1>5. i - e \in DOMAIN p /\ p[i - e] = q[i]
  BY <1>1, <1>4, Places
<1>6. ASSUME NEW j \in DOMAIN p, p[j].type \in Words
      PROVE  j + e \in DOMAIN q /\ p[j] = q[j + e] /\ j \in Nat
  <2>1. PICK T : T = Words
    OBVIOUS
  <2>2. p[j].type \in T /\ Moved(q, p, e, t) /\ Without(t, T)
    BY <1>1, <1>6, <2>1
  <2>3. j + e \in DOMAIN q /\ p[j] = q[j + e]
    BY ONLY <2>2, j \in DOMAIN p, FromBefore
  <2> QED BY <2>2, <2>3, Indices
<1>7. ASSUME NEW j \in DOMAIN p, AnswerFor(p[j], n) PROVE j = i - e
  <2>1. p[j].type \in Words
    BY <1>7 DEF AnswerFor, Words
  <2>2. j + e = i
    BY <1>2, <1>6, <1>7, <2>1
  <2> QED BY <1>3, <1>6, <2>1, <2>2
<1>8. ASSUME NEW k \in DOMAIN p, k > i - e, p[k].type = "Release" PROVE FALSE
  <2>1. p[k].type \in Words
    BY <1>8 DEF Words
  <2>2. k + e > i
    BY <1>3, <1>6, <1>8, <2>1
  <2> QED BY <1>2, <1>6, <1>8, <2>1, <2>2
<1>9. PICK x \in DOMAIN p : x = i - e
  BY <1>5
<1> QED BY <1>1, <1>2, <1>5, <1>7, <1>8, <1>9 DEF Confirmed

(* Nothing is released but what was.                                         *)
LEMMA ReleasesFollow ==
  ASSUME NEW e, NEW t, Moved(to_pold, to_pold', e, t), Without(t, Words)
  PROVE  Has(to_pold', "Release") => \E j \in DOMAIN to_pold : j > e /\ to_pold[j].type = "Release"
<1>1. PICK q, p : q = to_pold /\ p = to_pold'
  OBVIOUS
<1>2. Without(t, {"Release"}) /\ Moved(q, p, e, t)
  BY <1>1 DEF Without, Words
<1>3. Has(p, "Release") => \E j \in DOMAIN q : j > e /\ q[j].type = "Release"
  BY ONLY <1>2, HasFollows
<1> QED BY <1>1, <1>3

(* Without a session or a call for one, there is nothing to serve.           *)
LEMMA Unclaimed ==
  ASSUME ~Made', \A n : ~Sent(n)', Sole', OneCall'
  PROVE  Single'
<1>1. Unserved'
  BY DEF Unserved
<1>2. Served'
  BY DEF Served, Maker, Made
<1>3. Done'
  BY DEF Done, Owns, Mine, Made
<1> QED BY <1>1, <1>2, <1>3 DEF Single
-----------------------------------------------------------------------------
(* A step that answers no call, and does nothing to a session of pold's that *)
(* it leaves.                                                                *)
Sparing(t) ==
  /\ UNCHANGED <<pold, connman, create_calls>>
  /\ session_path' = session_path \/ Has(to_pold, "Release")
  /\ Without(t, {"Session"}) /\ (Made' => OwnSame /\ Without(t, Words))

(* Such a step keeps what is single.                                         *)
LEMMA SingleFollows ==
  ASSUME Single, NEW d, NEW s, Moved(to_connman, to_connman', d, s), Without(s, {"CreateSession"}),
         NEW e, NEW t, Moved(to_pold, to_pold', e, t), Sparing(t),
         e = 1 => \A n \in create_calls : ~AnswerFor(to_pold[1], n)
  PROVE  Single'
<1>0. pold' = pold /\ connman' = connman /\ create_calls' = create_calls
  BY DEF Sparing
<1>1. (\A n : Sent(n)' => Sent(n)) /\ (Sole => Sole')
  BY <1>0, CallsFollow
<1>2. \A n : ReplyTo(n)' => ReplyTo(n)
  BY RepliesFollow DEF Sparing
<1>3. \A n : Creator(n)' => Creator(n)
  BY DEF Sparing, Creator, Made, OwnSame
<1>4. Made' => OwnSame
  BY DEF Sparing
<1>5. \A n : Maker(n)' => Maker(n)
  BY <1>0, <1>4 DEF Maker, Made, OwnSame
<1>6. \A n : Owns(n)' => Owns(n)
  BY <1>0, <1>4 DEF Owns, Mine, Made, OwnSame
<1>7. ASSUME NEW n, Owns(n)' PROVE (Joined \/ (n \in create_calls /\ Confirmed(n)))'
  <2>1. OwnSame /\ Without(t, Words)
    BY <1>7 DEF Owns, Mine, Made, Sparing
  <2>2. CASE Joined
    <3>1. ~Has(to_pold', "Release")
      BY <2>1, <2>2, ReleasesFollow DEF Joined, Has
    <3> QED BY <1>0, <2>2, <3>1 DEF Joined, Sparing, Has
  <2>3. CASE n \in create_calls /\ Confirmed(n)
    BY <1>0, <2>1, <2>3, ConfirmedFollows
  <2> QED BY <1>6, <1>7, <2>2, <2>3 DEF Single, Done
<1>8. Done'
  BY <1>7 DEF Done
<1>9. Unserved'
  BY <1>0, <1>1, <1>2, <1>3 DEF Single, Unserved
<1>10. Served'
  BY <1>0, <1>2, <1>5 DEF Single, Served
<1>11. OneCall'
  BY <1>0 DEF Single, OneCall
<1> QED BY <1>1, <1>8, <1>9, <1>10, <1>11 DEF Single

(* ConnMan makes the one session there may be, and answers the one call      *)
(* once.                                                                     *)
LEMMA SingleAtConnman ==
  ASSUME Typed, Single, AtConnman, "timeout" \notin faults'
  PROVE  Single'
<1> USE WithoutAll
<1>0. /\ pold' = pold /\ connman' = connman /\ create_calls' = create_calls /\ session_path' = session_path
      /\ OneCall'
  BY DEF AtConnman, Quietly, Asked, Denied, Orphaned, Ended, Freed, Fixed, client, Single, OneCall
<1>1. ASSUME NEW d, NEW s, NEW e, NEW t, Step(d, s, e, t), Without(s, {"CreateSession"}),
             Without(t, {"Session"}), Made' => OwnSame /\ Without(t, Words), Spares(to_pold, e, {"Session"})
      PROVE  Single'
  <2>1. Moved(to_connman, to_connman', d, s) /\ Moved(to_pold, to_pold', e, t) /\ Sparing(t)
    BY <1>0, <1>1 DEF Step, Sparing
  <2>2. e = 1 => \A n \in create_calls : ~AnswerFor(to_pold[1], n)
    BY <1>1 DEF Spares, AnswerFor
  <2> QED BY ONLY Single, <1>1, <2>1, <2>2, SingleFollows
<1>2. ASSUME NEW d, NEW s, NEW e, NEW t, Quietly(d, s, e, t) PROVE Single'
  <2>1. Step(d, s, e, t) /\ OwnSame /\ Without(s, {"CreateSession"}) /\ Without(t, {"Session"}) /\ Without(t, Words)
        /\ Spares(to_pold, e, {"Session"})
    BY <1>2 DEF Quietly, Without, Words, Deals, Spares
  <2> QED BY <1>1, <2>1

(* Where pold's call is handled, there was no session of pold's.             *)
<1>3. ASSUME to_connman # <<>>, to_connman[1] \in CreateMessage, to_connman[1].value = pold,
             NEW s, NEW t, Step(1, s, 0, t), Without(s, {"CreateSession"})
      PROVE  /\ to_connman[1].number \in create_calls /\ ~ReplyTo(to_connman[1].number)
             /\ ~Made /\ Sole' /\ \A n : ~Sent(n)'
  <2>1. 1 \in DOMAIN to_connman /\ Calling(to_connman[1]) /\ CreateFor(to_connman[1], to_connman[1].number)
    BY <1>3 DEF Step, Moved, CreateMessage, Calling, CreateFor
  <2>2. Sent(to_connman[1].number)
    BY <2>1 DEF Sent
  <2>3. to_connman[1].number \in create_calls /\ ~Creator(to_connman[1].number) /\ ~ReplyTo(to_connman[1].number)
    BY <2>2 DEF Single, Unserved
  <2>4. Moved(to_connman, to_connman', 1, s) /\ Sole
    BY <1>3 DEF Step, Single
  <2>5. Sole' /\ \A n : ~Sent(n)'
    BY <1>0, <1>3, <2>1, <2>4, CallsFollow
  <2>6. ASSUME Made PROVE FALSE
    <3>1. session[Self] \in {"creating", "created"}
      BY <2>6 DEF Made, Typed, SessionTypes, Owner
    <3>2. Maker(caller.number) \/ Owns(caller.number)
      BY <2>6, <3>1 DEF Made, Maker, Owns, Mine
    <3>3. caller.number \in create_calls
      BY <2>3, <3>2 DEF Single, Served, Done, Joined
    <3>4. Creator(to_connman[1].number)
      BY <2>3, <2>6, <3>3 DEF Single, OneCall, Creator
    <3> QED BY <2>3, <3>4
  <2> QED BY <2>3, <2>5, <2>6
<1>4. ASSUME NEW s, NEW t, Asked(s, t) PROVE Single'
  <2>1. Step(1, s, 0, t) /\ to_connman[1] \in CreateMessage
        /\ Without(s, {"CreateSession"}) /\ Without(t, {"Session"}) /\ Without(t, Words)
        /\ session'[Self] = "creating"
    BY <1>4 DEF Asked, Without, Words, Deals
  <2>2. CASE to_connman[1].value = pold
    <3>1. to_connman # <<>>
      BY <2>1 DEF Step, Moved
    <3>2. PICK c : c = to_connman[1].number
      OBVIOUS
    <3>3. c \in create_calls /\ ~ReplyTo(c) /\ Sole' /\ \A n : ~Sent(n)'
      BY <1>3, <2>1, <2>2, <3>1, <3>2
    <3>4. ~ReplyTo(c)'
      BY <2>1, <3>3, RepliesFollow DEF Step
    <3>5. caller'.number = c
      BY <1>4, <3>2 DEF Asked
    <3>6. Served'
      BY <1>0, <3>3, <3>4, <3>5 DEF Served, Maker
    <3>7. Unserved' /\ Done'
      BY <2>1, <3>3 DEF Unserved, Done, Owns, Mine
    <3> QED BY <1>0, <3>3, <3>6, <3>7 DEF Single
  <2>3. CASE to_connman[1].value # pold
    <3>1. ~Made'
      BY <1>0, <1>4, <2>3 DEF Asked, Made
    <3>2. Spares(to_pold, 0, {"Session"})
      BY DEF Spares
    <3> QED BY <1>1, <2>1, <3>1, <3>2
  <2> QED BY <2>2, <2>3
<1>5. ASSUME NEW t, Denied(t) PROVE Single'
  <2>1. Step(1, <<>>, 0, t) /\ to_connman[1] \in CreateMessage /\ Without(<<>>, {"CreateSession"}) /\ OwnSame
    BY <1>5 DEF Denied
  <2>2. CASE to_connman[1].value = pold
    <3>1. to_connman # <<>>
      BY <2>1 DEF Step, Moved
    <3>2. ~Made /\ Sole' /\ \A n : ~Sent(n)'
      BY <1>3, <2>1, <2>2, <3>1
    <3>3. ~Made'
      BY <1>0, <2>1, <3>2 DEF Made, OwnSame
    <3> QED BY <1>0, <3>2, <3>3, Unclaimed
  <2>3. CASE to_connman[1].value # pold
    <3>1. t = <<>> /\ Without(<<>>, {"Session"}) /\ Without(<<>>, Words) /\ Spares(to_pold, 0, {"Session"})
      BY <1>5, <2>3 DEF Denied
    <3> QED BY <1>1, <2>1, <3>1
  <2> QED BY <2>2, <2>3
<1>6. CASE Orphaned
  <2>1. Step(1, <<>>, 0, <<>>) /\ Without(<<>>, {"CreateSession"}) /\ Without(<<>>, {"Session"}) /\ ~Made'
        /\ Spares(to_pold, 0, {"Session"})
    BY <1>6 DEF Orphaned, Made
  <2> QED BY <1>1, <2>1
<1>7. ASSUME NEW t, Freed(t) PROVE Single'
  <2>1. Step(0, <<>>, 0, t) /\ Without(<<>>, {"CreateSession"}) /\ ~Made' /\ Spares(to_pold, 0, {"Session"})
    BY <1>7 DEF Freed, Made
  <2>2. PICK m : m = Message("Release", Self, 0, NULL)
    OBVIOUS
  <2>3. m.type = "Release" /\ t \in {<<>>, <<m>>}
    BY <1>7, <2>2 DEF Freed, Message
  <2>4. Without(t, {"Session"})
    BY <2>3
  <2> QED BY <1>1, <2>1, <2>4
<1>8. ASSUME NEW d, NEW t, Ended(d, t) PROVE Single'
  <2>1. Step(d, <<>>, 0, t) /\ Without(<<>>, {"CreateSession"}) /\ caller' = caller /\ session[Self] = "creating"
    BY <1>8 DEF Ended
  <2>2. CASE pold = caller.process
    <3>1. PICK c : c = caller.number
      OBVIOUS
    <3>2. Maker(c) /\ Creator(c)
      BY <2>1, <2>2, <3>1 DEF Maker, Creator, Made
    <3>3. c \in create_calls /\ ~ReplyTo(c)
      BY <3>2 DEF Single, Served
    <3>4. Moved(to_connman, to_connman', d, <<>>) /\ Moved(to_pold, to_pold', 0, t)
      BY <2>1 DEF Step
    <3>5. (\A n : Sent(n)' => Sent(n)) /\ Sole'
      BY <1>0, <2>1, <3>4, CallsFollow DEF Single
    <3>6. \A n : ~Sent(n)'
      BY <3>2, <3>3, <3>5 DEF Single, Unserved, OneCall
    <3>7. CASE session'[Self] = "none"
      BY <1>0, <3>5, <3>6, <3>7, Unclaimed DEF Made
    <3>8. CASE session'[Self] = "created"
      <4>1. PICK k : k = connman
        OBVIOUS
      <4>2. PICK m : m = Message("Session", Self, c, k)
        OBVIOUS
      <4>3. t = <<m>> /\ AnswerFor(m, c) /\ m.value = k /\ m.type = "Session" /\ Len(<<m>>) = 1
        BY <1>8, <2>2, <3>1, <3>8, <4>1, <4>2 DEF Ended, AnswerFor, Message
      <4>4. PICK q, p, i : q = to_pold /\ p = to_pold' /\ i = Len(q) + 1
        OBVIOUS
      <4>5. Moved(q, p, 0, t) /\ Len(q) \in Nat /\ DOMAIN p = 1 .. Len(q) + 1 /\ DOMAIN q = 1 .. Len(q)
        BY <3>4, <4>3, <4>4 DEF Moved
      <4>6. i \in DOMAIN p /\ p[i] = m /\ \A j \in DOMAIN p : j # i => j \in DOMAIN q /\ p[j] = q[j]
        BY <4>3, <4>4, <4>5, One DEF Moved
      <4>7. \A j \in DOMAIN p : AnswerFor(p[j], c) => j = i
        BY <3>3, <4>4, <4>6 DEF ReplyTo
      <4>8. \A j \in DOMAIN p : ~(j > i)
        BY <4>4, <4>5
      <4>9. Confirmed(c)'
        BY <1>0, <4>1, <4>3, <4>4, <4>6, <4>7, <4>8 DEF Confirmed
      <4>10. Done'
        BY <1>0, <2>1, <3>1, <3>3, <4>9 DEF Done, Owns
      <4>11. Unserved' /\ Served'
        BY <3>6, <3>8 DEF Unserved, Served, Maker
      <4> QED BY <1>0, <3>5, <4>10, <4>11 DEF Single
    <3> QED BY <1>8, <3>7, <3>8 DEF Ended
  <2>3. CASE pold # caller.process
    <3>1. t = <<>> /\ Without(<<>>, {"Session"}) /\ Spares(to_pold, 0, {"Session"})
      BY <1>8, <2>3 DEF Ended
    <3>2. ~Made'
      BY <1>0, <2>1, <2>3 DEF Made
    <3> QED BY <1>1, <2>1, <3>1, <3>2
  <2> QED BY <2>2, <2>3
<1> QED BY <1>2, <1>4, <1>5, <1>6, <1>7, <1>8 DEF AtConnman
-----------------------------------------------------------------------------
(* Found is inductive: pold asks a second time only if it hears twice of     *)
(* ConnMan, or when its first call has timed out.                            *)
LEMMA FoundKept == Typed /\ Numbers /\ Found /\ [Next]_vars => Found'
<1> SUFFICES ASSUME Typed, Numbers, Found, [Next]_vars, Undisturbed' PROVE Single'
  BY DEF Found
<1> USE WithoutAll
<1>0. "twice" \notin faults' /\ "timeout" \notin faults'
  BY DEF Undisturbed
<1>1. ASSUME faults \subseteq faults' PROVE Single
  BY <1>0, <1>1 DEF Found, Undisturbed
<1>2. CASE AtConnman
  <2>1. faults \subseteq faults'
    BY <1>2 DEF AtConnman, Quietly, Asked, Denied, Orphaned, Ended, Freed
  <2> QED BY <1>0, <1>1, <1>2, <2>1, SingleAtConnman
<1>3. CASE connman_appeared
  <2>1. PICK s, t : /\ Step(0, s, 1, t)
                    /\ IF connman = 0
                       THEN s = <<>> /\ t = <<Message("Session", Self, calls + 1, NULL)>>
                       ELSE s = <<Message("CreateSession", Self, calls + 1, pold)>> /\ t = <<>>
    BY <1>3, ConnmanSeen
  <2>2. Theirs /\ create_calls = {} /\ session_path # connman /\ create_calls' = create_calls \cup {calls + 1} /\ Single
    BY <1>0, <1>1, <1>3, ConnmanSeen
  <2>3. pold' = pold /\ Moved(to_connman, to_connman', 0, s) /\ Moved(to_pold, to_pold', 1, t)
    BY <2>1, <2>2 DEF Theirs, lives, Step
  <2>4. \A n : ~Sent(n) /\ ~Maker(n) /\ ~Owns(n)
    BY <2>2 DEF Single, Unserved, Served, Done, Joined
  <2>5. ~Made'
    <3>1. session[Self] \in {"none", "creating", "created"}
      BY DEF Typed, SessionTypes, Owner
    <3>2. ~Made
      BY <2>4, <3>1 DEF Made, Maker, Owns, Mine
    <3> QED BY <2>2, <2>3, <3>2 DEF Made, Theirs, sessions
  <2>6. PICK c : c = calls + 1
    OBVIOUS
  <2>7. OneCall'
    BY <2>2 DEF OneCall
  <2>8. CASE connman = 0
    <3>1. Without(s, {"CreateSession"})
      BY <2>1, <2>8
    <3>2. (\A n : Sent(n)' => Sent(n)) /\ Sole'
      BY <2>2, <2>3, <3>1, CallsFollow DEF Single
    <3> QED BY <2>4, <2>5, <2>7, <3>2, Unclaimed
  <2>9. CASE connman # 0
    <3>1. PICK m : m = Message("CreateSession", Self, c, pold)
      OBVIOUS
    <3>2. s = <<m>> /\ t = <<>> /\ m.type = "CreateSession" /\ m.number = c /\ Len(<<m>>) = 1
      BY <2>1, <2>6, <2>9, <3>1 DEF Message
    <3>3. ~ReplyTo(c)'
      <4>1. ASSUME ReplyTo(c) PROVE FALSE
        <5>1. PICK i \in DOMAIN to_pold : to_pold[i].type = "Session" /\ to_pold[i].number = c
          BY <4>1 DEF ReplyTo, AnswerFor
        <5>2. to_pold[i].number <= calls /\ to_pold[i].number \in Nat /\ calls \in Nat
          BY <5>1, Counted DEF Numbers, ToPoldKnown
        <5> QED BY <2>6, <5>1, <5>2
      <4> QED BY <2>3, <3>2, <4>1, RepliesFollow
    <3>4. PICK q, p, k : q = to_connman /\ p = to_connman' /\ k = Len(q) + 1
      OBVIOUS
    <3>5. /\ DOMAIN p = 1 .. Len(q) + 1 /\ DOMAIN q = 1 .. Len(q) /\ Len(q) \in Nat
          /\ \A i \in DOMAIN p : i # k => i \in DOMAIN q /\ p[i] = q[i]
          /\ p[k] = m
      BY <2>3, <3>2, <3>4, One DEF Moved
    <3>6. ASSUME NEW i \in DOMAIN p, p[i].type = "CreateSession", p[i].value = pold PROVE i = k
      <4>1. ASSUME i # k PROVE Sent(p[i].number)
        BY <3>4, <3>5, <3>6, <4>1 DEF Sent, CreateFor
      <4> QED BY <2>4, <4>1
    <3>7. Sole'
      BY <2>3, <3>4, <3>6 DEF Sole, Calling
    <3>8. \A n : Sent(n)' => n = c
      BY <2>3, <3>2, <3>4, <3>5, <3>6 DEF Sent, CreateFor
    <3>9. Unserved'
      BY <2>2, <2>5, <2>6, <3>3, <3>8 DEF Unserved, Creator
    <3>10. Served' /\ Done'
      BY <2>5 DEF Served, Done, Maker, Owns, Mine, Made
    <3> QED BY <2>7, <3>7, <3>9, <3>10 DEF Single
  <2> QED BY <2>8, <2>9
<1>4. CASE create_session_cb
  <2>1. /\ Theirs /\ to_pold[1] \in SessionMessage /\ to_pold # <<>>
        /\ Step(0, <<>>, 1, <<>>) /\ faults' = faults
        /\ IF to_pold[1].number \in create_calls
           THEN session_path' = to_pold[1].value /\ create_calls' = create_calls \ {to_pold[1].number}
           ELSE UNCHANGED <<session_path, create_calls>>
    BY <1>4, PathAnswered
  <2>2. /\ Moved(to_connman, to_connman', 0, <<>>) /\ Moved(to_pold, to_pold', 1, <<>>)
        /\ pold' = pold /\ connman' = connman /\ OwnSame /\ Single
    BY <1>1, <2>1 DEF Step, Theirs, lives, sessions, OwnSame
  <2>3. Without(<<>>, {"CreateSession"}) /\ Without(<<>>, {"Session"}) /\ Without(<<>>, Words)
    OBVIOUS
  <2>4. PICK c : c = to_pold[1].number
    OBVIOUS
  <2>5. 1 \in DOMAIN to_pold /\ AnswerFor(to_pold[1], c) /\ ReplyTo(c)
    BY <2>1, <2>2, <2>4 DEF Moved, SessionMessage, AnswerFor, ReplyTo
  <2>6. CASE c \notin create_calls
    <3>1. Sparing(<<>>)
      BY <2>1, <2>2, <2>3, <2>4, <2>6 DEF Sparing
    <3>2. \A n \in create_calls : ~AnswerFor(to_pold[1], n)
      BY <2>4, <2>6 DEF AnswerFor
    <3> QED BY ONLY <2>2, <2>3, <3>1, <3>2, SingleFollows
  <2>7. CASE c \in create_calls
    <3>1. create_calls' = {} /\ session_path' = to_pold[1].value
      BY <2>1, <2>2, <2>4, <2>7 DEF Single, OneCall
    <3>2. \A n \in create_calls : n = c
      BY <2>2, <2>7 DEF Single, OneCall
    <3>3. \A n : ~Sent(n) /\ ~Maker(n)
      BY <2>2, <2>5, <3>2 DEF Single, Unserved, Served
    <3>4. (\A n : Sent(n)' => Sent(n)) /\ Sole'
      BY <2>2, <2>3, CallsFollow DEF Single
    <3>5. Unserved'
      BY <3>3, <3>4 DEF Unserved
    <3>6. Served'
      BY <2>2, <3>3 DEF Served, Maker, OwnSame
    <3>7. OneCall'
      BY <3>1 DEF OneCall
    <3>8. ASSUME NEW n, Owns(n)' PROVE Joined'
      <4>1. Owns(n)
        BY <2>2, <3>8 DEF Owns, Mine, OwnSame
      <4>2. Confirmed(c)
        BY <2>2, <2>7, <3>2, <4>1 DEF Single, Done, Joined
      <4>3. /\ to_pold[1].value = connman
            /\ \A k \in DOMAIN to_pold : k > 1 => to_pold[k].type # "Release"
        BY <2>5, <4>2 DEF Confirmed
      <4>4. ~Has(to_pold', "Release")
        BY <2>2, <2>3, <4>3, ReleasesFollow
      <4> QED BY <2>2, <3>1, <4>3, <4>4 DEF Joined
    <3>9. Done'
      BY <3>8 DEF Done
    <3> QED BY <3>4, <3>5, <3>6, <3>7, <3>9 DEF Single
  <2> QED BY <2>6, <2>7
<1>5. CASE release
  <2>1. Theirs /\ Step(0, <<>>, 1, <<>>) /\ to_pold[1].type = "Release" /\ UNCHANGED <<create_calls, faults>>
    BY <1>5, PathReleased
  <2>2. /\ Moved(to_connman, to_connman', 0, <<>>) /\ Moved(to_pold, to_pold', 1, <<>>)
        /\ pold' = pold /\ connman' = connman /\ OwnSame /\ Single
    BY <1>1, <2>1 DEF Step, Theirs, lives, sessions, OwnSame
  <2>3. Without(<<>>, {"CreateSession"}) /\ Without(<<>>, {"Session"}) /\ Without(<<>>, Words)
    OBVIOUS
  <2>4. Has(to_pold, "Release")
    BY <2>1, <2>2 DEF Has, Moved
  <2>5. Sparing(<<>>)
    BY <2>1, <2>2, <2>3, <2>4 DEF Sparing
  <2>6. \A n \in create_calls : ~AnswerFor(to_pold[1], n)
    BY <2>1 DEF AnswerFor
  <2> QED BY ONLY <2>2, <2>3, <2>5, <2>6, SingleFollows
<1>6. CASE CreateTimeout
  BY <1>0, <1>6, PathLate
<1>7. CASE PoldStarts \/ PoldStops
  <2>1. create_calls' = {}
    BY <1>7, PoldRuns, PoldLeaves DEF Typed, PoldOff, client
  <2>2. ~Made' /\ \A i \in DOMAIN to_connman' : ~(to_connman'[i].type = "CreateSession" /\ to_connman'[i].value = pold')
    BY <1>7, Anew
  <2>3. (\A n : ~Sent(n)') /\ Sole' /\ OneCall'
    BY <2>1, <2>2 DEF Sent, CreateFor, Sole, Calling, OneCall
  <2> QED BY <2>2, <2>3, Unclaimed
<1>8. CASE ConnmanStarts \/ ConnmanStops
  <2>1. to_connman' = <<>> /\ create_calls' = create_calls /\ faults' = faults
    BY <1>8, ConnmanRuns, ConnmanLeaves DEF Typed, ConnmanOff, client
  <2>2. session'[Self] = "none"
    <3>1. CASE ConnmanStarts
      <4>1. session' = session /\ session_hash[Self] = NULL /\ Self \in Owner
        BY <3>1, ConnmanRuns DEF Typed, ConnmanOff, sessions, Owner
      <4> QED BY <4>1 DEF Typed, SessionTypes
    <3>2. CASE ConnmanStops
      BY <3>2, ConnmanLeaves DEF PluginReset, Owner
    <3> QED BY <1>8, <3>1, <3>2
  <2>3. DOMAIN to_connman' = {}
    BY <2>1
  <2>4. (\A n : ~Sent(n)') /\ Sole'
    BY <2>3 DEF Sent, Sole
  <2>5. OneCall' /\ ~Made'
    BY <1>1, <2>1, <2>2 DEF OneCall, Single, Made
  <2> QED BY <2>4, <2>5, Unclaimed
<1> QED BY <1>2, <1>3, <1>4, <1>5, <1>6, <1>7, <1>8, Steps

Settled == Attended /\ Paths /\ Found

(* Together with Paths, and with what keeps sessions from waiting.           *)
LEMMA SettledStays == Settled /\ [Next]_vars => Settled'
BY AttendedStays, PathsKept, FoundKept DEF Settled, Attended, Agreed

(* It holds before anything runs.                                            *)
LEMMA SettledAtFirst == Init => Settled
<1> SUFFICES ASSUME Init PROVE Paths /\ Single
  BY AttendedAtFirst DEF Settled, Found
<1>1. /\ to_connman = <<>> /\ to_pold = <<>> /\ DOMAIN <<>> = {} /\ create_calls = {} /\ session_path = NULL
      /\ session[Self] = "none"
  BY DEF Init, PluginInit, Owner
<1>2. Paths
  BY <1>1 DEF Paths, Held, Announced, Sound
<1>3. Unserved /\ Served /\ Done
  BY <1>1 DEF Unserved, Served, Done, Sent, Maker, Owns, Mine
<1> QED BY <1>1, <1>2, <1>3 DEF Single, OneCall, Sole

(* And so always.                                                            *)
LEMMA AlwaysSettled == Spec => []Settled
BY SettledAtFirst, SettledStays, PTL DEF Spec

(* Whatever starts and stops, pold knows of its own session when all is      *)
(* quiet, and of none it does not have.                                      *)
THEOREM PathSettles == Spec => []PathKnown
<1>1. Settled => PathKnown
  <2> SUFFICES ASSUME Settled, Quiet, create_calls = {}
               PROVE  /\ session_path # NULL => session_path = connman /\ Mine
                      /\ faults \cap {"twice", "timeout"} = {} => (Mine => session_path = connman)
    BY DEF PathKnown, Mine
  <2>1. DOMAIN to_pold = {} /\ connman # 0 /\ "pold" \notin starting
    BY DEF Quiet, Both
  <2>2. Sound(session_path, 0)
    BY DEF Settled, Paths, Held
  <2>3. session_path # NULL => session_path = connman /\ Mine
    BY <2>1, <2>2 DEF Sound, HasBehind
  <2>4. ASSUME faults \cap {"twice", "timeout"} = {}, Mine PROVE session_path = connman
    <3>1. Owns(caller.number)
      BY <2>4 DEF Owns
    <3> QED BY <2>4, <3>1 DEF Settled, Found, Undisturbed, Single, Done, Joined
  <2> QED BY <2>3, <2>4
<1> QED BY <1>1, AlwaysSettled, PTL
-----------------------------------------------------------------------------
(* The policies ConnMan has, or will have when it has read its messages. One *)
(* from this process of pold is of a watched application; only updates from  *)
(* this process are behind place i of the queue, and one for it is there     *)
(* unless it is the newest or that is not one the plugin accepts.            *)
Renews(m, o) == m.type = "Update" /\ m.owner = o /\ m.value.process = pold /\ pold # 0
UpdateBehind(o, i) == \E k \in DOMAIN to_connman : k > i /\ Renews(to_connman[k], o)
OursBehind(i) ==
  \A k \in DOMAIN to_connman : k > i /\ to_connman[k].type = "Update" => to_connman[k].value.process = pold
UpToDate(c, o) == document[o] = "valid" => c = PolicyFrom(pold, policies, "valid")
Fresh(c, o, i) ==
  o \in App /\ c # NULL =>
    /\ c.process <= started.pold
    /\ pold # 0 /\ c.process = pold =>
         <<connman, o>> \in apps /\ OursBehind(i) /\ (UpToDate(c, o) \/ UpdateBehind(o, i))
Written == \A o \in Owner : session_hash[o] # NULL => Fresh(session_hash[o].config, o, 0)
Carried ==
  \A i \in DOMAIN to_connman :
    to_connman[i].type \in {"Policy", "Update"} => Fresh(to_connman[i].value, to_connman[i].owner, i)

(* An update finds the agent registered, and so finds its interface.         *)
Heeded ==
  \A i \in DOMAIN to_connman :
    to_connman[i].type = "Update" /\ to_connman[i].value.process = pold /\ pold # 0 => connman \in agents
Current == Written /\ Carried /\ Heeded
NoneMissed == faults \cap {"orphaned", "unregistered"} = {}
Policies == NoneMissed => Current

(* What keeps policies current, besides the messages.                        *)
Watching ==
  /\ UNCHANGED <<pold, connman, policies, document>> /\ started'.pold = started.pold
  /\ \A o : <<connman, o>> \in apps => <<connman, o>> \in apps'
  /\ connman \in agents => connman \in agents'

(* New messages have no policy, or the newest, or pold's own.                *)
Newest(s) ==
  \A k \in DOMAIN s :
    /\ s[k].type # "Update"
    /\ s[k].type = "Policy" =>
         \/ s[k].value = NULL
         \/ s[k].owner \notin App
         \/ /\ s[k].value = PolicyFrom(pold, policies, document[s[k].owner]) /\ pold <= started.pold
            /\ <<connman, s[k].owner>> \in apps'

(* No update from another process comes behind.                              *)
LEMMA OursFollow ==
  ASSUME NEW d, NEW s, Moved(to_connman, to_connman', d, s), pold' = pold, Newest(s), NEW i \in Nat, OursBehind(i)
  PROVE  /\ i >= d => OursBehind(i - d)'
         /\ i = 0 => OursBehind(0)'
<1>1. PICK q, p : q = to_connman /\ p = to_connman'
  OBVIOUS
<1>2. Moved(q, p, d, s) /\ d \in {0, 1}
  BY <1>1, Indices
<1>3. ASSUME NEW k \in DOMAIN p, p[k].type = "Update", NEW j \in Nat, k > j, j + d >= i
      PROVE  p[k].value.process = pold
  <2>1. \/ k + d \in DOMAIN q /\ p[k] = q[k + d]
        \/ k + d - Len(q) \in DOMAIN s /\ p[k] = s[k + d - Len(q)]
    BY ONLY <1>2, k \in DOMAIN p, Places
  <2>2. k + d \in DOMAIN q /\ p[k] = q[k + d]
    BY <1>3, <2>1 DEF Newest
  <2>3. k \in Nat
    BY <1>2, Indices
  <2>4. k + d > i
    BY <1>2, <1>3, <2>3
  <2> QED BY <1>1, <1>3, <2>2, <2>4 DEF OursBehind
<1>4. ASSUME NEW j \in Nat, j + d >= i PROVE OursBehind(j)'
  BY <1>1, <1>3, <1>4 DEF OursBehind
<1>5. i >= d => i - d \in Nat /\ i - d + d >= i
  BY <1>2
<1>6. 0 + d >= 0
  BY <1>2
<1> QED BY <1>4, <1>5, <1>6

(* An update behind place i stays behind it.                                 *)
LEMMA UpdatesFollow ==
  ASSUME NEW d, NEW s, Moved(to_connman, to_connman', d, s), pold' = pold, NEW o, NEW i \in Nat,
         UpdateBehind(o, i), i >= d \/ (d = 1 => ~Renews(to_connman[1], o))
  PROVE  UpdateBehind(o, i - d)' /\ UpdateBehind(o, 0)'
<1>1. PICK q, p : q = to_connman /\ p = to_connman'
  OBVIOUS
<1>2. PICK k \in DOMAIN q : k > i /\ Renews(q[k], o)
  BY <1>1 DEF UpdateBehind
<1>3. k \in Nat /\ k >= 1 /\ d \in {0, 1}
  BY <1>1, Indices
<1>4. k > d
  BY <1>1, <1>2, <1>3
<1>5. k - d \in DOMAIN p /\ p[k - d] = q[k]
  BY <1>1, <1>4, Places
<1>6. k - d > i - d /\ k - d > 0
  BY <1>2, <1>3, <1>4
<1> QED BY <1>1, <1>2, <1>5, <1>6 DEF UpdateBehind, Renews

(* A policy stays fresh, unless its own update is the message handled.       *)
LEMMA FreshFollows ==
  ASSUME NEW d, NEW s, Moved(to_connman, to_connman', d, s), Watching, Newest(s), NEW c, NEW o, NEW i \in Nat,
         Fresh(c, o, i)
  PROVE  /\ i >= d => Fresh(c, o, i - d)'
         /\ i = 0 /\ (d = 1 => ~Renews(to_connman[1], o)) => Fresh(c, o, 0)'
<1>1. /\ pold' = pold /\ connman' = connman /\ started'.pold = started.pold
      /\ (<<connman, o>> \in apps => <<connman, o>> \in apps')
      /\ UpToDate(c, o) => UpToDate(c, o)'
  BY DEF Watching, UpToDate, PolicyFrom
<1>2. UpdateBehind(o, i) /\ i >= d => UpdateBehind(o, i - d)'
  BY <1>1, UpdatesFollow
<1>3. UpdateBehind(o, i) /\ (d = 1 => ~Renews(to_connman[1], o)) => UpdateBehind(o, 0)'
  BY <1>1, UpdatesFollow
<1>4. OursBehind(i) => (i >= d => OursBehind(i - d)') /\ (i = 0 => OursBehind(0)')
  BY <1>1, OursFollow
<1> QED BY <1>1, <1>2, <1>3, <1>4 DEF Fresh

(* What the messages carry stays fresh.                                      *)
LEMMA CarriedFollow ==
  ASSUME Current, NEW d, NEW s, Moved(to_connman, to_connman', d, s), Watching, Newest(s)
  PROVE  Carried' /\ Heeded'
<1>1. PICK q, p : q = to_connman /\ p = to_connman'
  OBVIOUS
<1>2. pold' = pold /\ connman' = connman /\ policies' = policies /\ started'.pold = started.pold
  BY DEF Watching
<1>2a. document' = document
  BY DEF Watching
<1>3. ASSUME NEW i \in DOMAIN p
      PROVE  \/ i + d \in DOMAIN q /\ p[i] = q[i + d]
             \/ i + d - Len(q) \in DOMAIN s /\ p[i] = s[i + d - Len(q)]
  <2>1. Moved(q, p, d, s) /\ i \in DOMAIN p
    BY <1>1, <1>3
  <2> QED BY ONLY <2>1, Places
<1>4. ASSUME NEW i \in DOMAIN p, p[i].type \in {"Policy", "Update"} PROVE Fresh(p[i].value, p[i].owner, i)'
  <2>1. PICK c, o, j : c = p[i].value /\ o = p[i].owner /\ j = i + d
    OBVIOUS
  <2>2. CASE i + d \in DOMAIN q /\ p[i] = q[i + d]
    <3>1. i \in Nat /\ d \in {0, 1} /\ i >= 1
      BY <1>1, Indices
    <3>2. j \in Nat /\ j >= d /\ j - d = i
      BY <2>1, <3>1
    <3>3. Fresh(c, o, j)
      BY <1>1, <1>4, <2>1, <2>2 DEF Current, Carried
    <3>4. Fresh(c, o, j - d)'
      BY ONLY <3>2, <3>3, FreshFollows, Moved(to_connman, to_connman', d, s), Watching, Newest(s)
    <3>5. Fresh(c, o, i)'
      BY <3>2, <3>4
    <3> QED BY <2>1, <3>5
  <2>3. CASE i + d - Len(q) \in DOMAIN s /\ p[i] = s[i + d - Len(q)]
    <3>1. PICK k : k = i + d - Len(q)
      OBVIOUS
    <3>2. k \in DOMAIN s /\ p[i] = s[k] /\ s[k].type = "Policy"
      BY <1>4, <2>3, <3>1 DEF Newest
    <3>3. ASSUME NEW l \in DOMAIN p, l > i PROVE p[l].type # "Update"
      <4>1. \/ l + d \in DOMAIN q /\ p[l] = q[l + d]
            \/ l + d - Len(q) \in DOMAIN s /\ p[l] = s[l + d - Len(q)]
        BY <1>3
      <4>2. i \in Nat /\ l \in Nat /\ d \in {0, 1} /\ Len(q) \in Nat /\ k \in Nat /\ k >= 1
            /\ \A x \in DOMAIN q : x \in Nat /\ x <= Len(q)
        BY <1>1, <3>2, Indices
      <4>3. l + d > Len(q)
        BY <3>1, <3>3, <4>2
      <4>4. l + d - Len(q) \in DOMAIN s /\ p[l] = s[l + d - Len(q)]
        BY <4>1, <4>2, <4>3
      <4> QED BY <4>4 DEF Newest
    <3>4. OursBehind(i)'
      BY <1>1, <3>3 DEF OursBehind
    <3>5. c = s[k].value /\ o = s[k].owner
      BY <2>1, <3>2
    <3>6. CASE o \notin App \/ c = NULL
      <4>1. Fresh(c, o, i)'
        BY <3>6 DEF Fresh
      <4> QED BY <2>1, <4>1
    <3>7. CASE o \in App /\ c # NULL
      <4>1. c = PolicyFrom(pold, policies, document[o]) /\ pold <= started.pold /\ <<connman, o>> \in apps'
        BY <3>2, <3>5, <3>7 DEF Newest
      <4>2. c.process = pold
        BY <4>1 DEF PolicyFrom
      <4>3. UpToDate(c, o)'
        BY <1>2, <1>2a, <4>1 DEF UpToDate, PolicyFrom
      <4>4. Fresh(c, o, i)'
        BY <1>2, <3>4, <4>1, <4>2, <4>3 DEF Fresh
      <4> QED BY <2>1, <4>4
    <3> QED BY <3>6, <3>7
  <2> QED BY <1>3, <2>2, <2>3
<1>5. ASSUME NEW i \in DOMAIN p, p[i].type = "Update", p[i].value.process = pold, pold # 0
      PROVE  connman \in agents'
  <2>1. i + d \in DOMAIN q /\ p[i] = q[i + d]
    BY <1>3, <1>5 DEF Newest
  <2> QED BY <1>1, <1>5, <2>1 DEF Current, Heeded, Watching
<1>6. Carried'
  BY <1>1, <1>4 DEF Carried
<1>7. Heeded'
  BY <1>1, <1>2, <1>5 DEF Heeded
<1> QED BY <1>6, <1>7

(* The policies of sessions, where none is new.                              *)
LEMMA WrittenFollow ==
  ASSUME Current, NEW d, NEW s, Moved(to_connman, to_connman', d, s), Watching, Newest(s), NEW X,
         \A o \in X : d = 1 => ~Renews(to_connman[1], o),
         \A o \in X : session_hash'[o] # NULL =>
           \/ session_hash'[o].config = NULL
           \/ session_hash[o] # NULL /\ session_hash'[o].config = session_hash[o].config
  PROVE  \A o \in X \cap Owner : session_hash'[o] # NULL => Fresh(session_hash[o].config, o, 0)'
<1> SUFFICES ASSUME NEW o \in X \cap Owner, session_hash'[o] # NULL PROVE Fresh(session_hash[o].config, o, 0)'
  OBVIOUS
<1>1. CASE session_hash'[o].config = NULL
  BY <1>1 DEF Fresh
<1>2. CASE session_hash[o] # NULL /\ session_hash'[o].config = session_hash[o].config
  <2>1. PICK c : c = session_hash[o].config
    OBVIOUS
  <2>2. Fresh(c, o, 0)
    BY <1>2, <2>1 DEF Current, Written
  <2>3. d = 1 => ~Renews(to_connman[1], o)
    OBVIOUS
  <2>4. Fresh(c, o, 0)'
    BY <2>2, <2>3, FreshFollows
  <2>5. c = session_hash'[o].config
    BY <1>2, <2>1
  <2> QED BY <2>4, <2>5
<1> QED BY <1>1, <1>2

(* A step that handles no update and brings no session a policy.             *)
LEMMA CurrentFollows ==
  ASSUME Current, NEW d, NEW s, Moved(to_connman, to_connman', d, s), Watching, Newest(s),
         Spares(to_connman, d, {"Update"}),
         \A o \in Owner : session_hash'[o] # NULL =>
           \/ session_hash'[o].config = NULL
           \/ session_hash[o] # NULL /\ session_hash'[o].config = session_hash[o].config
  PROVE  Current'
<1>1. \A o \in Owner : d = 1 => ~Renews(to_connman[1], o)
  BY DEF Spares, Renews
<1>2. PICK X : X = Owner
  OBVIOUS
<1>3. \A o \in X \cap Owner : session_hash'[o] # NULL => Fresh(session_hash[o].config, o, 0)'
  BY <1>1, <1>2, WrittenFollow
<1>4. Written'
  BY <1>2, <1>3 DEF Written
<1> QED BY <1>4, CarriedFollow DEF Current
-----------------------------------------------------------------------------
(* Refusals and other messages carry no policy.                              *)
LEMMA NewestAll ==
  /\ \A s : Refusals(s) => Newest(s)
  /\ Newest(<<>>)
  /\ \A m : m.type \notin {"Policy", "Update"} => Newest(<<m>>)
<1>1. \A m \in PolicyMessage : m.type = "Policy"
  BY DEF PolicyMessage
<1>2. \A s : Refusals(s) => Newest(s)
  BY <1>1 DEF Refusals, Newest
<1> QED BY <1>2 DEF Newest

(* A step of ConnMan changes nothing at pold.                                *)
LEMMA WatchingOurs == ASSUME Ours, UNCHANGED <<pold, connman>> PROVE Watching
BY DEF Ours, manager, Watching

(* A step of ConnMan that brings no session a policy.                        *)
LEMMA CurrentAtConnman ==
  ASSUME Current, Ours, UNCHANGED <<pold, connman>>, NEW d, NEW s, NEW t, Step(d, s, 0, t), Newest(s),
         d = 1 => to_connman[1].type # "Update",
         \A o \in Owner : session_hash'[o] # NULL =>
           \/ session_hash'[o].config = NULL
           \/ session_hash[o] # NULL /\ session_hash'[o].config = session_hash[o].config
  PROVE  Current'
<1>1. Watching /\ Moved(to_connman, to_connman', d, s) /\ Spares(to_connman, d, {"Update"})
  BY WatchingOurs DEF Step, Spares
<1> QED BY <1>1, CurrentFollows

(* A new session has no policy yet.                                          *)
LEMMA NewHasNone ==
  ASSUME Typed, NEW o \in Owner, NewSession(o)
  PROVE  \A x \in Owner : session_hash'[x] # NULL =>
           \/ session_hash'[x].config = NULL
           \/ session_hash[x] # NULL /\ session_hash'[x].config = session_hash[x].config
<1>1. PICK n \in Nat \ {0} :
        session_hash' = [session_hash EXCEPT ![o] =
          policy_config(~agent_registered, IF agent_registered THEN n ELSE 0)]
  BY DEF NewSession
<1>2. PICK r : r = policy_config(~agent_registered, IF agent_registered THEN n ELSE 0)
  OBVIOUS
<1>3. r.config = NULL
  BY <1>2 DEF policy_config
<1>4. session_hash' = [session_hash EXCEPT ![o] = r] /\ session_hash \in [Owner -> PolicyConfig \cup {NULL}]
  BY <1>1, <1>2 DEF Typed, SessionTypes
<1> QED BY <1>3, <1>4

(* An answer is what the session then has.                                   *)
LEMMA AnswerCurrent ==
  ASSUME Typed, Current, get_policy_cb, Ours
  PROVE  Current'
<1>1. PICK t : /\ Step(1, <<>>, 0, t)
               /\ \/ Finished(to_connman[1].owner, Accepted(to_connman[1].value), t)
                  \/ Silenced(to_connman[1].owner)
                  \/ UNCHANGED sessions
  BY PolicyAnswered
<1>2. to_connman[1] \in PolicyMessage /\ to_connman # <<>> /\ UNCHANGED <<pold, connman>> /\ Newest(<<>>)
  BY PolicyAnswered, NewestAll
<1>3. to_connman[1].type = "Policy"
  BY <1>2 DEF PolicyMessage
<1>4. CASE UNCHANGED sessions
  BY <1>1, <1>2, <1>3, <1>4, CurrentAtConnman DEF sessions
<1>5a. CASE Silenced(to_connman[1].owner)
  <2>1. \A x \in Owner : session_hash'[x] # NULL =>
           session_hash[x] # NULL /\ session_hash'[x].config = session_hash[x].config
    BY <1>5a DEF Silenced, SameElsewhere
  <2> QED BY <1>1, <1>2, <1>3, <2>1, CurrentAtConnman
<1>5. ASSUME Finished(to_connman[1].owner, Accepted(to_connman[1].value), t) PROVE Current'
  <2>1. PICK o, c, v, i : o = to_connman[1].owner /\ c = Accepted(v) /\ v = to_connman[1].value /\ i = 1
    OBVIOUS
  <2>2. Finished(o, c, t) /\ o \in Owner
    BY <1>5, <2>1 DEF Finished
  <2>3. Watching /\ Moved(to_connman, to_connman', 1, <<>>)
    BY <1>1, <1>2, WatchingOurs DEF Step
  <2>4. 1 \in DOMAIN to_connman
    BY <2>3 DEF Moved
  <2>5. Fresh(c, o, i)
    <3>1. Fresh(v, o, i)
      BY <1>3, <2>1, <2>4 DEF Current, Carried
    <3>2. c = v \/ c = NULL
      BY <2>1 DEF Accepted
    <3> QED BY <3>1, <3>2 DEF Fresh
  <2>6. Fresh(c, o, 0)'
    <3>1. i \in Nat /\ i >= 1 /\ i - 1 = 0
      BY <2>1
    <3>2. Fresh(c, o, i - 1)'
      BY ONLY <1>2, <2>3, <2>5, <3>1, FreshFollows
    <3> QED BY <3>1, <3>2
  <2>7. session_hash'[o] # NULL => session_hash'[o].config = c
    <3>1. PICK r : r = policy_config(FALSE, 0)
      OBVIOUS
    <3>2. r = [cbd |-> FALSE, pending |-> 0, config |-> NULL]
      BY <3>1 DEF policy_config
    <3>3. session_hash'[o] # NULL => session_hash'[o] = [r EXCEPT !.config = c]
      BY <2>2, <3>1 DEF Finished
    <3> QED BY <3>2, <3>3
  <2>8. PICK X : X = Owner \ {o}
    OBVIOUS
  <2>9. \A x \in X : 1 = 1 => ~Renews(to_connman[1], x)
    BY <1>3 DEF Renews
  <2>10. \A x \in X : session_hash'[x] # NULL =>
           \/ session_hash'[x].config = NULL
           \/ session_hash[x] # NULL /\ session_hash'[x].config = session_hash[x].config
    BY <2>2, <2>8 DEF Finished, SameElsewhere
  <2>11. \A x \in X \cap Owner : session_hash'[x] # NULL => Fresh(session_hash[x].config, x, 0)'
    BY <1>2, <2>3, <2>9, <2>10, WrittenFollow
  <2>12. Written'
    <3>1. session_hash'[o] # NULL => Fresh(session_hash[o].config, o, 0)'
      BY <2>6, <2>7
    <3> QED BY <2>8, <2>11, <3>1 DEF Written
  <2> QED BY <1>2, <2>3, <2>12, CarriedFollow DEF Current
<1> QED BY <1>1, <1>4, <1>5, <1>5a

(* What an update leaves is fresh once it is handled.                        *)
LEMMA LeftFresh ==
  ASSUME NEW o, NEW v, v # NULL, NEW old \in Config \cup {NULL}, NEW c, Leaves(old, v, c),
         1 \in DOMAIN to_connman, to_connman[1].type = "Update", to_connman[1].owner = o, to_connman[1].value = v,
         Watching, Moved(to_connman, to_connman', 1, <<>>), Newest(<<>>), Fresh(v, o, 1), Fresh(old, o, 0)
  PROVE  Fresh(c, o, 0)'
<1>1. PICK i : i = 1
  OBVIOUS
<1>2. i \in Nat /\ i >= 1 /\ i - 1 = 0
  BY <1>1
<1>3. Fresh(v, o, i)
  BY <1>1
<1>4. Fresh(v, o, i - 1)'
  BY ONLY <1>2, <1>3, FreshFollows, Watching, Moved(to_connman, to_connman', 1, <<>>), Newest(<<>>)
<1>5. CASE c = v
  <2>1. Fresh(v, o, 0)'
    BY <1>2, <1>4
  <2> QED BY <1>5, <2>1
<1>6. CASE c = NULL \/ o \notin App
  BY <1>6 DEF Fresh
<1>7. CASE c # v /\ c # NULL /\ o \in App
  <2>1. old # NULL /\ c.process = old.process /\ v.document # "valid"
    BY <1>7 DEF Leaves, Config
  <2>2. pold' = pold /\ connman' = connman /\ started'.pold = started.pold /\ policies' = policies
        /\ document' = document /\ (<<connman, o>> \in apps => <<connman, o>> \in apps')
    BY DEF Watching
  <2>3. CASE pold # 0 /\ c.process = pold
    <3>1. OursBehind(0) /\ <<connman, o>> \in apps /\ old.process <= started.pold
      BY <1>7, <2>1, <2>3 DEF Fresh
    <3>2. v.process = pold
      BY <3>1 DEF OursBehind
    <3>3. UpToDate(v, o) \/ UpdateBehind(o, 1)
      BY <1>7, <2>3, <3>2 DEF Fresh
    <3>4. OursBehind(0)'
      BY <2>2, <3>1, OursFollow
    <3>5. UpToDate(v, o) => UpToDate(c, o)'
      BY <2>1, <2>2 DEF UpToDate, PolicyFrom
    <3>6. UpdateBehind(o, 1) => UpdateBehind(o, 0)'
      BY <2>2, UpdatesFollow
    <3> QED BY <2>1, <2>2, <3>1, <3>3, <3>4, <3>5, <3>6 DEF Fresh
  <2>4. CASE ~(pold # 0 /\ c.process = pold)
    BY <1>7, <2>1, <2>2, <2>4 DEF Fresh
  <2> QED BY <2>3, <2>4
<1> QED BY <1>5, <1>6, <1>7

(* An update reaches its session, as the agent has its interface. One that   *)
(* is refused is not the newest of an accepted kind.                         *)
LEMMA UpdateCurrent ==
  ASSUME Typed, Registration, NoneMissed, Current, agent_update, Ours
  PROVE  Current'
<1>1. PICK o, v : o = to_connman[1].owner /\ v = to_connman[1].value
  OBVIOUS
<1>2. /\ to_connman[1] \in UpdateMessage /\ to_connman # <<>> /\ Step(1, <<>>, 0, <<>>)
      /\ UNCHANGED <<pold, connman>>
      /\ IF interface /\ session_hash[o] # NULL
         THEN \E config : /\ Leaves(session_hash[o].config, v, config)
                          /\ session_hash' = [session_hash EXCEPT ![o].config = config]
         ELSE session_hash' = session_hash
  BY <1>1, PolicyReplaced
<1>3. o \in Owner /\ to_connman[1].type = "Update" /\ v # NULL
  BY <1>1, <1>2, NullApart DEF UpdateMessage, Owner
<1>4. Watching /\ Moved(to_connman, to_connman', 1, <<>>) /\ Newest(<<>>)
  BY <1>2, WatchingOurs, NewestAll DEF Step
<1>5. 1 \in DOMAIN to_connman /\ connman # 0
  BY <1>2, <1>4 DEF Moved, Typed, ConnmanOff
<1>6. Fresh(v, o, 1)
  BY <1>1, <1>3, <1>5 DEF Current, Carried
<1>7. ASSUME ~interface PROVE \A x : ~Renews(to_connman[1], x)
  <2>1. "unregistered" \notin faults
    BY DEF NoneMissed
  <2>2. Orderly
    BY <1>5, <2>1 DEF Registration, NoTimer
  <2>3. connman \notin agents
    BY <1>7, <2>2 DEF Orderly, Out, In, Asking, Stuck, Admitted
  <2> QED BY <1>3, <1>5, <2>3 DEF Current, Heeded, Renews
<1>8. session_hash \in [Owner -> PolicyConfig \cup {NULL}]
  BY DEF Typed, SessionTypes
<1>9. CASE interface /\ session_hash[o] # NULL
  <2>1. PICK r : r = session_hash[o]
    OBVIOUS
  <2>2. r \in PolicyConfig
    BY <1>3, <1>8, <1>9, <2>1
  <2>3. PICK c : Leaves(r.config, v, c) /\ session_hash' = [session_hash EXCEPT ![o].config = c]
    BY <1>2, <1>9, <2>1
  <2>4. session_hash'[o].config = c
    BY <1>3, <1>8, <2>1, <2>2, <2>3 DEF PolicyConfig
  <2>5. PICK X : X = Owner \ {o}
    OBVIOUS
  <2>6. \A x \in X : session_hash'[x] = session_hash[x]
    BY <1>8, <2>3, <2>5
  <2>7. \A x \in X : 1 = 1 => ~Renews(to_connman[1], x)
    BY <1>1, <2>5 DEF Renews
  <2>8. \A x \in X \cap Owner : session_hash'[x] # NULL => Fresh(session_hash[x].config, x, 0)'
    BY <1>4, <2>6, <2>7, WrittenFollow
  <2>9. Fresh(r.config, o, 0)
    BY <1>3, <1>9, <2>1 DEF Current, Written
  <2>10. Fresh(c, o, 0)'
    <3>1. r.config \in Config \cup {NULL}
      BY <2>2 DEF PolicyConfig
    <3> QED BY <1>1, <1>3, <1>4, <1>5, <1>6, <2>3, <2>9, <3>1, LeftFresh
  <2>11. session_hash'[o] # NULL => Fresh(session_hash[o].config, o, 0)'
    BY <2>4, <2>10
  <2>12. Written'
    BY <2>5, <2>8, <2>11 DEF Written
  <2> QED BY <1>4, <2>12, CarriedFollow DEF Current
<1>10. CASE ~interface
  <2>1. \A x \in Owner : 1 = 1 => ~Renews(to_connman[1], x)
    BY <1>7, <1>10
  <2>2. session_hash' = session_hash
    BY <1>2, <1>10
  <2>3. \A x \in Owner \cap Owner : session_hash'[x] # NULL => Fresh(session_hash[x].config, x, 0)'
    BY <1>4, <2>1, <2>2, WrittenFollow
  <2>4. Written'
    BY <2>3 DEF Written
  <2> QED BY <1>4, <2>4, CarriedFollow DEF Current
<1>11. CASE session_hash[o] = NULL
  <2>1. PICK X : X = Owner \ {o}
    OBVIOUS
  <2>2. session_hash' = session_hash
    BY <1>2, <1>11
  <2>3. \A x \in X : 1 = 1 => ~Renews(to_connman[1], x)
    BY <1>1, <2>1 DEF Renews
  <2>4. \A x \in X \cap Owner : session_hash'[x] # NULL => Fresh(session_hash[x].config, x, 0)'
    BY <1>4, <2>2, <2>3, WrittenFollow
  <2>5. Written'
    BY <1>11, <2>1, <2>2, <2>4 DEF Written
  <2> QED BY <1>4, <2>5, CarriedFollow DEF Current
<1> QED BY <1>9, <1>10, <1>11
-----------------------------------------------------------------------------
(* The steps of ConnMan. A registration that timed out leaves no interface   *)
(* to update.                                                                *)
LEMMA PoliciesAtConnman ==
  ASSUME Typed, Registration, Policies, Connman \/ \E o \in App : policy_pold_create(o), Ours
  PROVE  Policies'
<1> SUFFICES ASSUME NoneMissed' PROVE Current'
  BY DEF Policies
<1> USE NewestAll
<1>0. Self \in Owner /\ App \subseteq Owner
  BY DEF Owner
<1>1. ASSUME faults \subseteq faults' PROVE NoneMissed /\ Current
  BY <1>1 DEF Policies, NoneMissed
<1>2. ASSUME NEW o \in Owner, SameElsewhere(o), session_hash'[o] = NULL
      PROVE  \A x \in Owner : session_hash'[x] # NULL =>
               \/ session_hash'[x].config = NULL
               \/ session_hash[x] # NULL /\ session_hash'[x].config = session_hash[x].config
  BY <1>2 DEF SameElsewhere
<1>3. ASSUME NEW o \in App, policy_pold_create(o) PROVE Current'
  <2>1. PICK s, t : Step(0, s, 0, t) /\ Refusals(s)
    BY <1>3, SessionMade
  <2>2. NewSession(o) /\ UNCHANGED <<pold, connman, faults>>
    BY <1>3, SessionMade DEF policy_pold_create
  <2> QED BY <1>0, <1>1, <2>1, <2>2, CurrentAtConnman, NewHasNone
<1>4. CASE CreateSession
  <2>1. PICK s, t : Step(1, s, 0, t) /\ ((NewSession(Self) /\ Refusals(s)) \/ (UNCHANGED sessions /\ s = <<>>))
    BY <1>4, SessionForPold
  <2>2. UNCHANGED <<pold, connman, faults>> /\ to_connman[1].type # "Update" /\ Newest(s)
    BY <1>4, <2>1, SessionForPold DEF CreateMessage
  <2>3. Current
    BY <1>1, <2>2
  <2>4. CASE NewSession(Self)
    BY <1>0, <2>1, <2>2, <2>3, <2>4, CurrentAtConnman, NewHasNone
  <2>5. CASE UNCHANGED sessions
    BY <2>1, <2>2, <2>3, <2>5, CurrentAtConnman DEF sessions
  <2> QED BY <2>1, <2>4, <2>5
<1>5. CASE OwnerLeft
  BY <1>0, <1>1, <1>2, <1>5, OwnerGone, CurrentAtConnman
<1>6. CASE get_policy_cb
  BY <1>1, <1>6, AnswerCurrent, PolicyAnswered
<1>7. ASSUME NEW o \in Owner, PolicyTimeout(o) PROVE Current'
  <2>1. PICK t : Step(0, <<>>, 0, t) /\ Finished(o, NULL, t)
    BY <1>7, PolicyLate
  <2>2. UNCHANGED <<pold, connman>> /\ faults \subseteq faults'
    BY <1>7, PolicyLate
  <2>3. SameElsewhere(o) /\ session_hash'[o] = NULL
    BY <2>1 DEF Finished
  <2> QED BY <1>1, <1>2, <2>1, <2>2, <2>3, CurrentAtConnman
<1>8. CASE ReleaseSession
  BY <1>0, <1>1, <1>2, <1>8, SessionReleased, CurrentAtConnman
<1>9. ASSUME NEW o \in Owner, policy_pold_destroy(o) PROVE Current'
  BY <1>1, <1>2, <1>9, SessionGone, CurrentAtConnman
<1>10. CASE pold_appeared
  <2>1. PICK s, t : /\ Step(1, s, 0, t)
                    /\ Registers(s, t) \/ (s = <<>> /\ t = <<>>)
    BY <1>10, PoldSeen
  <2>2. to_connman[1].type = "appeared" /\ UNCHANGED <<pold, connman, sessions, faults>>
    BY <1>10, PoldSeen
  <2>3. Newest(s)
    BY <2>1 DEF Registers, Message
  <2> QED BY <1>1, <2>1, <2>2, <2>3, CurrentAtConnman DEF sessions
<1>11. CASE pold_disappeared
  <2>1. /\ to_connman[1].type = "disappeared" /\ UNCHANGED <<pold, connman, sessions>>
        /\ Step(1, <<>>, 0, <<>>) /\ faults \subseteq faults'
    BY <1>11, PoldGone
  <2> QED BY <1>1, <2>1, CurrentAtConnman DEF sessions
<1>12. CASE agent_register_cb
  <2>1. PICK s, t : /\ Step(1, s, 0, t)
                    /\ AnswerIgnored(s, t) \/ AnswerRefused(s, t) \/ AnswerTaken(s, t)
    BY <1>12, RegistrationAnswered
  <2>2. to_connman[1].type = "Registered" /\ UNCHANGED <<pold, connman, faults>>
    BY <1>12, RegistrationAnswered DEF Registered
  <2>3. Newest(s)
    BY <2>1 DEF AnswerIgnored, AnswerRefused, AnswerTaken
  <2>4. \A o \in Owner : session_hash'[o] # NULL =>
           \/ session_hash'[o].config = NULL
           \/ session_hash[o] # NULL /\ session_hash'[o].config = session_hash[o].config
    <3>1. \A n : policy_config(FALSE, n).config = NULL
      BY DEF policy_config
    <3>2. CASE AnswerTaken(s, t)
      BY <3>1, <3>2 DEF AnswerTaken
    <3> QED BY <2>1, <3>2 DEF AnswerIgnored, AnswerRefused, sessions
  <2> QED BY <1>1, <2>1, <2>2, <2>3, <2>4, CurrentAtConnman
<1>13. CASE agent_update
  BY <1>1, <1>13, PolicyReplaced, UpdateCurrent
<1>14. CASE RegisterTimeout
  BY <1>14, RegistrationLate DEF NoneMissed
<1> QED BY <1>3, <1>4, <1>5, <1>6, <1>7, <1>8, <1>9, <1>10, <1>11, <1>12, <1>13, <1>14 DEF Connman, PluginHandles

(* A step of pold's that brings no policy.                                   *)
LEMMA CurrentAtPold ==
  ASSUME Current, Theirs, UNCHANGED <<policies, document>>, NEW s, NEW e, NEW t, Step(0, s, e, t), Newest(s),
         \A o : <<connman, o>> \in apps => <<connman, o>> \in apps',
         connman \in agents => connman \in agents'
  PROVE  Current'
<1>1. Watching /\ Moved(to_connman, to_connman', 0, s) /\ session_hash' = session_hash
  BY DEF Theirs, lives, sessions, Watching, Step
<1>2. Spares(to_connman, 0, {"Update"})
  BY DEF Spares
<1> QED BY <1>1, <1>2, CurrentFollows

(* All agents are told of the new version.                                   *)
LEMMA ToldCurrent ==
  ASSUME Typed, Current, update_policies_cb, "orphaned" \notin faults'
  PROVE  Current'
<1>1. /\ Theirs /\ pold # 0 /\ policies' = policies + 1 /\ UNCHANGED <<agents, apps>>
  BY AgentsTold
<1>2. PICK S, s : Step(0, s, 0, <<>>) /\ Tells(S, s)
  BY AgentsTold
<1>3. S = apps
  BY <1>2 DEF Tells
<1>4. pold' = pold /\ connman' = connman /\ session_hash' = session_hash /\ started' = started
  BY <1>1 DEF Theirs, lives, sessions
<1>5. PICK q, p : q = to_connman /\ p = to_connman'
  OBVIOUS
<1>6. Moved(q, p, 0, s) /\ Len(q) \in Nat /\ \A i \in DOMAIN q : i \in Nat /\ i <= Len(q)
  BY <1>2, <1>5, Indices DEF Step
<1>7. pold <= started.pold
  BY Counted
<1>8. \A o : Update(o).type = "Update" /\ Update(o).owner = o /\ Update(o).value.process = pold
             /\ Update(o).value = PolicyFrom(pold, policies', document'[o])
  BY DEF Update, Message, PolicyFrom
<1>9. ASSUME connman # 0, NEW o \in App, <<connman, o>> \in apps, NEW j \in Nat, j <= Len(q)
      PROVE  UpdateBehind(o, j)'
  <2>1. PICK k \in DOMAIN s : s[k] = Update(o)
    BY <1>2, <1>3, <1>9 DEF Tells
  <2>2. k \in Nat /\ k >= 1
    BY <1>6, Indices
  <2>3. Len(q) - 0 + k \in DOMAIN p /\ p[Len(q) - 0 + k] = s[k]
    BY ONLY <1>6, k \in DOMAIN s, Places
  <2>4. Len(q) - 0 + k > j
    BY <1>6, <1>9, <2>2
  <2> QED BY <1>1, <1>4, <1>5, <1>8, <2>1, <2>3, <2>4 DEF UpdateBehind, Renews
<1>10. ASSUME NEW i \in DOMAIN p
       PROVE  \/ i \in DOMAIN q /\ p[i] = q[i]
              \/ i > Len(q) /\ \E o \in App : <<connman, o>> \in apps /\ p[i] = Update(o)
  <2>1. \/ i + 0 \in DOMAIN q /\ p[i] = q[i + 0]
        \/ i + 0 - Len(q) \in DOMAIN s /\ p[i] = s[i + 0 - Len(q)]
    BY ONLY <1>6, i \in DOMAIN p, Places
  <2>2. i \in Nat /\ i + 0 = i
    BY <1>6, Indices
  <2>3. ASSUME NEW k \in DOMAIN s PROVE k \in Nat /\ k >= 1 /\ \E o \in App : <<connman, o>> \in apps /\ s[k] = Update(o)
    BY <1>2, <1>3, <1>6, Indices DEF Tells
  <2>4. CASE i + 0 - Len(q) \in DOMAIN s /\ p[i] = s[i + 0 - Len(q)]
    <3>1. PICK k : k = i + 0 - Len(q)
      OBVIOUS
    <3>2. k \in DOMAIN s /\ p[i] = s[k] /\ k >= 1
      BY <2>3, <2>4, <3>1
    <3>3. i > Len(q)
      BY <1>6, <2>2, <3>1, <3>2
    <3> QED BY <2>3, <3>2, <3>3
  <2> QED BY <2>1, <2>2, <2>4
<1>10a. ASSUME NEW j \in Nat, OursBehind(j) PROVE OursBehind(j)'
  <2>1. ASSUME NEW k \in DOMAIN p, k > j, p[k].type = "Update" PROVE p[k].value.process = pold
    <3>1. CASE k \in DOMAIN q /\ p[k] = q[k]
      BY <1>5, <1>10a, <2>1, <3>1 DEF OursBehind
    <3>2. CASE \E o \in App : p[k] = Update(o)
      BY <1>8, <3>2
    <3> QED BY <1>10, <2>1, <3>1, <3>2
  <2> QED BY <1>4, <1>5, <2>1 DEF OursBehind
<1>10b. ASSUME connman # 0, NEW c, NEW o, NEW j \in Nat, j <= Len(q), Fresh(c, o, j)
       PROVE  Fresh(c, o, j)'
  <2>1. o \in App /\ <<connman, o>> \in apps => UpdateBehind(o, j)'
    BY <1>9, <1>10b
  <2>2. OursBehind(j) => OursBehind(j)'
    BY <1>10a
  <2> QED BY <1>1, <1>4, <1>10b, <2>1, <2>2 DEF Fresh
<1>11. CASE connman # 0
  <2>1. Written'
    <3>1. ASSUME NEW o \in Owner, session_hash[o] # NULL PROVE Fresh(session_hash[o].config, o, 0)'
      <4>1. PICK c : c = session_hash[o].config
        OBVIOUS
      <4>2. Fresh(c, o, 0)
        BY <3>1, <4>1 DEF Current, Written
      <4>3. Fresh(c, o, 0)'
        BY <1>6, <1>10b, <1>11, <4>2
      <4>4. c = session_hash'[o].config
        BY <1>4, <4>1
      <4> QED BY <4>3, <4>4
    <3> QED BY <1>4, <3>1 DEF Written
  <2>3. ASSUME NEW i \in DOMAIN p, p[i].type \in {"Policy", "Update"} PROVE Fresh(p[i].value, p[i].owner, i)'
    <3>1. CASE i \in DOMAIN q /\ p[i] = q[i]
      <4>1. PICK c, o : c = p[i].value /\ o = p[i].owner
        OBVIOUS
      <4>2. Fresh(c, o, i) /\ i \in Nat /\ i <= Len(q)
        BY <1>5, <1>6, <2>3, <3>1, <4>1 DEF Current, Carried
      <4>3. Fresh(c, o, i)'
        BY <1>10b, <1>11, <4>2
      <4> QED BY <4>1, <4>3
    <3>2. ASSUME i > Len(q), NEW o \in App, <<connman, o>> \in apps, p[i] = Update(o)
          PROVE  Fresh(p[i].value, p[i].owner, i)'
      <4>1. PICK c : c = Update(o).value
        OBVIOUS
      <4>2. c.process = pold /\ UpToDate(c, o)'
        BY <1>1, <1>4, <1>8, <4>1 DEF UpToDate, PolicyFrom
      <4>3. ASSUME NEW k \in DOMAIN p, k > i, p[k].type = "Update" PROVE p[k].value.process = pold
        <5>1. k \notin DOMAIN q
          <6>1. i \in Nat /\ k \in Nat
            BY <1>6, Indices
          <6> QED BY <1>6, <3>2, <4>3, <6>1
        <5>2. PICK x \in App : p[k] = Update(x)
          BY <1>10, <4>3, <5>1
        <5> QED BY <1>8, <5>2
      <4>4. OursBehind(i)'
        BY <1>4, <1>5, <4>3 DEF OursBehind
      <4>5. Fresh(c, o, i)'
        BY <1>1, <1>4, <1>7, <3>2, <4>2, <4>4 DEF Fresh
      <4> QED BY <1>8, <3>2, <4>1, <4>5
    <3> QED BY <1>10, <3>1, <3>2
  <2>4. ASSUME NEW i \in DOMAIN p, p[i].type = "Update", p[i].value.process = pold PROVE connman \in agents
    <3>1. CASE i \in DOMAIN q /\ p[i] = q[i]
      BY <1>1, <1>5, <2>4, <3>1 DEF Current, Heeded
    <3>2. CASE \E o \in App : <<connman, o>> \in apps /\ p[i] = Update(o)
      BY <1>2, <1>3, <3>2 DEF Tells
    <3> QED BY <1>10, <3>1, <3>2
  <2>5. Carried'
    BY <1>5, <2>3 DEF Carried
  <2>6. Heeded'
    BY <1>1, <1>4, <1>5, <2>4 DEF Heeded
  <2> QED BY <2>1, <2>5, <2>6 DEF Current
<1>12. CASE connman = 0
  <2>1. q = <<>> /\ s = <<>> /\ \A o \in Owner : session_hash[o] = NULL
    BY <1>2, <1>5, <1>12 DEF Typed, ConnmanOff, Tells
  <2>2. DOMAIN p = {}
    BY <1>6, <2>1 DEF Moved
  <2> QED BY <1>4, <1>5, <2>1, <2>2 DEF Current, Written, Carried, Heeded
<1> QED BY <1>11, <1>12
-----------------------------------------------------------------------------
(* The steps of pold. Nobody whose agent is registered is unwatched: pold    *)
(* forgets the agents that left, and ConnMan's is not one of them.           *)
LEMMA PoliciesAtPold ==
  ASSUME Typed, Known, Policies, PoldHandles \/ CreateTimeout \/ update_policies_cb \/ \E m \in asked : user_cb(m)
  PROVE  Policies'
<1> SUFFICES ASSUME NoneMissed' PROVE Current'
  BY DEF Policies
<1> USE NewestAll
<1>1. ASSUME faults \subseteq faults' PROVE Current
  BY <1>1 DEF Policies, NoneMissed
<1>2. CASE connman_appeared
  <2>1. PICK s, t : /\ Step(0, s, 1, t)
                    /\ IF connman = 0
                       THEN s = <<>> /\ t = <<Message("Session", Self, calls + 1, NULL)>>
                       ELSE s = <<Message("CreateSession", Self, calls + 1, pold)>> /\ t = <<>>
    BY <1>2, ConnmanSeen
  <2>2. Theirs /\ UNCHANGED manager /\ faults \subseteq faults'
    BY <1>2, ConnmanSeen
  <2>3. Newest(s)
    BY <2>1 DEF Message
  <2> QED BY <1>1, <2>1, <2>2, <2>3, CurrentAtPold DEF manager
<1>3. CASE connman_disappeared
  BY <1>1, <1>3, ConnmanGone, CurrentAtPold DEF manager
<1>4. CASE create_session_cb
  BY <1>1, <1>4, PathAnswered, CurrentAtPold DEF manager
<1>5. CASE release
  BY <1>1, <1>5, PathReleased, CurrentAtPold DEF manager
<1>6. CASE CreateTimeout
  BY <1>1, <1>6, PathLate, CurrentAtPold DEF manager
<1>7. CASE pold_manager_register_agent
  <2>1. PICK s : /\ Step(0, s, 1, <<>>)
                 /\ s = IF connman = to_pold[1].value
                        THEN <<Message("Registered", NULL, 0, pold)>> ELSE <<>>
    BY <1>7, AgentRegistered
  <2>2. Newest(s)
    BY <2>1 DEF Message
  <2>3. Theirs /\ UNCHANGED <<policies, document, apps, faults>> /\ agents \subseteq agents'
    BY <1>7, AgentRegistered
  <2> QED BY <1>1, <2>1, <2>2, <2>3, CurrentAtPold
<1>8. CASE pold_manager_unregister_agent \/ owner_disconnect
  <2>1. /\ Theirs /\ to_pold[1] \in Agents({"UnregisterAgent", "AgentLeft"})
        /\ Forget(to_pold[1].value) \/ UNCHANGED <<agents, apps>>
        /\ UNCHANGED <<policies, document, faults>> /\ Step(0, <<>>, 1, <<>>)
    BY <1>8, AgentForgotten
  <2>2. to_pold[1].value # connman
    BY <2>1 DEF Step, Moved, Known, Left, Agents
  <2>3. (connman \in agents => connman \in agents')
        /\ \A o : <<connman, o>> \in apps => <<connman, o>> \in apps'
    BY <2>1, <2>2 DEF Forget
  <2> QED BY <1>1, <2>1, <2>3, CurrentAtPold
<1>9. CASE pold_manager_get_policy_config
  <2>1. PICK s : /\ Step(0, s, 1, <<>>)
                 /\ \/ s = <<>>
                    \/ \E x \in PolicyMessage : x.owner = Self /\ s = IF connman = to_pold[1].value THEN <<x>> ELSE <<>>
    BY <1>9, PolicyAsked
  <2>2. Newest(s)
    <3>1. ASSUME NEW x \in PolicyMessage, x.owner = Self PROVE Newest(<<x>>)
      BY <3>1, PluginAssumption DEF Newest, PolicyMessage
    <3> QED BY <2>1, <3>1
  <2> QED BY <1>1, <1>9, <2>1, <2>2, PolicyAsked, CurrentAtPold
<1>10. CASE update_policies_cb
  <2>1. PICK S, s : Tells(S, s)
    BY <1>10, AgentsTold
  <2>2. "orphaned" \notin faults' /\ faults \subseteq faults'
    BY <2>1 DEF NoneMissed, Tells
  <2> QED BY <1>1, <1>10, <2>2, ToldCurrent
<1>11. ASSUME NEW m \in asked, user_cb(m) PROVE Current'
  <2>1. PICK s, x : /\ Step(0, s, 0, <<>>) /\ x \in PolicyMessage /\ x.owner = m.owner
                    /\ s = IF connman = m.value THEN <<x>> ELSE <<>>
                    /\ \/ /\ apps' = apps \cup {<<m.value, m.owner>>}
                          /\ x.value = PolicyFrom(pold, policies, document[m.owner])
                       \/ apps' = apps /\ x.value = NULL
    BY <1>11, PolicySent
  <2>2. Theirs /\ UNCHANGED <<agents, policies, document, faults>> /\ pold <= started.pold /\ apps \subseteq apps'
    BY <1>11, <2>1, PolicySent, Counted
  <2>3. Newest(s)
    BY <2>1, <2>2 DEF Newest, PolicyMessage
  <2> QED BY <1>1, <2>1, <2>2, <2>3, CurrentAtPold
<1> QED BY <1>2, <1>3, <1>4, <1>5, <1>6, <1>7, <1>8, <1>9, <1>10, <1>11 DEF PoldHandles

(* Another process of pold, or none: no policy is from it.                   *)
LEMMA CurrentAnew ==
  ASSUME Typed, Current, pold' = 0 \/ pold' = started.pold + 1, started.pold <= started'.pold, started.pold \in Nat,
         started'.pold \in Nat, session_hash' = session_hash, NEW s, Moved(to_connman, to_connman', 0, s),
         \A k \in DOMAIN s : s[k].type # "Update" /\ (s[k].type = "Policy" => s[k].value = NULL)
  PROVE  Current'
<1>1. PICK q, p : q = to_connman /\ p = to_connman'
  OBVIOUS
<1>2. ASSUME NEW c, NEW o, NEW i, c # NULL => c \in Config, Fresh(c, o, i), NEW j PROVE Fresh(c, o, j)'
  <2>1. c # NULL => c.process \in Nat
    BY <1>2 DEF Config
  <2> QED BY <1>2, <2>1 DEF Fresh
<1>3. ASSUME NEW i \in DOMAIN p, p[i].type \in {"Policy", "Update"}, p[i].value # NULL
      PROVE  i \in DOMAIN q /\ p[i] = q[i] /\ q[i].value \in Config
  <2>1. \/ i + 0 \in DOMAIN q /\ p[i] = q[i + 0]
        \/ i + 0 - Len(q) \in DOMAIN s /\ p[i] = s[i + 0 - Len(q)]
    <3>1. Moved(q, p, 0, s) /\ i \in DOMAIN p
      BY <1>1, <1>3
    <3> QED BY ONLY <3>1, Places
  <2>2. i \in Nat /\ i + 0 = i
    BY <1>1, Indices
  <2>3. i \in DOMAIN q /\ p[i] = q[i]
    BY <1>3, <2>1, <2>2
  <2>4. q[i] \in ForConnman
    BY <1>1, <2>3, Queues
  <2> QED BY <1>3, <2>3, <2>4 DEF ForConnman, Plain, Registered, CreateMessage, PolicyMessage, UpdateMessage
<1>4. ASSUME NEW i \in DOMAIN p, p[i].type \in {"Policy", "Update"} PROVE Fresh(p[i].value, p[i].owner, i)'
  <2>1. CASE p[i].value = NULL
    BY <1>1, <2>1 DEF Fresh
  <2>2. CASE p[i].value # NULL
    <3>1. PICK c, o : c = p[i].value /\ o = p[i].owner
      OBVIOUS
    <3>2. Fresh(c, o, i) /\ c \in Config
      BY <1>1, <1>3, <1>4, <2>2, <3>1 DEF Current, Carried
    <3>3. Fresh(c, o, i)'
      BY <1>2, <3>2
    <3> QED BY <1>1, <3>1, <3>3 DEF Fresh
  <2> QED BY <2>1, <2>2
<1>5. ASSUME NEW i \in DOMAIN p, p[i].type = "Update", p[i].value.process = pold', pold' # 0 PROVE FALSE
  <2>1. p[i].value # NULL
    <3>1. i + 0 \in DOMAIN q /\ p[i] = q[i + 0]
      <4>1. PICK T : T = {"Update"}
        OBVIOUS
      <4>2. Moved(q, p, 0, s) /\ Without(s, T) /\ i \in DOMAIN p /\ p[i].type \in T
        BY <1>1, <1>5, <4>1 DEF Without
      <4> QED BY ONLY <4>2, FromBefore
    <3>2. p[i] \in ForConnman
      BY <1>1, <3>1, Queues
    <3>3. p[i].value \in Config
      BY <1>5, <3>2 DEF ForConnman, Plain, Registered, CreateMessage, PolicyMessage, UpdateMessage
    <3> QED BY <3>3, NullApart
  <2>2. Fresh(q[i].value, q[i].owner, i) /\ p[i] = q[i] /\ q[i].value \in Config
    BY <1>1, <1>3, <1>5, <2>1 DEF Current, Carried
  <2>3. q[i].owner \in App
    <3>1. q[i] \in ForConnman
      BY <1>1, <1>3, <1>5, <2>1, Queues
    <3> QED BY <1>5, <2>2, <3>1 DEF ForConnman, Plain, Registered, CreateMessage, PolicyMessage, UpdateMessage
  <2> QED BY <1>5, <2>1, <2>2, <2>3, NullApart DEF Fresh, Config
<1>6. Written'
  <2>1. ASSUME NEW o \in Owner, session_hash[o] # NULL PROVE Fresh(session_hash[o].config, o, 0)'
    <3>1. PICK c : c = session_hash[o].config
      OBVIOUS
    <3>2. Fresh(c, o, 0) /\ (c # NULL => c \in Config)
      BY <2>1, <3>1 DEF Current, Written, Typed, SessionTypes, PolicyConfig
    <3>3. Fresh(c, o, 0)'
      BY <1>2, <3>2
    <3> QED BY <3>1, <3>3 DEF Fresh
  <2> QED BY <2>1 DEF Written
<1>7. Carried'
  BY <1>1, <1>4 DEF Carried, Fresh
<1>8. Heeded'
  BY <1>1, <1>5 DEF Heeded
<1> QED BY <1>6, <1>7, <1>8 DEF Current

(* Policies is inductive.                                                    *)
LEMMA PoliciesKept == Typed /\ Registration /\ Known /\ Policies /\ [Next]_vars => Policies'
<1> SUFFICES ASSUME Typed, Registration, Known, Policies, [Next]_vars PROVE Policies'
  OBVIOUS
<1> USE NewestAll
<1>1. CASE (Connman \/ \E o \in App : policy_pold_create(o)) /\ Ours
  BY <1>1, PoliciesAtConnman
<1>2. CASE PoldHandles \/ CreateTimeout \/ update_policies_cb \/ \E m \in asked : user_cb(m)
  BY <1>2, PoliciesAtPold
<1>3. ASSUME NEW x \in starting, GetNameOwner(x) PROVE Policies'
  <2>1. PICK s, t : /\ Step(0, s, 0, t)
                    /\ s = IF x = "connman" /\ pold # 0 THEN <<Plain0("appeared")>> ELSE <<>>
    BY <1>3, OwnerFound
  <2>2. UNCHANGED <<pold, connman, started, sessions, manager, faults>>
    BY <1>3, OwnerFound
  <2>3. Watching /\ Moved(to_connman, to_connman', 0, s) /\ session_hash' = session_hash
    BY <2>1, <2>2 DEF Watching, manager, sessions, Step
  <2>4. Newest(s) /\ Spares(to_connman, 0, {"Update"})
    BY <2>1 DEF Plain0, Message, Spares
  <2>5. Current => Current'
    BY <2>3, <2>4, CurrentFollows
  <2> QED BY <2>2, <2>5 DEF Policies, NoneMissed
<1>4. CASE PoldStarts
  <2>1. PICK s : /\ Step(0, s, 0, <<>>)
                 /\ s = IF connman = 0 THEN <<>> ELSE <<Plain0("appeared")>>
    BY <1>4, PoldRuns
  <2>2. /\ pold' = started.pold + 1 /\ started'.pold = pold' /\ started.pold \in Nat
        /\ session_hash' = session_hash /\ faults' = faults
    BY <1>4, PoldRuns DEF sessions
  <2>3. /\ Moved(to_connman, to_connman', 0, s)
        /\ \A k \in DOMAIN s : s[k].type # "Update" /\ (s[k].type = "Policy" => s[k].value = NULL)
    BY <2>1 DEF Step, Plain0, Message
  <2>4. Current => Current'
    BY <2>2, <2>3, CurrentAnew
  <2> QED BY <2>2, <2>4 DEF Policies, NoneMissed
<1>5. CASE PoldStops
  <2>1. /\ pold' = 0 /\ started' = started /\ session_hash' = session_hash /\ faults' = faults /\ connman' = connman
        /\ started.pold \in Nat
    BY <1>5, PoldLeaves, Counted DEF sessions
  <2>2. CASE connman # 0
    <3>1. PICK s : s \in Seq(ForConnman) /\ Moved(to_connman, to_connman', 0, s) /\ Farewell(s)
      BY <1>5, <2>2, PoldLeaves
    <3>2. ASSUME NEW k \in DOMAIN s PROVE s[k].type # "Update" /\ (s[k].type = "Policy" => s[k].value = NULL)
      <4>1. k = 1 \/ k = 2 \/ k > 2
        BY <3>1, Indices
      <4> QED BY <3>1, <4>1 DEF Farewell, Plain0, Message, PolicyMessage
    <3>3. Current => Current'
      BY <2>1, <3>1, <3>2, CurrentAnew
    <3> QED BY <2>1, <3>3 DEF Policies, NoneMissed
  <2>3. CASE connman = 0
    <3>1. to_connman' = <<>> /\ \A o \in Owner : session_hash'[o] = NULL
      BY <1>5, <2>1, <2>3, PoldLeaves DEF Typed, ConnmanOff
    <3> QED BY <3>1 DEF Policies, Current, Written, Carried, Heeded
  <2> QED BY <2>2, <2>3
<1>6. CASE ConnmanStarts \/ ConnmanStops
  <2>1. to_connman' = <<>> /\ \A o \in Owner : session_hash'[o] = NULL
    BY <1>6, ConnmanRuns, ConnmanLeaves DEF Typed, ConnmanOff, sessions, PluginReset
  <2> QED BY <2>1 DEF Policies, Current, Written, Carried, Heeded
<1>7. CASE UNCHANGED vars
  BY <1>7 DEF vars, lives, sessions, manager, Policies, NoneMissed, Current, Written, Carried, Heeded, Fresh,
              OursBehind, UpToDate, UpdateBehind, Renews
<1> QED BY <1>1, <1>2, <1>3, <1>4, <1>5, <1>6, <1>7 DEF Next, Ours

(* And so always, as pold and the agent agree on its registration.           *)
LEMMA AlwaysCurrent == Spec => []Policies
<1>1. Init => Policies
  BY DEF Init, PluginInit, Policies, Current, Written, Carried, Heeded
<1>2. Agreed /\ Policies /\ [Next]_vars => Policies'
  BY PoliciesKept DEF Agreed
<1> QED BY <1>1, <1>2, AlwaysAgreed, PTL DEF Spec

(* Whatever starts and stops, once all is quiet the sessions whose policy is *)
(* from this process of pold have the newest, if the plugin accepts it.      *)
THEOREM NewestReach == Spec => []PoliciesCurrent
<1>1. Attended /\ Policies => PoliciesCurrent
  <2> SUFFICES ASSUME Attended, Policies, Quiet, NoneMissed,
                      NEW o \in App, session[o] = "created", session_hash[o].config.process = pold,
                      document[o] = "valid"
               PROVE  session_hash[o].config = PolicyFrom(pold, policies, "valid")
    BY DEF PoliciesCurrent, NoneMissed
  <2>0. o \in Owner
    BY DEF Owner
  <2>1. session_hash[o] # NULL
    BY <2>0 DEF Attended, Agreed, Typed, SessionTypes
  <2>2. session_hash[o].config # NULL
    BY <2>0, <2>1 DEF Attended, Waiting, WaitsSoundly
  <2>3. DOMAIN to_connman = {} /\ pold # 0
    BY DEF Quiet, Both
  <2>4. Fresh(session_hash[o].config, o, 0)
    BY <2>0, <2>1 DEF Policies, Current, Written
  <2> QED BY <2>2, <2>3, <2>4 DEF Fresh, UpToDate, UpdateBehind
<1> QED BY <1>1, AlwaysAttended, AlwaysCurrent, PTL
=============================================================================
