-------------------------- MODULE GdbusCalls_proofs --------------------------
(* No privileged method is run for a call that was not authorized: whatever  *)
(* the number of calls, in whatever order calls, answers, timeouts and the   *)
(* program's own decisions arrive.                                           *)
EXTENDS GdbusCalls, SequenceTheorems, TLAPS

(* An answer belongs to a call that was asked about, and says "yes" only of  *)
(* one that was authorized.                                                  *)
Earned ==
  {m \in Answer : /\ m.pending \in DOMAIN question
                  /\ m.authorized = "yes" => question[m.pending] \in authorized}

(* An entry of the list is the one of the call its id was given to.          *)
Due == {s \in Security : s.pending \in DOMAIN question /\ question[s.pending] = s.call}

(* The kind of a call that has run or waits is known, and so is for good.    *)
Invariant ==
  /\ socket \in Seq(Call \cup Earned) /\ inbox \in Seq(Call \cup Earned)
  /\ dispatching => inbox # <<>>
  /\ question \in Seq(Call) /\ next_pending = Len(question) + 1
  /\ pending_security \subseteq Due /\ asked \subseteq DOMAIN question
  /\ sent \in [Call -> Kind \cup {NULL}]
  /\ ran \subseteq Call /\ authorized \subseteq Call
  /\ \A c \in ran : sent[c] \in Kind
  /\ \A id \in DOMAIN question : sent[question[id]] \in Privileged
  /\ OnlyAuthorized
-----------------------------------------------------------------------------
(* A sequence over a set is one over any larger set.                         *)
LEMMA WiderSeq ==
  ASSUME NEW S, NEW T, S \subseteq T, NEW s \in Seq(S)
  PROVE  s \in Seq(T)
BY SMT

(* What was earned or due stays so: ids are given once, and authorizations   *)
(* are not taken back.                                                       *)
Remembers ==
  /\ question' \in Seq(Call) /\ Len(question) <= Len(question')
  /\ \A id \in DOMAIN question : question'[id] = question[id]
  /\ authorized \subseteq authorized'

LEMMA StaysEarned ==
  ASSUME Invariant, Remembers
  PROVE  /\ Earned \subseteq Earned' /\ Due \subseteq Due'
         /\ DOMAIN question \subseteq DOMAIN question'
         /\ socket \in Seq(Call \cup Earned') /\ inbox \in Seq(Call \cup Earned')
<1>1. DOMAIN question \subseteq DOMAIN question'
  BY DEF Invariant, Remembers
<1>2. Earned \subseteq Earned' /\ Due \subseteq Due'
  BY <1>1 DEF Remembers, Earned, Due, Answer, Security
<1> QED BY <1>1, <1>2, WiderSeq DEF Invariant

(* The function of a call that waited is run for that call alone.            *)
LEMMA RunsIt ==
  ASSUME Invariant, NEW s \in pending_security, Run(s), s.call \in authorized',
         authorized \subseteq authorized', authorized' \subseteq Call, sent' = sent
  PROVE  /\ pending_security' \subseteq pending_security
         /\ ran' \subseteq Call
         /\ \A c \in ran' : sent'[c] \in Kind
         /\ OnlyAuthorized'
<1>1. ran' = ran \cup {s.call} /\ pending_security' = pending_security \ {s}
  BY DEF Run, Returns
<1>2. s \in Due
  BY DEF Invariant
<1>3. s.call \in Call /\ sent[s.call] \in Kind
  BY <1>2 DEF Invariant, Due, Security, Privileged, Kind
<1>4. OnlyAuthorized'
  BY <1>1 DEF Invariant, OnlyAuthorized
<1> QED BY <1>1, <1>3, <1>4 DEF Invariant

LEMMA FindsIt ==
  ASSUME Invariant, NEW id, NEW s \in Found(id)
  PROVE  /\ s \in pending_security /\ id \in DOMAIN question /\ s.call = question[id]
BY DEF Invariant, Found, Due
-----------------------------------------------------------------------------
(* Steps that neither give out an id nor run a function. *)

LEMMA Untouched ==
  ASSUME Invariant,
         UNCHANGED <<question, next_pending, asked, sent, ran, authorized>>,
         pending_security' \subseteq Due,
         socket' \in Seq(Call \cup Earned), inbox' \in Seq(Call \cup Earned),
         dispatching' => inbox' # <<>>
  PROVE  Invariant'
<1>1. Earned' = Earned /\ Due' = Due
  BY DEF Earned, Due
<1> QED BY <1>1 DEF Invariant, OnlyAuthorized

LEMMA TakesOne ==
  ASSUME Invariant, dispatching, Take
  PROVE  /\ inbox' \in Seq(Call \cup Earned) /\ socket' \in Seq(Call \cup Earned)
         /\ dispatching' => inbox' # <<>>
<1>1. inbox' = Tail(inbox) /\ socket' = socket
  BY DEF Take
<1>2. inbox \in Seq(Call \cup Earned) /\ socket \in Seq(Call \cup Earned) /\ inbox # <<>>
  BY DEF Invariant
<1>3. inbox' \in Seq(Call \cup Earned) /\ socket' \in Seq(Call \cup Earned)
  BY <1>1, <1>2, HeadTailProperties
<1>4. dispatching' => inbox' # <<>>
  BY <1>1, Zenon DEF Take
<1> QED BY <1>3, <1>4

LEMMA ReadsAll ==
  ASSUME Invariant, Reads
  PROVE  /\ inbox' \in Seq(Call \cup Earned) /\ socket' \in Seq(Call \cup Earned)
         /\ inbox # <<>> => inbox' # <<>>
<1>1. socket' = <<>> /\ inbox' = inbox \o socket
  BY DEF Reads
<1>2. inbox \in Seq(Call \cup Earned) /\ socket \in Seq(Call \cup Earned)
  BY DEF Invariant
<1>3. inbox' \in Seq(Call \cup Earned) /\ Len(inbox') = Len(inbox) + Len(socket)
  BY <1>1, <1>2, ConcatProperties
<1>4. inbox # <<>> => inbox' # <<>>
  BY <1>2, <1>3, EmptySeq
<1> QED BY <1>1, <1>3, <1>4

LEMMA MainLoop ==
  ASSUME Invariant, setup_bus \/ watch_func \/ Block \/ message_dispatch
  PROVE  Invariant'
<1>1. UNCHANGED <<question, next_pending, asked, sent, ran, authorized, pending_security>>
  BY DEF setup_bus, watch_func, Block, message_dispatch, waiting, history
<1>2. pending_security' \subseteq Due
  BY <1>1 DEF Invariant
<1>3. CASE setup_bus \/ watch_func \/ Block
  <2>1. Reads /\ dispatching' = dispatching
    BY <1>3 DEF setup_bus, watch_func, Block
  <2>2. dispatching' => inbox' # <<>>
    BY <2>1, ReadsAll DEF Invariant
  <2> QED BY <1>1, <1>2, <2>1, <2>2, ReadsAll, Untouched
<1>4. CASE message_dispatch
  <2>1. inbox' = inbox /\ socket' = socket /\ (dispatching' => inbox' # <<>>)
    BY <1>4, Zenon DEF message_dispatch
  <2>2. socket' \in Seq(Call \cup Earned) /\ inbox' \in Seq(Call \cup Earned)
    BY <2>1 DEF Invariant
  <2> QED BY <1>1, <1>2, <2>1, <2>2, Untouched
<1> QED BY <1>3, <1>4

LEMMA Program ==
  ASSUME Invariant,
         \/ RegisterInterface \/ UnregisterInterface
         \/ \E id \in PropertyId : g_dbus_pending_property_success(id)
         \/ \E c \in Call : ReplyLater(c)
  PROVE  Invariant'
<1>1. UNCHANGED <<question, next_pending, asked, sent, ran, authorized>>
  BY DEF RegisterInterface, UnregisterInterface, g_dbus_pending_property_success, ReplyLater,
         waiting, history
<1>2. UNCHANGED <<socket, inbox, dispatching>>
  BY DEF RegisterInterface, UnregisterInterface, g_dbus_pending_property_success, ReplyLater,
         loop
<1>3. pending_security \subseteq Due
  BY DEF Invariant
<1>4. pending_security' \subseteq Due
  <2>1. CASE RegisterInterface
    BY <1>3, <2>1 DEF RegisterInterface, waiting
  <2>2. CASE UnregisterInterface
    <3>1. pending_security' = {[s EXCEPT !.live = FALSE] : s \in pending_security}
      BY <2>2 DEF UnregisterInterface
    <3> QED BY <1>3, <3>1 DEF Due, Security
  <2>3. ASSUME NEW id \in PropertyId, g_dbus_pending_property_success(id)
        PROVE  pending_security' \subseteq Due
    BY <1>3, <2>3 DEF g_dbus_pending_property_success, waiting
  <2>4. ASSUME NEW c \in Call, ReplyLater(c) PROVE pending_security' \subseteq Due
    BY <1>3, <2>4 DEF ReplyLater, waiting
  <2> QED BY <2>1, <2>2, <2>3, <2>4
<1>5. /\ socket' \in Seq(Call \cup Earned) /\ inbox' \in Seq(Call \cup Earned)
      /\ dispatching' => inbox' # <<>>
  BY <1>2 DEF Invariant
<1> QED BY <1>1, <1>4, <1>5, Untouched

(* libdbus gives up a question.                                              *)
LEMMA Timeout ==
  ASSUME Invariant, NEW id \in DOMAIN question, timeout_handler_dispatch(id)
  PROVE  Invariant'
<1> DEFINE m == [pending |-> id, authorized |-> "timeout"]
<1>1. /\ UNCHANGED <<question, next_pending, asked, sent, ran, authorized, pending_security>>
      /\ socket' = socket /\ inbox' = Append(inbox, m) /\ ~dispatching /\ dispatching' = dispatching
  BY DEF timeout_handler_dispatch, waiting, history
<1>2. m \in Earned
  BY DEF Earned, Answer, Invariant
<1>3. inbox' \in Seq(Call \cup Earned)
  BY <1>1, <1>2, AppendProperties DEF Invariant
<1> QED BY <1>1, <1>3, Untouched DEF Invariant

(* PolicyKit authorizes the call whose id it was asked about.                *)
LEMMA Verdict ==
  ASSUME Invariant, NEW id \in asked, NEW verdict \in {"yes", "no"}, PolicyKit(id, verdict)
  PROVE  Invariant'
<1> DEFINE m == [pending |-> id, authorized |-> verdict]
<1>1. /\ UNCHANGED <<question, next_pending, asked, sent, ran, pending_security>>
      /\ UNCHANGED <<inbox, dispatching>> /\ socket' = Append(socket, m)
      /\ authorized' = IF verdict = "yes" THEN authorized \cup {question[id]} ELSE authorized
  BY DEF PolicyKit, waiting
<1>2. id \in DOMAIN question /\ question[id] \in Call
  BY DEF Invariant
<1>3. authorized \subseteq authorized' /\ authorized' \subseteq Call /\ Remembers
  BY <1>1, <1>2 DEF Invariant, Remembers
<1>4. m \in Earned'
  BY <1>1, <1>2 DEF Earned, Answer, Invariant
<1>5. socket' \in Seq(Call \cup Earned') /\ inbox' \in Seq(Call \cup Earned')
  BY <1>1, <1>3, <1>4, StaysEarned, AppendProperties
<1>6. pending_security' \subseteq Due'
  BY <1>1, <1>3, StaysEarned DEF Invariant
<1>7. OnlyAuthorized'
  BY <1>1, <1>3 DEF Invariant, OnlyAuthorized
<1> QED BY <1>1, <1>3, <1>5, <1>6, <1>7 DEF Invariant

(* A new call gets its kind once.                                            *)
LEMMA Sent ==
  ASSUME Invariant, NEW c \in Call, NEW kind \in Kind, SendCall(c, kind)
  PROVE  Invariant'
<1>1. /\ UNCHANGED <<question, next_pending, asked, ran, authorized, pending_security>>
      /\ UNCHANGED <<inbox, dispatching>> /\ socket' = Append(socket, c)
      /\ sent[c] = NULL /\ sent' = [sent EXCEPT ![c] = kind]
  BY DEF SendCall, waiting, history
<1>2. Earned' = Earned /\ Due' = Due
  BY <1>1 DEF Earned, Due
<1>3. socket' \in Seq(Call \cup Earned')
  BY <1>1, <1>2, AppendProperties DEF Invariant
<1>4. NULL \notin Kind /\ Privileged \subseteq Kind
  BY CallAssumption DEF Privileged, Kind
<1>5. \A d \in Call : sent[d] \in Kind => sent'[d] = sent[d]
  BY <1>1, <1>4 DEF Invariant
<1>6. sent' \in [Call -> Kind \cup {NULL}]
  BY <1>1 DEF Invariant
<1>7. \A d \in ran' : sent'[d] \in Kind
  BY <1>1, <1>5 DEF Invariant
<1>8. \A i \in DOMAIN question' : sent'[question'[i]] \in Privileged
  <2> TAKE i \in DOMAIN question'
  <2>1. question[i] \in Call /\ sent[question[i]] \in Privileged
    BY <1>1 DEF Invariant
  <2> QED BY <1>1, <1>4, <1>5, <2>1
<1>9. OnlyAuthorized'
  BY <1>1, <1>5 DEF Invariant, OnlyAuthorized
<1> QED BY <1>1, <1>2, <1>3, <1>6, <1>7, <1>8, <1>9 DEF Invariant
-----------------------------------------------------------------------------
(* Steps that give out an id or run a function. *)

(* A call without privileges may run at once.                                *)
LEMMA RunsAtOnce ==
  ASSUME Invariant, NEW c \in Call, sent[c] \in Kind \ Privileged,
         ran' = ran \cup {c},
         UNCHANGED <<question, next_pending, asked, sent, authorized, pending_security>>,
         socket' \in Seq(Call \cup Earned), inbox' \in Seq(Call \cup Earned),
         dispatching' => inbox' # <<>>
  PROVE  Invariant'
<1>1. Earned' = Earned /\ Due' = Due
  BY DEF Earned, Due
<1>2. OnlyAuthorized'
  BY DEF Invariant, OnlyAuthorized
<1> QED BY <1>1, <1>2 DEF Invariant

(* An id is given to the call whose privilege is checked, and to no other.   *)
LEMMA Checks ==
  ASSUME Invariant, NEW c \in Call, sent[c] \in Privileged, sent' = sent, dispatching,
         check_privilege(c)
  PROVE  Invariant'
<1>1. /\ UNCHANGED <<ran, authorized>> /\ Take
      /\ next_pending' = next_pending + 1 /\ question' = Append(question, c)
      /\ pending_security' \subseteq pending_security \cup
                             {[pending |-> next_pending, call |-> c, live |-> TRUE]}
      /\ asked' \subseteq asked \cup {next_pending}
  BY DEF check_privilege
<1>2. Remembers /\ Len(question') = Len(question) + 1 /\ question'[Len(question) + 1] = c
  BY <1>1, AppendProperties DEF Remembers, Invariant
<1>3. next_pending \in DOMAIN question' /\ question'[next_pending] = c /\ next_pending \in Nat
  BY <1>1, <1>2 DEF Invariant, Remembers
<1>4. asked' \subseteq DOMAIN question' /\ next_pending' = Len(question') + 1
  BY <1>1, <1>2, <1>3, StaysEarned DEF Invariant
<1>5. pending_security' \subseteq Due'
  <2>1. [pending |-> next_pending, call |-> c, live |-> TRUE] \in Due'
    BY <1>3 DEF Due, Security
  <2> QED BY <1>1, <1>2, <2>1, StaysEarned DEF Invariant
<1>6. inbox' \in Seq(Call \cup Earned) /\ socket' \in Seq(Call \cup Earned)
      /\ (dispatching' => inbox' # <<>>)
  BY <1>1, TakesOne
<1>7. Call \cup Earned \subseteq Call \cup Earned'
  BY <1>2, StaysEarned
<1>8. inbox' \in Seq(Call \cup Earned') /\ socket' \in Seq(Call \cup Earned')
  BY <1>6, <1>7, WiderSeq
<1>9. \A i \in DOMAIN question' : sent'[question'[i]] \in Privileged
  <2> TAKE i \in DOMAIN question'
  <2>1. CASE i \in DOMAIN question
    BY <2>1, <1>2 DEF Invariant, Remembers
  <2>2. CASE i \notin DOMAIN question
    <3>1. i = next_pending
      BY <2>2, <1>2 DEF Invariant, Remembers
    <3> QED BY <3>1, <1>3
  <2> QED BY <2>1, <2>2
<1>10. OnlyAuthorized'
  BY <1>1 DEF Invariant, OnlyAuthorized
<1>11. question' \in Seq(Call)
  BY <1>2 DEF Remembers
<1> QED BY <1>1, <1>4, <1>5, <1>6, <1>8, <1>9, <1>10, <1>11 DEF Invariant

LEMMA Generic ==
  ASSUME Invariant, generic_message
  PROVE  Invariant'
<1> DEFINE c == Head(inbox)
<1>1. dispatching /\ c \in Call /\ sent' = sent
  BY DEF generic_message
<1>2. CASE Rejected(c)
  <2>1. Take /\ UNCHANGED <<question, next_pending, asked, ran, authorized, pending_security>>
    BY <1>2 DEF Rejected, waiting
  <2> QED BY <1>1, <2>1, TakesOne, Untouched DEF Invariant
<1>3. CASE sent[c] \in Privileged /\ check_privilege(c)
  BY <1>1, <1>3, Checks
<1>4. CASE sent[c] = "set" /\ properties_set(c)
  <2>1. /\ Take /\ ran' = ran \cup {c}
        /\ UNCHANGED <<question, next_pending, asked, authorized, pending_security>>
    BY <1>4 DEF properties_set
  <2>2. sent[c] \in Kind \ Privileged
    BY <1>4 DEF Kind, Privileged
  <2> QED BY <1>1, <2>1, <2>2, TakesOne, RunsAtOnce
<1>5. CASE sent[c] \in {"sync", "async", "noreply"} /\ process_message(c)
  <2>1. /\ Take \/ UNCHANGED <<socket, inbox, dispatching>>
        /\ ran' = ran \cup {c}
        /\ UNCHANGED <<question, next_pending, asked, authorized, pending_security>>
    BY <1>5 DEF process_message, Returns, loop, waiting
  <2>2. sent[c] \in Kind \ Privileged
    BY <1>5 DEF Kind, Privileged
  <2>3. /\ inbox' \in Seq(Call \cup Earned) /\ socket' \in Seq(Call \cup Earned)
        /\ dispatching' => inbox' # <<>>
    BY <1>1, <2>1, TakesOne DEF Invariant
  <2> QED BY <1>1, <2>1, <2>2, <2>3, RunsAtOnce
<1> QED BY <1>2, <1>3, <1>4, <1>5 DEF generic_message

(* What is done to the entry of an id that is authorized or refused.         *)
Resolves(id) ==
  \/ g_dbus_pending_success(id) /\ (id \in DOMAIN question => question[id] \in authorized')
  \/ g_dbus_pending_error(id)
  \/ NotFound

LEMMA Resolved ==
  ASSUME Invariant, NEW id, Resolves(id),
         authorized \subseteq authorized', authorized' \subseteq Call,
         UNCHANGED <<question, next_pending, sent>>, asked' \subseteq asked,
         socket' \in Seq(Call \cup Earned), inbox' \in Seq(Call \cup Earned),
         dispatching' => inbox' # <<>>
  PROVE  Invariant'
<1>1. /\ pending_security' \subseteq pending_security /\ ran' \subseteq Call
      /\ \A c \in ran' : sent'[c] \in Kind
      /\ OnlyAuthorized'
  <2>1. CASE ran' = ran /\ pending_security' \subseteq pending_security
    BY <2>1 DEF Invariant, OnlyAuthorized
  <2>2. CASE \E s \in Found(id) : Run(s) /\ s.call \in authorized'
    <3>1. PICK s \in Found(id) : Run(s) /\ s.call \in authorized'
      BY <2>2
    <3>2. s \in pending_security
      BY FindsIt
    <3> QED BY <3>1, <3>2, RunsIt
  <2>3. CASE g_dbus_pending_error(id) \/ NotFound
    BY <2>1, <2>3 DEF g_dbus_pending_error, NotFound
  <2>4. CASE /\ g_dbus_pending_success(id)
             /\ id \in DOMAIN question => question[id] \in authorized'
    <3>1. CASE NotFound
      BY <2>3, <3>1
    <3>2. CASE \E s \in Found(id) : Run(s)
      BY <2>2, <2>4, <3>2, FindsIt
    <3> QED BY <2>4, <3>1, <3>2 DEF g_dbus_pending_success
  <2> QED BY <2>3, <2>4 DEF Resolves
<1>2. Remembers
  BY DEF Remembers, Invariant
<1>3. Call \cup Earned \subseteq Call \cup Earned'
  BY <1>2, StaysEarned
<1>4. inbox' \in Seq(Call \cup Earned') /\ socket' \in Seq(Call \cup Earned')
  BY <1>3, WiderSeq
<1>5. pending_security' \subseteq Due'
  BY <1>1, <1>2, StaysEarned DEF Invariant
<1> QED BY <1>1, <1>4, <1>5 DEF Invariant

LEMMA Replied ==
  ASSUME Invariant, authorization_reply
  PROVE  Invariant'
<1> DEFINE m == Head(inbox)
<1>1. /\ dispatching /\ m \in Answer /\ Take /\ asked' = asked \ {m.pending}
      /\ UNCHANGED <<question, next_pending, sent, authorized>>
  BY DEF authorization_reply
<1>2. m \in Earned
  <2>1. m \in Call \cup Earned
    BY <1>1, HeadTailProperties DEF Invariant
  <2> QED BY <1>1, <2>1, CallAssumption
<1>3. \/ NotFound
      \/ m.authorized = "yes" /\ g_dbus_pending_success(m.pending)
      \/ g_dbus_pending_error(m.pending)
  BY DEF authorization_reply
<1>4. Resolves(m.pending)
  BY <1>1, <1>2, <1>3 DEF Resolves, Earned
<1> QED BY <1>1, <1>2, <1>4, TakesOne, Resolved DEF Invariant

LEMMA Decided ==
  ASSUME Invariant, NEW id \in DOMAIN question, Decides(id)
  PROVE  Invariant'
<1>1. PICK success \in BOOLEAN : Decide(id, success)
  BY DEF Decides
<1>2. /\ UNCHANGED <<question, next_pending, asked, sent, socket, inbox, dispatching>>
      /\ authorized' = IF success THEN authorized \cup {question[id]} ELSE authorized
      /\ IF success THEN g_dbus_pending_success(id) ELSE g_dbus_pending_error(id)
  BY <1>1 DEF Decide, loop
<1>3. question[id] \in Call
  BY DEF Invariant
<1>4. authorized \subseteq authorized' /\ authorized' \subseteq Call /\ Resolves(id)
  BY <1>2, <1>3 DEF Resolves, Invariant
<1>5. /\ socket' \in Seq(Call \cup Earned) /\ inbox' \in Seq(Call \cup Earned)
      /\ dispatching' => inbox' # <<>>
  BY <1>2 DEF Invariant
<1> QED BY <1>2, <1>4, <1>5, Resolved
-----------------------------------------------------------------------------
LEMMA InvariantHolds == Spec => []Invariant
<1>1. Init => Invariant
  <2> SUFFICES ASSUME Init PROVE Invariant
    OBVIOUS
  <2>1. socket = <<>> /\ inbox = <<>> /\ question = <<>>
    BY DEF Init
  <2> QED BY <2>1 DEF Init, Invariant, OnlyAuthorized
<1>2. Invariant /\ [Next]_vars => Invariant'
  <2> SUFFICES ASSUME Invariant, [Next]_vars PROVE Invariant'
    OBVIOUS
  <2>1. CASE setup_bus \/ watch_func \/ Block \/ message_dispatch
    BY <2>1, MainLoop
  <2>2. CASE generic_message
    BY <2>2, Generic
  <2>3. CASE authorization_reply
    BY <2>3, Replied
  <2>4. CASE \E id \in DOMAIN question : Decides(id) \/ timeout_handler_dispatch(id)
    BY <2>4, Decided, Timeout
  <2>5. CASE \E id \in asked, verdict \in {"yes", "no"} : PolicyKit(id, verdict)
    BY <2>5, Verdict
  <2>6. CASE \/ RegisterInterface \/ UnregisterInterface
             \/ \E id \in PropertyId : g_dbus_pending_property_success(id)
             \/ \E c \in Call : ReplyLater(c)
    BY <2>6, Program
  <2>7. CASE \E c \in Call, kind \in Kind : SendCall(c, kind)
    BY <2>7, Sent
  <2>8. CASE UNCHANGED vars
    <3>1. /\ UNCHANGED <<question, next_pending, asked, sent, ran, authorized>>
          /\ UNCHANGED <<pending_security, socket, inbox, dispatching>>
      BY <2>8 DEF vars, loop, waiting, history
    <3> QED BY <3>1, Untouched DEF Invariant
  <2> QED BY <2>1, <2>2, <2>3, <2>4, <2>5, <2>6, <2>7, <2>8 DEF Next
<1> QED BY <1>1, <1>2, PTL DEF Spec

(* However many calls wait and in whatever order they are decided, the       *)
(* function of a privileged method runs only for a call authorized itself.   *)
THEOREM RunsOnlyAuthorized == Spec => []OnlyAuthorized
<1>1. Invariant => OnlyAuthorized
  BY DEF Invariant
<1> QED BY <1>1, InvariantHolds, PTL
-----------------------------------------------------------------------------
(* No call is answered twice, and none is in two places at once, whatever    *)
(* the number of calls.                                                      *)

(* No call is queued twice.                                                  *)
Distinct(s) == \A i, j \in DOMAIN s : s[i] = s[j] /\ s[i] \in Call => i = j

(* No call has two entries in a list.                                        *)
OneEntry(list) == \A s, t \in list : s.call = t.call => s = t

Placed ==
  /\ OnePlace
  /\ Distinct(socket) /\ Distinct(inbox)
  /\ OneEntry(pending_security) /\ OneEntry(pending_property_set)
  /\ \A s \in pending_property_set : s.call \in Call
  /\ answers \in [Call -> {0, 1}]
  /\ \A c \in Call : sent[c] = NULL => \A i \in 1 .. 7 : ~At(c, i)

Both == Invariant /\ Placed
-----------------------------------------------------------------------------
(* A step moves one call at most.                                            *)
LEMMA Moves ==
  ASSUME OnePlace, NEW c \in Call,
         \A d \in Call \ {c} : \A i \in 1 .. 7 : At(d, i)' => At(d, i),
         \A i, j \in 1 .. 7 : At(c, i)' /\ At(c, j)' => i = j
  PROVE  OnePlace'
<1> SUFFICES ASSUME NEW d \in Call, NEW i \in 1 .. 7, NEW j \in 1 .. 7, At(d, i)', At(d, j)'
             PROVE  i = j
  BY DEF OnePlace
<1> QED BY DEF OnePlace

(* Taking the first message takes its call out of the queue for good.        *)
LEMMA TakesCall ==
  ASSUME Both, dispatching, Take
  PROVE  /\ Distinct(inbox') /\ Distinct(socket')
         /\ ToSet(socket') = ToSet(socket) /\ ToSet(inbox') \subseteq ToSet(inbox)
         /\ Head(inbox) \in ToSet(inbox)
         /\ Head(inbox) \in Call => Head(inbox) \notin ToSet(inbox')
<1>1. inbox' = Tail(inbox) /\ socket' = socket
  BY DEF Take
<1>2. inbox \in Seq(Call \cup Earned) /\ inbox # <<>>
  BY DEF Both, Invariant
<1>3. /\ inbox' \in Seq(Call \cup Earned) /\ Len(inbox') = Len(inbox) - 1
      /\ \A i \in 1 .. Len(inbox') : inbox'[i] = inbox[i + 1]
  BY <1>1, <1>2, HeadTailProperties
<1>4. DOMAIN inbox' = 1 .. Len(inbox') /\ DOMAIN inbox = 1 .. Len(inbox) /\ Len(inbox) \in Nat
      /\ 1 \in DOMAIN inbox /\ Head(inbox) = inbox[1]
  BY <1>2, <1>3
<1>5. \A i \in DOMAIN inbox' : i + 1 \in DOMAIN inbox /\ i + 1 # 1 /\ inbox'[i] = inbox[i + 1]
  BY <1>3, <1>4
<1>6. Distinct(inbox)
  BY DEF Both, Placed
<1>7. Distinct(inbox')
  <2> SUFFICES ASSUME NEW i \in DOMAIN inbox', NEW j \in DOMAIN inbox',
                      inbox'[i] = inbox'[j], inbox'[i] \in Call
               PROVE  i = j
    BY DEF Distinct
  <2>1. i + 1 = j + 1
    BY <1>5, <1>6 DEF Distinct
  <2> QED BY <2>1, <1>4
<1>8. ToSet(inbox') \subseteq ToSet(inbox)
  BY <1>5 DEF ToSet
<1>9. ASSUME Head(inbox) \in Call PROVE Head(inbox) \notin ToSet(inbox')
  BY <1>4, <1>5, <1>6, <1>9 DEF Distinct, ToSet
<1> QED BY <1>1, <1>4, <1>7, <1>8, <1>9 DEF ToSet, Both, Placed

LEMMA ReadsCalls ==
  ASSUME Both, Reads
  PROVE  /\ Distinct(inbox') /\ Distinct(socket')
         /\ ToSet(socket') = {} /\ ToSet(inbox') = ToSet(inbox) \cup ToSet(socket)
<1>1. inbox' = inbox \o socket /\ socket' = <<>>
  BY DEF Reads
<1>2. inbox \in Seq(Call \cup Earned) /\ socket \in Seq(Call \cup Earned)
  BY DEF Both, Invariant
<1>3. /\ inbox' \in Seq(Call \cup Earned) /\ Len(inbox') = Len(inbox) + Len(socket)
      /\ \A i \in 1 .. Len(inbox) + Len(socket) :
           inbox'[i] = IF i <= Len(inbox) THEN inbox[i] ELSE socket[i - Len(inbox)]
  BY <1>1, <1>2, ConcatProperties
<1>4. /\ DOMAIN inbox' = 1 .. Len(inbox) + Len(socket)
      /\ DOMAIN inbox = 1 .. Len(inbox) /\ DOMAIN socket = 1 .. Len(socket)
      /\ Len(inbox) \in Nat /\ Len(socket) \in Nat
  BY <1>2, <1>3
<1>5. \A i \in DOMAIN inbox' :
        \/ i \in DOMAIN inbox /\ inbox'[i] = inbox[i]
        \/ i - Len(inbox) \in DOMAIN socket /\ inbox'[i] = socket[i - Len(inbox)]
  BY <1>3, <1>4
<1>6. \A c \in Call : ~(c \in ToSet(socket) /\ c \in ToSet(inbox))
  BY DEF Both, Placed, OnePlace, At
<1>7. Distinct(inbox')
  <2> SUFFICES ASSUME NEW i \in DOMAIN inbox', NEW j \in DOMAIN inbox',
                      inbox'[i] = inbox'[j], inbox'[i] \in Call
               PROVE  i = j
    BY DEF Distinct
  <2>1. CASE i \in DOMAIN inbox /\ inbox'[i] = inbox[i] /\ j \in DOMAIN inbox /\ inbox'[j] = inbox[j]
    BY <2>1 DEF Both, Placed, Distinct
  <2>2. CASE /\ i - Len(inbox) \in DOMAIN socket /\ inbox'[i] = socket[i - Len(inbox)]
             /\ j - Len(inbox) \in DOMAIN socket /\ inbox'[j] = socket[j - Len(inbox)]
    <3>1. i - Len(inbox) = j - Len(inbox)
      BY <2>2 DEF Both, Placed, Distinct
    <3> QED BY <3>1, <1>4
  <2>3. CASE \/ i \in DOMAIN inbox /\ inbox'[i] = inbox[i]
                /\ j - Len(inbox) \in DOMAIN socket /\ inbox'[j] = socket[j - Len(inbox)]
             \/ j \in DOMAIN inbox /\ inbox'[j] = inbox[j]
                /\ i - Len(inbox) \in DOMAIN socket /\ inbox'[i] = socket[i - Len(inbox)]
    BY <2>3, <1>6 DEF ToSet
  <2> QED BY <1>5, <2>1, <2>2, <2>3
<1>8. ToSet(inbox') = ToSet(inbox) \cup ToSet(socket)
  <2>1. ToSet(inbox') \subseteq ToSet(inbox) \cup ToSet(socket)
    BY <1>5 DEF ToSet
  <2>2. \A i \in DOMAIN inbox : i \in DOMAIN inbox' /\ inbox'[i] = inbox[i]
    BY <1>3, <1>4
  <2>3. \A i \in DOMAIN socket : i + Len(inbox) \in DOMAIN inbox' /\ inbox'[i + Len(inbox)] = socket[i]
    BY <1>3, <1>4
  <2> QED BY <2>1, <2>2, <2>3 DEF ToSet
<1>9. Distinct(socket') /\ ToSet(socket') = {}
  BY <1>1 DEF Distinct, ToSet
<1> QED BY <1>7, <1>8, <1>9

LEMMA AppendsNew ==
  ASSUME NEW S, NEW q \in Seq(S), NEW m \in S, Distinct(q), m \in Call => m \notin ToSet(q)
  PROVE  Distinct(Append(q, m)) /\ ToSet(Append(q, m)) = ToSet(q) \cup {m}
<1> DEFINE r == Append(q, m)
<1>1. /\ r \in Seq(S) /\ Len(r) = Len(q) + 1
      /\ \A i \in 1 .. Len(q) : r[i] = q[i]
      /\ r[Len(q) + 1] = m
  BY AppendProperties
<1>2. DOMAIN r = DOMAIN q \cup {Len(q) + 1} /\ DOMAIN q = 1 .. Len(q) /\ Len(q) \in Nat
  BY <1>1
<1> HIDE DEF r
<1>3. ToSet(r) = ToSet(q) \cup {m}
  BY <1>1, <1>2 DEF ToSet
<1>4. Distinct(r)
  BY <1>1, <1>2 DEF Distinct, ToSet
<1> QED BY <1>3, <1>4 DEF r
-----------------------------------------------------------------------------
(* What a step owes when it moves the call c alone.                          *)
LEMMA OneMoved ==
  ASSUME Both, NEW c \in Call, sent[c] # NULL, sent' = sent,
         \A d \in Call \ {c} : \A i \in 1 .. 7 : At(d, i)' => At(d, i),
         \A i, j \in 1 .. 7 : At(c, i)' /\ At(c, j)' => i = j,
         Distinct(socket'), Distinct(inbox'),
         OneEntry(pending_security'), OneEntry(pending_property_set'),
         \A s \in pending_property_set' : s.call \in Call,
         answers' \in [Call -> {0, 1}]
  PROVE  Placed'
<1>1. OnePlace'
  BY Moves DEF Both, Placed
<1>2. \A d \in Call : sent'[d] = NULL => \A i \in 1 .. 7 : ~At(d, i)'
  BY DEF Both, Placed
<1> QED BY <1>1, <1>2 DEF Placed

LEMMA NoneMoved ==
  ASSUME Both, sent' = sent, answers' = answers,
         \A d \in Call : \A i \in 1 .. 7 : At(d, i)' => At(d, i),
         Distinct(socket'), Distinct(inbox'),
         OneEntry(pending_security'), pending_property_set' = pending_property_set
  PROVE  Placed'
<1>1. OnePlace' /\ \A d \in Call : sent'[d] = NULL => \A i \in 1 .. 7 : ~At(d, i)'
  BY DEF Both, Placed, OnePlace
<1> QED BY <1>1 DEF Both, Placed, OneEntry

(* A call that was nowhere else may be answered, held or given up.           *)
Settles(c) ==
  \/ UNCHANGED <<held, dropped, answers>>
  \/ answers' = [answers EXCEPT ![c] = @ + 1] /\ UNCHANGED <<held, dropped>>
  \/ held' = held \cup {c} /\ UNCHANGED <<dropped, answers>>
  \/ dropped' = dropped \cup {c} /\ UNCHANGED <<held, answers>>

LEMMA SettledOnce ==
  ASSUME Both, NEW c \in Call, Settles(c), \A i \in 3 .. 5 : ~At(c, i)
  PROVE  /\ answers' \in [Call -> {0, 1}]
         /\ \A d \in Call \ {c} : \A i \in 3 .. 5 : At(d, i)' => At(d, i)
         /\ \A i, j \in 3 .. 5 : At(c, i)' /\ At(c, j)' => i = j
<1>1. answers \in [Call -> {0, 1}] /\ answers[c] = 0 /\ c \notin held /\ c \notin dropped
  BY DEF Both, Placed, At
<1>2. answers' \in [Call -> {0, 1}]
  BY <1>1 DEF Settles
<1>3. ASSUME NEW d \in Call \ {c}
      PROVE  (d \in held' => d \in held) /\ (d \in dropped' => d \in dropped)
             /\ answers'[d] = answers[d]
  BY <1>1 DEF Settles
<1>4. \A d \in Call \ {c} : \A i \in 3 .. 5 : At(d, i)' => At(d, i)
  BY <1>3 DEF At
<1>5. \/ c \notin held' /\ c \notin dropped'
      \/ c \notin held' /\ answers'[c] = 0
      \/ c \notin dropped' /\ answers'[c] = 0
  BY <1>1 DEF Settles
<1>6. \A i, j \in 3 .. 5 : At(c, i)' /\ At(c, j)' => i = j
  BY <1>5 DEF At
<1> QED BY <1>2, <1>4, <1>6
-----------------------------------------------------------------------------
(* A call that is taken from the queue goes to one place at most.            *)
LEMMA TakenOnce ==
  ASSUME Both, dispatching, Take, NEW c \in Call, c = Head(inbox), sent' = sent,
         \/ Settles(c) /\ UNCHANGED <<pending_security, pending_property_set>>
         \/ /\ UNCHANGED <<held, dropped, answers, pending_property_set>>
            /\ \E s : s.call = c /\ pending_security' = pending_security \cup {s}
         \/ /\ UNCHANGED <<held, dropped, answers, pending_security>>
            /\ \E s : s.call = c /\ pending_property_set' = pending_property_set \cup {s}
  PROVE  Placed'
<1>1. /\ Distinct(inbox') /\ Distinct(socket')
      /\ ToSet(socket') = ToSet(socket) /\ ToSet(inbox') \subseteq ToSet(inbox)
      /\ c \in ToSet(inbox) /\ c \notin ToSet(inbox')
  BY TakesCall
<1>2. At(c, 2) /\ c \in Call
  BY <1>1 DEF At
<1>3. (\A i \in {1} \cup 3 .. 7 : ~At(c, i)) /\ sent[c] # NULL
  BY <1>2 DEF Both, Placed, OnePlace
<1>4. ~At(c, 2)' /\ ~At(c, 1)'
  BY <1>1, <1>3 DEF At
<1>5. \A d \in Call : \A i \in 1 .. 2 : At(d, i)' => At(d, i)
  BY <1>1 DEF At
<1>6. CASE Settles(c) /\ UNCHANGED <<pending_security, pending_property_set>>
  <2>1. \A d \in Call : \A i \in 6 .. 7 : At(d, i)' <=> At(d, i)
    BY <1>6 DEF At
  <2>2. /\ answers' \in [Call -> {0, 1}]
        /\ \A d \in Call \ {c} : \A i \in 3 .. 5 : At(d, i)' => At(d, i)
        /\ \A i, j \in 3 .. 5 : At(c, i)' /\ At(c, j)' => i = j
    BY <1>2, <1>3, <1>6, SettledOnce
  <2>3. \A d \in Call \ {c} : \A i \in 1 .. 7 : At(d, i)' => At(d, i)
    BY <1>5, <2>1, <2>2
  <2>4. \A i \in {1, 2, 6, 7} : ~At(c, i)'
    BY <1>2, <1>3, <1>4, <2>1
  <2>5. \A i, j \in 1 .. 7 : At(c, i)' /\ At(c, j)' => i = j
    BY <2>2, <2>4
  <2> QED BY <1>1, <1>2, <1>3, <1>6, <2>2, <2>3, <2>5, OneMoved DEF Both, Placed, OneEntry
<1>7. CASE /\ UNCHANGED <<held, dropped, answers, pending_property_set>>
           /\ \E s : s.call = c /\ pending_security' = pending_security \cup {s}
  <2>1. \A d \in Call : \A i \in {3, 4, 5, 7} : At(d, i)' <=> At(d, i)
    BY <1>7 DEF At
  <2>2. \A d \in Call \ {c} : At(d, 6)' => At(d, 6)
    BY <1>7 DEF At
  <2>3. \A s \in pending_security : s.call # c
    BY <1>3 DEF At
  <2>4. OneEntry(pending_security')
    BY <1>7, <2>3 DEF Both, Placed, OneEntry
  <2>5. \A d \in Call \ {c} : \A i \in 1 .. 7 : At(d, i)' => At(d, i)
    BY <1>5, <2>1, <2>2
  <2>6. \A i \in {1, 2, 3, 4, 5, 7} : ~At(c, i)'
    BY <1>2, <1>3, <1>4, <2>1
  <2>7. \A i, j \in 1 .. 7 : At(c, i)' /\ At(c, j)' => i = j
    BY <2>6
  <2> QED BY <1>1, <1>2, <1>3, <1>7, <2>4, <2>5, <2>7, OneMoved DEF Both, Placed, OneEntry
<1>8. CASE /\ UNCHANGED <<held, dropped, answers, pending_security>>
           /\ \E s : s.call = c /\ pending_property_set' = pending_property_set \cup {s}
  <2>1. \A d \in Call : \A i \in {3, 4, 5, 6} : At(d, i)' <=> At(d, i)
    BY <1>8 DEF At
  <2>2. \A d \in Call \ {c} : At(d, 7)' => At(d, 7)
    BY <1>8 DEF At
  <2>3. \A s \in pending_property_set : s.call # c
    BY <1>3 DEF At
  <2>4. OneEntry(pending_property_set') /\ \A s \in pending_property_set' : s.call \in Call
    BY <1>2, <1>8, <2>3 DEF Both, Placed, OneEntry
  <2>5. \A d \in Call \ {c} : \A i \in 1 .. 7 : At(d, i)' => At(d, i)
    BY <1>5, <2>1, <2>2
  <2>6. \A i \in {1, 2, 3, 4, 5, 6} : ~At(c, i)'
    BY <1>2, <1>3, <1>4, <2>1
  <2>7. \A i, j \in 1 .. 7 : At(c, i)' /\ At(c, j)' => i = j
    BY <2>6
  <2> QED BY <1>1, <1>2, <1>3, <1>8, <2>4, <2>5, <2>7, OneMoved DEF Both, Placed, OneEntry
<1> QED BY <1>6, <1>7, <1>8

(* So does one that waited for its authorization.                            *)
LEMMA ReleasedOnce ==
  ASSUME Both, NEW s \in pending_security, Settles(s.call),
         pending_security' = pending_security \ {s}, UNCHANGED <<pending_property_set, sent>>,
         Distinct(socket'), Distinct(inbox'),
         ToSet(socket') = ToSet(socket), ToSet(inbox') \subseteq ToSet(inbox)
  PROVE  Placed'
<1> DEFINE c == s.call
<1>1. c \in Call /\ At(c, 6)
  BY DEF Both, Invariant, Due, Security, At
<1>2. (\A i \in 1 .. 5 \cup {7} : ~At(c, i)) /\ sent[c] # NULL
  BY <1>1 DEF Both, Placed, OnePlace
<1>3. ~At(c, 6)' /\ OneEntry(pending_security') /\ OneEntry(pending_property_set')
  BY DEF Both, Placed, OneEntry, At
<1>4. \A d \in Call : \A i \in {1, 2, 6, 7} : At(d, i)' => At(d, i)
  BY DEF At
<1> HIDE DEF c
<1>5. /\ answers' \in [Call -> {0, 1}]
      /\ \A d \in Call \ {c} : \A i \in 3 .. 5 : At(d, i)' => At(d, i)
      /\ \A i, j \in 3 .. 5 : At(c, i)' /\ At(c, j)' => i = j
  BY <1>1, <1>2, SettledOnce DEF c
<1>6. \A d \in Call \ {c} : \A i \in 1 .. 7 : At(d, i)' => At(d, i)
  BY <1>4, <1>5
<1>7. \A i \in {1, 2, 6, 7} : ~At(c, i)'
  BY <1>1, <1>2, <1>3, <1>4
<1>8. \A i, j \in 1 .. 7 : At(c, i)' /\ At(c, j)' => i = j
  BY <1>5, <1>7
<1> QED BY <1>1, <1>2, <1>3, <1>5, <1>6, <1>8, OneMoved DEF Both, Placed
-----------------------------------------------------------------------------
(* One lemma per kind of step. *)

LEMMA PlacedByLoop ==
  ASSUME Both, setup_bus \/ watch_func \/ Block \/ message_dispatch
  PROVE  Placed'
<1>1. UNCHANGED <<held, dropped, answers, pending_security, pending_property_set, sent>>
  BY DEF setup_bus, watch_func, Block, message_dispatch, waiting, history
<1>2. CASE setup_bus \/ watch_func \/ Block
  <2>1. Reads
    BY <1>2 DEF setup_bus, watch_func, Block
  <2>2. /\ Distinct(inbox') /\ Distinct(socket')
        /\ ToSet(socket') = {} /\ ToSet(inbox') = ToSet(inbox) \cup ToSet(socket)
    BY <2>1, ReadsCalls
  <2>3. \A d \in Call : \A i \in 1 .. 7 :
          At(d, i)' => i # 1 /\ (At(d, i) \/ (i = 2 /\ At(d, 1)))
    <3> TAKE d \in Call
    <3>1. ~At(d, 1)' /\ (At(d, 2)' => At(d, 2) \/ At(d, 1))
      BY <2>2 DEF At
    <3>2. \A i \in 3 .. 7 : At(d, i)' => At(d, i)
      BY <1>1 DEF At
    <3> TAKE i \in 1 .. 7
    <3>3. i = 1 \/ i = 2 \/ i \in 3 .. 7
      OBVIOUS
    <3> QED BY <3>1, <3>2, <3>3
  <2>4. OnePlace'
    BY <2>3 DEF Both, Placed, OnePlace
  <2>5. \A d \in Call : sent'[d] = NULL => \A i \in 1 .. 7 : ~At(d, i)'
    BY <1>1, <2>3 DEF Both, Placed
  <2> QED BY <1>1, <2>2, <2>4, <2>5 DEF Both, Placed, OneEntry
<1>3. CASE message_dispatch
  <2>1. UNCHANGED <<socket, inbox>>
    BY <1>3 DEF message_dispatch
  <2>2. \A d \in Call : \A i \in 1 .. 7 : At(d, i)' => At(d, i)
    BY <1>1, <2>1 DEF At
  <2> QED BY <1>1, <2>1, <2>2, NoneMoved DEF Both, Placed, OneEntry
<1> QED BY <1>2, <1>3

LEMMA PlacedByCall ==
  ASSUME Both, generic_message
  PROVE  Placed'
<1>1. PICK c \in Call : c = Head(inbox)
  BY DEF generic_message
<1>2. dispatching /\ sent' = sent
  BY DEF generic_message
<1>3. CASE Rejected(c)
  BY <1>1, <1>2, <1>3, TakenOnce DEF Rejected, Answers, Settles, waiting
<1>4. CASE check_privilege(c)
  <2>1. CASE pending_security' = pending_security
    BY <1>1, <1>2, <1>4, <2>1, TakenOnce DEF check_privilege, Settles
  <2>2. CASE pending_security' # pending_security
    <3> DEFINE s == [pending |-> next_pending, call |-> c, live |-> TRUE]
    <3>1. /\ Take /\ s.call = c /\ pending_security' = pending_security \cup {s}
          /\ UNCHANGED <<held, dropped, answers, pending_property_set>>
      BY <1>4, <2>2 DEF check_privilege
    <3> QED BY <1>1, <1>2, <3>1, TakenOnce
  <2> QED BY <2>1, <2>2
<1>5. CASE properties_set(c)
  <2> DEFINE s == [id |-> next_pending_property, call |-> c]
  <2>1. /\ Take /\ s.call = c /\ pending_property_set' = pending_property_set \cup {s}
        /\ UNCHANGED <<held, dropped, answers, pending_security>>
    BY <1>5 DEF properties_set
  <2> QED BY <1>1, <1>2, <2>1, TakenOnce
<1>6. CASE process_message(c)
  <2>1. PICK reply \in BOOLEAN :
          /\ Returns(c, reply)
          /\ IF Refuses(c, reply) THEN UNCHANGED loop ELSE Take
    BY <1>6 DEF process_message
  <2>2. UNCHANGED <<dropped, pending_security, pending_property_set>>
    BY <1>6 DEF process_message, waiting
  <2>3. CASE Refuses(c, reply)
    <3>1. UNCHANGED <<socket, inbox, held, answers>>
      BY <2>1, <2>3 DEF Returns, Refuses, loop
    <3>2. \A d \in Call : \A i \in 1 .. 7 : At(d, i)' => At(d, i)
      BY <2>2, <3>1 DEF At
    <3> QED BY <1>2, <2>2, <3>1, <3>2, NoneMoved DEF Both, Placed, OneEntry
  <2>4. CASE ~Refuses(c, reply)
    <3>1. Take /\ Settles(c)
      BY <2>1, <2>2, <2>4 DEF Returns, Settles
    <3> QED BY <1>1, <1>2, <2>2, <3>1, TakenOnce
  <2> QED BY <2>3, <2>4
<1> QED BY <1>1, <1>3, <1>4, <1>5, <1>6 DEF generic_message

(* An authorization or its refusal releases the call it is about, if that    *)
(* still waits.                                                              *)
LEMMA PlacedByVerdict ==
  ASSUME Both, NEW id, Resolves(id), UNCHANGED <<pending_property_set, sent>>,
         Distinct(socket'), Distinct(inbox'),
         ToSet(socket') = ToSet(socket), ToSet(inbox') \subseteq ToSet(inbox)
  PROVE  Placed'
<1>1. CASE NotFound
  <2>1. UNCHANGED <<pending_security, held, answers, dropped>>
    BY <1>1 DEF NotFound
  <2>2. \A d \in Call : \A i \in 1 .. 7 : At(d, i)' => At(d, i)
    BY <2>1 DEF At
  <2> QED BY <2>1, <2>2, NoneMoved DEF Both, Placed, OneEntry
<1>2. CASE \E s \in Found(id) : Run(s)
  <2>1. PICK s \in Found(id) : Run(s)
    BY <1>2
  <2>2. s \in pending_security /\ s.call \in Call /\ sent[s.call] \in Privileged
    BY FindsIt DEF Both, Invariant
  <2>3. Settles(s.call)
    BY <2>1, <2>2 DEF Run, Returns, Refuses, Settles, Privileged
  <2>4. pending_security' = pending_security \ {s}
    BY <2>1 DEF Run
  <2> QED BY <2>2, <2>3, <2>4, ReleasedOnce
<1>3. CASE /\ g_dbus_pending_error(id) /\ Found(id) # {}
  <2>1. PICK s \in Found(id) :
          /\ Answers(s.call) /\ pending_security' = pending_security \ {s}
          /\ UNCHANGED <<held, dropped>>
    BY <1>3 DEF g_dbus_pending_error
  <2>2. s \in pending_security /\ Settles(s.call)
    BY <2>1, FindsIt DEF Both, Answers, Settles
  <2> QED BY <2>1, <2>2, ReleasedOnce
<1> QED BY <1>1, <1>2, <1>3 DEF Resolves, g_dbus_pending_success, g_dbus_pending_error

LEMMA PlacedByReply ==
  ASSUME Both, authorization_reply
  PROVE  Placed'
<1> DEFINE m == Head(inbox)
<1>1. /\ dispatching /\ Take /\ UNCHANGED <<pending_property_set, sent>>
  BY DEF authorization_reply
<1>2. PICK id : Resolves(id)
  <2>1. m \in Answer /\ authorized' = authorized /\ question' = question
    BY DEF authorization_reply
  <2>2. m \in Earned
    <3>1. m \in Call \cup Earned
      BY <1>1, HeadTailProperties DEF Both, Invariant
    <3> QED BY <2>1, <3>1, CallAssumption
  <2>3. \/ NotFound
        \/ m.authorized = "yes" /\ g_dbus_pending_success(m.pending)
        \/ g_dbus_pending_error(m.pending)
    BY DEF authorization_reply
  <2>4. Resolves(m.pending)
    BY <2>1, <2>2, <2>3 DEF Resolves, Earned
  <2> QED BY <2>4
<1> QED BY <1>1, <1>2, TakesCall, PlacedByVerdict

LEMMA PlacedByDecision ==
  ASSUME Both, NEW id \in DOMAIN question, Decides(id)
  PROVE  Placed'
<1>1. PICK success \in BOOLEAN : Decide(id, success)
  BY DEF Decides
<1>2. /\ UNCHANGED <<pending_property_set, sent, socket, inbox>>
      /\ authorized' = IF success THEN authorized \cup {question[id]} ELSE authorized
      /\ IF success THEN g_dbus_pending_success(id) ELSE g_dbus_pending_error(id)
  BY <1>1 DEF Decide, loop
<1>3. Resolves(id)
  BY <1>2 DEF Resolves
<1> QED BY <1>2, <1>3, PlacedByVerdict DEF Both, Placed

LEMMA PlacedByQuestion ==
  ASSUME Both,
         \/ \E id \in DOMAIN question : timeout_handler_dispatch(id)
         \/ \E id \in asked, verdict \in {"yes", "no"} : PolicyKit(id, verdict)
  PROVE  Placed'
<1>1. UNCHANGED <<held, dropped, answers, pending_security, pending_property_set, sent>>
  BY DEF timeout_handler_dispatch, PolicyKit, waiting, history
<1>2. PICK m \in Answer :
        \/ inbox' = Append(inbox, m) /\ socket' = socket
        \/ socket' = Append(socket, m) /\ inbox' = inbox
  <2>1. CASE \E id \in DOMAIN question : timeout_handler_dispatch(id)
    <3>1. PICK id \in DOMAIN question : timeout_handler_dispatch(id)
      BY <2>1
    <3>2. [pending |-> id, authorized |-> "timeout"] \in Answer
      BY DEF Both, Invariant, Answer
    <3> QED BY <3>1, <3>2 DEF timeout_handler_dispatch
  <2>2. CASE \E id \in asked, verdict \in {"yes", "no"} : PolicyKit(id, verdict)
    <3>1. PICK id \in asked, verdict \in {"yes", "no"} : PolicyKit(id, verdict)
      BY <2>2
    <3>2. [pending |-> id, authorized |-> verdict] \in Answer
      BY DEF Both, Invariant, Answer
    <3> QED BY <3>1, <3>2 DEF PolicyKit
  <2> QED BY <2>1, <2>2
<1>3. m \notin Call /\ socket \in Seq(Call \cup Earned \cup {m}) /\ inbox \in Seq(Call \cup Earned \cup {m})
  BY CallAssumption, WiderSeq DEF Both, Invariant
<1>4. /\ Distinct(socket') /\ Distinct(inbox')
      /\ ToSet(socket') \subseteq ToSet(socket) \cup {m}
      /\ ToSet(inbox') \subseteq ToSet(inbox) \cup {m}
  <2>1. Distinct(socket) /\ Distinct(inbox)
    BY DEF Both, Placed
  <2>2. CASE inbox' = Append(inbox, m) /\ socket' = socket
    BY <1>3, <2>1, <2>2, AppendsNew
  <2>3. CASE socket' = Append(socket, m) /\ inbox' = inbox
    BY <1>3, <2>1, <2>3, AppendsNew
  <2> QED BY <1>2, <2>2, <2>3
<1>5. \A d \in Call : \A i \in 1 .. 7 : At(d, i)' => At(d, i)
  BY <1>1, <1>3, <1>4 DEF At
<1> QED BY <1>1, <1>4, <1>5, NoneMoved DEF Both, Placed, OneEntry

LEMMA PlacedByInterface ==
  ASSUME Both, RegisterInterface \/ UnregisterInterface
  PROVE  Placed'
<1>1. UNCHANGED <<socket, inbox, held, dropped, answers, pending_property_set, sent>>
  BY DEF RegisterInterface, UnregisterInterface, loop, waiting, history
<1>2. \A s \in pending_security' : \E t \in pending_security :
        s = t \/ s = [t EXCEPT !.live = FALSE]
  BY DEF RegisterInterface, UnregisterInterface, waiting
<1>3. \A s, t \in pending_security' : s.call = t.call => s = t
  <2> SUFFICES ASSUME NEW s \in pending_security', NEW t \in pending_security', s.call = t.call
               PROVE  s = t
    OBVIOUS
  <2>1. CASE RegisterInterface
    BY <2>1 DEF RegisterInterface, waiting, Both, Placed, OneEntry
  <2>2. CASE UnregisterInterface
    <3>1. pending_security' = {[x EXCEPT !.live = FALSE] : x \in pending_security}
      BY <2>2 DEF UnregisterInterface
    <3>2. PICK x \in pending_security, y \in pending_security :
            s = [x EXCEPT !.live = FALSE] /\ t = [y EXCEPT !.live = FALSE]
      BY <3>1
    <3>3. x.call = s.call /\ y.call = t.call
      BY <3>2 DEF Both, Invariant, Due, Security
    <3> QED BY <3>2, <3>3 DEF Both, Placed, OneEntry
  <2> QED BY <2>1, <2>2
<1>4. \A s \in pending_security' : \E t \in pending_security : s.call = t.call
  BY <1>2 DEF Both, Invariant, Due, Security
<1>5. \A d \in Call : \A i \in 1 .. 7 : At(d, i)' => At(d, i)
  BY <1>1, <1>4 DEF At
<1> QED BY <1>1, <1>3, <1>5, NoneMoved DEF Both, Placed, OneEntry

LEMMA PlacedByProgram ==
  ASSUME Both,
         \/ \E id \in PropertyId : g_dbus_pending_property_success(id)
         \/ \E c \in Call : ReplyLater(c)
  PROVE  Placed'
<1>1. UNCHANGED <<socket, inbox, dropped, pending_security, sent>>
  BY DEF g_dbus_pending_property_success, ReplyLater, loop, waiting
<1>2. PICK c \in Call :
        /\ Answers(c)
        /\ \/ /\ c \in held /\ held' = held \ {c}
              /\ pending_property_set' = pending_property_set
           \/ /\ \E s \in pending_property_set :
                   s.call = c /\ pending_property_set' = pending_property_set \ {s}
              /\ held' = held
  <2>1. CASE \E c \in Call : ReplyLater(c)
    BY <2>1 DEF ReplyLater, waiting
  <2>2. CASE \E id \in PropertyId : g_dbus_pending_property_success(id)
    <3>1. PICK s \in pending_property_set :
            /\ pending_property_set' = pending_property_set \ {s}
            /\ Answers(s.call) /\ held' = held
      BY <2>2 DEF g_dbus_pending_property_success
    <3>2. s.call \in Call
      BY DEF Both, Placed
    <3> QED BY <3>1, <3>2
  <2> QED BY <2>1, <2>2
<1>3. \/ At(c, 3) /\ ~At(c, 3)' /\ (At(c, 7)' => At(c, 7))
      \/ At(c, 7) /\ ~At(c, 7)' /\ (At(c, 3)' => At(c, 3))
  <2>1. OneEntry(pending_property_set)
    BY DEF Both, Placed
  <2> QED BY <1>2, <2>1 DEF At, OneEntry
<1>4. (\A i \in {1, 2, 4, 5, 6} : ~At(c, i)) /\ ~(At(c, 3) /\ At(c, 7)) /\ sent[c] # NULL
  BY <1>3 DEF Both, Placed, OnePlace
<1>5. answers \in [Call -> {0, 1}] /\ answers[c] = 0
      /\ answers' = [answers EXCEPT ![c] = @ + 1]
  BY <1>2, <1>4 DEF Both, Placed, At, Answers
<1>6. \A d \in Call : \A i \in {1, 2, 4, 6} : At(d, i)' <=> At(d, i)
  BY <1>1 DEF At
<1>7. \A d \in Call \ {c} : \A i \in {3, 5, 7} : At(d, i)' => At(d, i)
  <2> TAKE d \in Call \ {c}
  <2>1. answers'[d] = answers[d]
    BY <1>5
  <2> QED BY <1>2, <2>1 DEF At
<1>8. \A d \in Call \ {c} : \A i \in 1 .. 7 : At(d, i)' => At(d, i)
  BY <1>6, <1>7
<1>9. \A i \in {1, 2, 3, 4, 6, 7} : ~At(c, i)'
  BY <1>3, <1>4, <1>6
<1>10. \A i, j \in 1 .. 7 : At(c, i)' /\ At(c, j)' => i = j
  BY <1>9
<1>11. OneEntry(pending_property_set') /\ \A s \in pending_property_set' : s.call \in Call
  BY <1>2 DEF Both, Placed, OneEntry
<1> QED BY <1>1, <1>4, <1>5, <1>8, <1>10, <1>11, OneMoved DEF Both, Placed, OneEntry

LEMMA PlacedBySending ==
  ASSUME Both, NEW c \in Call, NEW kind \in Kind, SendCall(c, kind)
  PROVE  Placed'
<1>1. /\ UNCHANGED <<held, dropped, answers, pending_security, pending_property_set, inbox>>
      /\ sent[c] = NULL /\ sent' = [sent EXCEPT ![c] = kind]
      /\ socket' = Append(socket, c)
  BY DEF SendCall, waiting, history
<1>2. \A i \in 1 .. 7 : ~At(c, i)
  BY <1>1 DEF Both, Placed
<1>3. c \notin ToSet(socket)
  BY <1>2 DEF At
<1>4. Distinct(socket') /\ ToSet(socket') = ToSet(socket) \cup {c}
  BY <1>1, <1>3, AppendsNew DEF Both, Invariant, Placed
<1>5. \A d \in Call : \A i \in 2 .. 7 : At(d, i)' <=> At(d, i)
  BY <1>1 DEF At
<1>6. \A d \in Call \ {c} : At(d, 1)' => At(d, 1)
  BY <1>4 DEF At
<1>7. \A d \in Call \ {c} : \A i \in 1 .. 7 : At(d, i)' => At(d, i)
  BY <1>5, <1>6
<1>8. \A i \in 2 .. 7 : ~At(c, i)'
  BY <1>2, <1>5
<1>9. \A i, j \in 1 .. 7 : At(c, i)' /\ At(c, j)' => i = j
  BY <1>8
<1>10. OnePlace'
  BY <1>7, <1>9, Moves DEF Both, Placed
<1>11. sent'[c] # NULL /\ \A d \in Call \ {c} : sent'[d] = sent[d]
  BY <1>1, CallAssumption DEF Both, Invariant
<1>12. \A d \in Call : sent'[d] = NULL => \A i \in 1 .. 7 : ~At(d, i)'
  <2> TAKE d \in Call
  <2>1. CASE d = c
    BY <1>11, <2>1
  <2>2. CASE d # c
    BY <1>7, <1>11, <2>2 DEF Both, Placed
  <2> QED BY <2>1, <2>2
<1> QED BY <1>1, <1>4, <1>10, <1>12 DEF Both, Placed, OneEntry
-----------------------------------------------------------------------------
LEMMA EverPlaced == Spec => []Both
<1>1. Init => Placed
  <2> SUFFICES ASSUME Init PROVE Placed
    OBVIOUS
  <2>1. /\ socket = <<>> /\ inbox = <<>> /\ held = {} /\ dropped = {}
        /\ pending_security = {} /\ pending_property_set = {} /\ answers = [c \in Call |-> 0]
    BY DEF Init
  <2>2. ToSet(socket) = {} /\ ToSet(inbox) = {} /\ Distinct(socket) /\ Distinct(inbox)
    BY <2>1 DEF ToSet, Distinct
  <2>3. \A c \in Call : \A i \in 1 .. 7 : ~At(c, i)
    BY <2>1, <2>2 DEF At
  <2> QED BY <2>1, <2>2, <2>3 DEF Placed, OnePlace, OneEntry
<1>2. Invariant /\ Placed /\ [Next]_vars => Placed'
  <2> SUFFICES ASSUME Invariant, Placed, [Next]_vars PROVE Placed'
    OBVIOUS
  <2> Both
    BY DEF Both
  <2>1. CASE setup_bus \/ watch_func \/ Block \/ message_dispatch
    BY <2>1, PlacedByLoop
  <2>2. CASE generic_message
    BY <2>2, PlacedByCall
  <2>3. CASE authorization_reply
    BY <2>3, PlacedByReply
  <2>4. CASE \E id \in DOMAIN question : Decides(id)
    BY <2>4, PlacedByDecision
  <2>5. CASE \/ \E id \in DOMAIN question : timeout_handler_dispatch(id)
             \/ \E id \in asked, verdict \in {"yes", "no"} : PolicyKit(id, verdict)
    BY <2>5, PlacedByQuestion
  <2>6. CASE RegisterInterface \/ UnregisterInterface
    BY <2>6, PlacedByInterface
  <2>7. CASE \/ \E id \in PropertyId : g_dbus_pending_property_success(id)
             \/ \E c \in Call : ReplyLater(c)
    BY <2>7, PlacedByProgram
  <2>8. CASE \E c \in Call, kind \in Kind : SendCall(c, kind)
    BY <2>8, PlacedBySending
  <2>9. CASE UNCHANGED vars
    <3>1. UNCHANGED <<socket, inbox, held, dropped, answers, pending_security,
                      pending_property_set, sent>>
      BY <2>9 DEF vars, loop, waiting, history
    <3>2. \A d \in Call : \A i \in 1 .. 7 : At(d, i)' => At(d, i)
      BY <3>1 DEF At
    <3> QED BY <3>1, <3>2, NoneMoved DEF Placed
  <2> QED BY <2>1, <2>2, <2>3, <2>4, <2>5, <2>6, <2>7, <2>8, <2>9 DEF Next
<1> QED BY <1>1, <1>2, InvariantHolds, PTL DEF Spec, Both

(* However many calls there are, however late and in whatever order they are *)
(* answered: none is answered twice, and none is in two places.              *)
THEOREM NeverAnsweredTwice == Spec => []AnsweredOnce
<1>1. Both => AnsweredOnce
  BY DEF Both, Placed, AnsweredOnce, At
<1> QED BY <1>1, EverPlaced, PTL
=============================================================================
