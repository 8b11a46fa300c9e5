----------------------------- MODULE GdbusCalls -----------------------------
(* How a method call reaches a function of the program and gets its answer:  *)
(* the main loop's sources for a connection (gdbus/mainloop.c), the dispatch *)
(* of calls, calls that wait for an authorization and property changes that  *)
(* wait for the program (gdbus/object.c), and the question to PolicyKit      *)
(* (gdbus/polkit.c). Callers, PolicyKit and the program's own functions are  *)
(* the environment; one object with one interface stands for them all.       *)
EXTENDS Naturals, FiniteSets, SequencesExt

CONSTANTS
  Call,        \* method calls
  MaxSources,  \* bound: dispatch sources that are counted
  NULL

(* A method is answered at once, later or never, or needs an authorization,  *)
(* from PolicyKit or from the program; or a property is set.                 *)
Kind == {"sync", "async", "noreply", "builtin", "custom", "set"}
Privileged == {"builtin", "custom"}

VARIABLES
  socket,     \* messages that are not read yet
  inbox,      \* the connection's queue of messages read
  sources,    \* message_dispatch sources in the main loop
  dispatching,\* whether message_dispatch is in its loop
  ready,      \* whether setup_bus is done
  served,     \* whether the interface is registered
  pending_security, next_pending,               \* as in object.c, but the
  pending_property_set, next_pending_property,  \* lists are sets: of unique ids
  asked,      \* the pending ids PolicyKit has been asked about
  held,       \* calls the program will answer later
  sent,       \* the kind of each call made, or NULL
  answers,    \* history: answers sent to each call
  ran,        \* history: calls whose function was called
  authorized, \* history: calls that were authorized
  question,   \* history: the call each pending id was given to
  dropped,    \* history: calls that gdbus gave up
  status      \* "running", "stuck" on one message, or "undefined"

loop == <<socket, inbox, sources, dispatching, ready>>
waiting == <<pending_security, next_pending, pending_property_set, next_pending_property, asked>>
history == <<answers, ran, authorized, question, dropped>>
vars == <<loop, served, waiting, held, sent, history, status>>

Security == [pending : Nat, call : Call, live : BOOLEAN]
PropertySet == [id : Nat, call : Call]
Answer == [pending : Nat, authorized : {"yes", "no", "timeout"}]
Message == Call \cup Answer

ASSUME CallAssumption ==
  /\ NULL \notin Call \cup Kind /\ MaxSources \in Nat \ {0}
  /\ \A c \in Call : c \notin Answer

-----------------------------------------------------------------------------
(* The main loop. *)

queue_dispatch(n) == IF n < MaxSources THEN n + 1 ELSE n

(* What arrives is read; libdbus reports a queue that is no longer empty to  *)
(* dispatch_status, and watch_func looks once more itself.                   *)
NewStatus(n) == IF inbox = <<>> THEN queue_dispatch(n) ELSE n
Reads ==
  /\ inbox' = inbox \o socket /\ socket' = <<>>

watch_func ==
  /\ status = "running" /\ ready /\ ~dispatching /\ socket # <<>>
  /\ Reads /\ sources' = queue_dispatch(NewStatus(sources))
  /\ UNCHANGED <<dispatching, ready, served, waiting, held, sent, history, status>>

(* A call of the program that blocks, as dbus_bus_add_match, reads as well.  *)
Block ==
  /\ status = "running" /\ ready /\ socket # <<>>
  /\ Reads /\ sources' = NewStatus(sources)
  /\ UNCHANGED <<dispatching, ready, served, waiting, held, sent, history, status>>

(* Messages may have come in with the answer to RequestName, when nobody     *)
(* listens to the status of the connection yet.                              *)
IgnoresEarly ==
  /\ ~ready /\ ready' = TRUE
  /\ Reads /\ sources' = 0
  /\ UNCHANGED <<dispatching, served, waiting, held, sent, history, status>>

setup_bus ==
  /\ ~ready /\ ready' = TRUE
  /\ Reads
  /\ sources' = IF inbox' = <<>> THEN sources ELSE queue_dispatch(sources)
  /\ UNCHANGED <<dispatching, served, waiting, held, sent, history, status>>

message_dispatch ==
  /\ status = "running" /\ sources > 0 /\ ~dispatching
  /\ sources' = sources - 1 /\ dispatching' = (inbox # <<>>)
  /\ UNCHANGED <<socket, inbox, ready, served, waiting, held, sent, history, status>>

(* The loop goes on while data remains.                                      *)
Take ==
  /\ inbox' = Tail(inbox) /\ dispatching' = (Tail(inbox) # <<>>)
  /\ UNCHANGED <<socket, sources, ready>>
-----------------------------------------------------------------------------
(* Calls. *)

Answers(c) == answers' = [answers EXCEPT ![c] = @ + 1]

(* The function of a method returns a reply or NULL.                         *)
Returns(c, reply) ==
  /\ ran' = ran \cup {c}
  /\ answers' = IF reply /\ sent[c] # "noreply" THEN [answers EXCEPT ![c] = @ + 1] ELSE answers
  /\ held' = IF ~reply /\ sent[c] = "async" THEN held \cup {c} ELSE held
Refuses(c, reply) == ~reply /\ sent[c] \notin {"noreply", "async"}

(* A method that returns nothing though it should is out of memory as far as *)
(* the dispatch is concerned: it is tried again, and nothing else is done.   *)
process_message(c) ==
  /\ \E reply \in BOOLEAN :
       /\ Returns(c, reply)
       /\ IF Refuses(c, reply) THEN status' = "stuck" /\ UNCHANGED loop
          ELSE Take /\ UNCHANGED status
  /\ UNCHANGED <<waiting, authorized, question, dropped>>

(* PolicyKit cannot be asked when the message cannot be sent. The error that *)
(* is to say so has no name, so that none is sent.                           *)
check_privilege(c) ==
  /\ next_pending' = next_pending + 1 /\ question' = Append(question, c)
  /\ \/ /\ pending_security' =
             pending_security \cup {[pending |-> next_pending, call |-> c, live |-> TRUE]}
        /\ asked' = IF sent[c] = "builtin" THEN asked \cup {next_pending} ELSE asked
        /\ UNCHANGED dropped
     \/ /\ sent[c] = "builtin"
        /\ dropped' = dropped \cup {c}
        /\ UNCHANGED <<pending_security, asked>>
  /\ Take
  /\ UNCHANGED <<pending_property_set, next_pending_property, held, answers, ran,
                 authorized, status>>

(* The program answers a change of a property later, by its id.              *)
properties_set(c) ==
  /\ pending_property_set' =
       pending_property_set \cup {[id |-> next_pending_property, call |-> c]}
  /\ next_pending_property' = next_pending_property + 1
  /\ ran' = ran \cup {c}
  /\ Take
  /\ UNCHANGED <<pending_security, next_pending, asked, held, answers, authorized, question,
                 dropped, status>>

(* Wrong arguments and read-only properties get an error at once; a call for *)
(* an unknown interface or with another signature gets it from libdbus.      *)
Rejected(c) ==
  /\ Answers(c) /\ Take
  /\ UNCHANGED <<waiting, held, ran, authorized, question, dropped, status>>

generic_message ==
  /\ status = "running" /\ dispatching /\ Head(inbox) \in Call
  /\ LET c == Head(inbox)
     IN  \/ Rejected(c)
         \/ served /\ sent[c] \in Privileged /\ check_privilege(c)
         \/ served /\ sent[c] = "set" /\ properties_set(c)
         \/ served /\ sent[c] \in {"sync", "async", "noreply"} /\ process_message(c)
  /\ UNCHANGED <<served, sent>>
-----------------------------------------------------------------------------
(* Authorizations. *)

Found(id) == {s \in pending_security : s.pending = id}
NotFound == UNCHANGED <<pending_security, held, answers, ran, dropped, status>>

Run(s) ==
  /\ pending_security' = pending_security \ {s}
  /\ \E reply \in BOOLEAN :
       /\ Returns(s.call, reply)
       /\ dropped' = IF Refuses(s.call, reply) THEN dropped \cup {s.call} ELSE dropped
  /\ status' = IF s.live THEN status ELSE "undefined"

RunsLatest(id) ==
  IF pending_security = {} THEN NotFound
  ELSE \E s \in pending_security : /\ \A t \in pending_security : t.pending <= s.pending
                                  /\ Run(s)

(* The function gets the data the interface had when it was called, which    *)
(* may be gone, and nothing is made of its result.                           *)
g_dbus_pending_success(id) ==
  IF Found(id) = {} THEN NotFound ELSE \E s \in Found(id) : Run(s)

g_dbus_pending_error(id) ==
  IF Found(id) = {} THEN NotFound
  ELSE \E s \in Found(id) :
         /\ Answers(s.call)
         /\ pending_security' = pending_security \ {s}
         /\ UNCHANGED <<held, ran, dropped, status>>

(* The answer to a question that has timed out is thrown away by libdbus.    *)
authorization_reply ==
  /\ status = "running" /\ dispatching /\ Head(inbox) \in Answer
  /\ LET m == Head(inbox)
     IN  /\ asked' = asked \ {m.pending}
         /\ CASE m.pending \notin asked -> NotFound
              [] m.pending \in asked /\ m.authorized = "yes" -> g_dbus_pending_success(m.pending)
              [] OTHER -> g_dbus_pending_error(m.pending)
  /\ Take
  /\ UNCHANGED <<served, next_pending, pending_property_set, next_pending_property, sent,
                 authorized, question>>

(* The program's own security function may decide late, and more than once.  *)
Decide(id, success) ==
  /\ status = "running" /\ sent[question[id]] = "custom"
  /\ authorized' = IF success THEN authorized \cup {question[id]} ELSE authorized
  /\ IF success THEN g_dbus_pending_success(id) ELSE g_dbus_pending_error(id)
  /\ UNCHANGED <<loop, served, next_pending, pending_property_set, next_pending_property, asked,
                 sent, question>>

InFlight(id, kinds) ==
  \E m \in ToSet(socket \o inbox) \cap Answer : m.pending = id /\ m.authorized \in kinds

PolicyKit(id, verdict) ==
  /\ id \in asked /\ ~InFlight(id, {"yes", "no"})
  /\ socket' = Append(socket, [pending |-> id, authorized |-> verdict])
  /\ authorized' = IF verdict = "yes" THEN authorized \cup {question[id]} ELSE authorized
  /\ UNCHANGED <<inbox, sources, dispatching, ready, served, waiting, held, sent, answers, ran,
                 question, dropped, status>>

(* timeout_handler_dispatch: libdbus puts an error into the queue.           *)
timeout_handler_dispatch(id) ==
  /\ status = "running" /\ ~dispatching
  /\ id \in asked /\ ~InFlight(id, {"timeout"})
  /\ inbox' = Append(inbox, [pending |-> id, authorized |-> "timeout"])
  /\ sources' = NewStatus(sources)
  /\ UNCHANGED <<socket, dispatching, ready, served, waiting, held, sent, history, status>>
-----------------------------------------------------------------------------
(* The rest of the program. *)

ReplyLater(c) ==
  /\ status = "running" /\ c \in held
  /\ held' = held \ {c} /\ Answers(c)
  /\ UNCHANGED <<loop, served, waiting, sent, ran, authorized, question, dropped, status>>

KeepsPending(id) ==
  /\ status = "running"
  /\ \E s \in pending_property_set : s.id = id /\ Answers(s.call)
  /\ UNCHANGED <<loop, served, waiting, held, sent, ran, authorized, question, dropped, status>>

(* Of a change that was answered already the id is no longer found.          *)
g_dbus_pending_property_success(id) ==
  /\ status = "running"
  /\ \E s \in pending_property_set :
       /\ s.id = id
       /\ pending_property_set' = pending_property_set \ {s}
       /\ Answers(s.call)
  /\ UNCHANGED <<loop, served, pending_security, next_pending, next_pending_property, asked,
                 held, sent, ran, authorized, question, dropped, status>>

RegisterInterface ==
  /\ status = "running" /\ ~served /\ served' = TRUE
  /\ UNCHANGED <<loop, waiting, held, sent, history, status>>

UnregisterInterface ==
  /\ status = "running" /\ served /\ served' = FALSE
  /\ pending_security' = {[s EXCEPT !.live = FALSE] : s \in pending_security}
  /\ UNCHANGED <<loop, next_pending, pending_property_set, next_pending_property, asked, held,
                 sent, history, status>>

SendCall(c, kind) ==
  /\ sent[c] = NULL /\ sent' = [sent EXCEPT ![c] = kind]
  /\ socket' = Append(socket, c)
  /\ UNCHANGED <<inbox, sources, dispatching, ready, served, waiting, held, history, status>>
-----------------------------------------------------------------------------
Init ==
  /\ socket = <<>> /\ inbox = <<>> /\ sources = 0 /\ dispatching = FALSE /\ ready = FALSE
  /\ served = FALSE /\ held = {} /\ sent = [c \in Call |-> NULL]
  /\ pending_security = {} /\ next_pending = 1
  /\ pending_property_set = {} /\ next_pending_property = 1 /\ asked = {}
  /\ answers = [c \in Call |-> 0] /\ ran = {} /\ authorized = {} /\ question = <<>>
  /\ dropped = {} /\ status = "running"

Decides(id) == \E success \in BOOLEAN : Decide(id, success)
PropertyId == 1 .. next_pending_property - 1

Next ==
  \/ setup_bus \/ watch_func \/ Block \/ message_dispatch
  \/ generic_message \/ authorization_reply
  \/ \E id \in DOMAIN question : Decides(id) \/ timeout_handler_dispatch(id)
  \/ \E id \in asked, verdict \in {"yes", "no"} : PolicyKit(id, verdict)
  \/ \E id \in PropertyId : g_dbus_pending_property_success(id)
  \/ \E c \in Call : ReplyLater(c) \/ \E kind \in Kind : SendCall(c, kind)
  \/ RegisterInterface \/ UnregisterInterface

Spec == Init /\ [][Next]_vars

(* The main loop polls its sources, and a question ends with the timeout at  *)
(* the latest. The program is taken to answer what it has accepted.          *)
Ids == 1 .. Cardinality(Call)
FairSpec ==
  /\ Spec
  /\ WF_vars(setup_bus) /\ WF_vars(watch_func) /\ WF_vars(message_dispatch)
  /\ WF_vars(generic_message \/ authorization_reply)
  /\ \A id \in Ids :
       /\ WF_vars(id \in DOMAIN question /\ timeout_handler_dispatch(id))
       /\ WF_vars(id \in DOMAIN question /\ Decides(id))
       /\ WF_vars(id \in PropertyId /\ g_dbus_pending_property_success(id))
  /\ \A c \in Call : WF_vars(ReplyLater(c))
-----------------------------------------------------------------------------
(* No call is answered twice, though the program and PolicyKit may answer    *)
(* late, twice and out of order; and before a call is answered it is in one  *)
(* place only (they are numbered): unread, queued, waiting, held or given up.*)
At(c, i) ==
  \/ i = 1 /\ c \in ToSet(socket)
  \/ i = 2 /\ c \in ToSet(inbox)
  \/ i = 3 /\ c \in held
  \/ i = 4 /\ c \in dropped
  \/ i = 5 /\ answers[c] > 0
  \/ i = 6 /\ \E s \in pending_security : s.call = c
  \/ i = 7 /\ \E s \in pending_property_set : s.call = c
OnePlace == \A c \in Call : \A i, j \in 1 .. 7 : At(c, i) /\ At(c, j) => i = j

AnsweredOnce ==
  /\ OnePlace
  /\ \A c \in Call : answers[c] \in {0, 1} /\ (sent[c] = NULL => answers[c] = 0)

(* The function of a privileged method is only called for a call that was    *)
(* authorized itself, not because another one was.                           *)
OnlyAuthorized == \A c \in ran : sent[c] \in Privileged => c \in authorized

(* Every call is answered in the end, also one that came in before the main  *)
(* loop was connected - unless PolicyKit could not be asked or a function    *)
(* gave no reply, and as long as no removed interface is used.               *)
Answered ==
  \A c \in Call :
    sent[c] \notin {NULL, "noreply"} ~> answers[c] > 0 \/ c \in dropped \/ status # "running"
=============================================================================
