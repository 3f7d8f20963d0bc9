---------------------------- MODULE NodeContext ----------------------------
(***************************************************************************)
(* One NodeContext (_commlib/node_context.py): the connection loop _run()  *)
(* with its two tasks, the outgoing queue, and the topics it subscribes    *)
(* to.  A connection goes through the phases                               *)
(*   connecting   the client connects (__aenter__);                        *)
(*   subscribing  the snapshot of the topics is subscribed one by one;     *)
(*   serving      the drain task publishes, the dispatch task receives;    *)
(*   closing      __aexit__ disconnects, then the finally clause cancels   *)
(*                and gathers the tasks (the drain task runs until then);  *)
(*   backoff      the wait before the next attempt.                        *)
(* The context is fresh before its first start() and idle after a stop().  *)
(***************************************************************************)
EXTENDS Naturals, Sequences

CONSTANTS
    Topics,    \* topic patterns and command topics that may be registered
    Commands,  \* those of them that are command topics
    Invalid,   \* those that the client refuses to subscribe
    MaxSent    \* bound on the messages enqueued

ASSUME NodeAssumption ==
    /\ Commands \subseteq Topics /\ Invalid \subseteq Topics \ Commands
    /\ MaxSent \in Nat

VARIABLES
    phase,     \* where _run() is
    stopped,   \* NodeContext._stopped
    table,     \* keys of _sub_callbacks and _command_table
    todo,      \* topics of the snapshot still to be subscribed
    session,   \* topics the broker has subscribed for this connection
    drain,     \* the drain task: "none", "alive" or "dead"
    inFlight,  \* the message the drain task has taken and is publishing
    outgoing,  \* NodeContext._outgoing
    sent,      \* messages enqueued so far; the n-th is the number n
    out,       \* history: messages that reached the broker
    lostHere   \* history: messages lost on the current connection

loop    == <<phase, stopped>>
topics  == <<table, todo, session>>
outbox  == <<inFlight, outgoing, sent, out, lostHere>>
vars    == <<loop, topics, drain, outbox>>

Init ==
    /\ phase = "fresh" /\ stopped = FALSE
    /\ table = {} /\ todo = {} /\ session = {}
    /\ drain = "none"
    /\ inFlight = <<>> /\ outgoing = <<>> /\ sent = 0 /\ out = <<>>
    /\ lostHere = 0

-----------------------------------------------------------------------------
(* Calls from the gateway, its components and the RPC worker threads.      *)

Start ==
    /\ phase \in {"fresh", "idle"}
    /\ phase' = "connecting" /\ stopped' = FALSE
    /\ UNCHANGED <<topics, drain, outbox>>

\* Mutant of Stop: the flag is set, _run() is not cancelled.
FlagOnly ==
    /\ phase \notin {"fresh", "idle"} /\ ~stopped
    /\ stopped' = TRUE
    /\ UNCHANGED <<phase, topics, drain, outbox>>

\* stop() cancels _run(): it leaves at once unless a connection is open.
Stop ==
    /\ phase \notin {"fresh", "idle"} /\ ~stopped
    /\ stopped' = TRUE
    /\ phase' = IF phase \in {"connecting", "backoff"} THEN "idle" ELSE "closing"
    /\ UNCHANGED <<topics, drain, outbox>>

\* _enqueue_outgoing(): possible as soon as start() has set the event loop.
Enqueue ==
    /\ phase # "fresh" /\ sent < MaxSent
    /\ sent' = sent + 1
    /\ outgoing' = Append(outgoing, sent + 1)
    /\ UNCHANGED <<loop, topics, drain, inFlight, out, lostHere>>

\* create_subscriber() and create_rpc() only enter the topic in a table.
Register(t) ==
    /\ t \notin table
    /\ table' = table \cup {t}
    /\ UNCHANGED <<loop, todo, session, drain, outbox>>

\* Stopping an RPC service removes its topic; a subscriber's pattern stays.
Unregister(t) ==
    /\ t \in table \cap Commands
    /\ table' = table \ {t}
    /\ UNCHANGED <<loop, todo, session, drain, outbox>>

-----------------------------------------------------------------------------
(* The connection loop.                                                    *)

\* The client connects and the topics registered so far are listed.
Connect ==
    /\ phase = "connecting"
    /\ phase' = "subscribing"
    /\ todo' = table /\ session' = {}
    /\ lostHere' = 0
    /\ UNCHANGED <<stopped, table, drain, inFlight, outgoing, sent, out>>

ConnectFails ==
    /\ phase = "connecting"
    /\ phase' = "backoff"
    /\ UNCHANGED <<stopped, topics, drain, outbox>>

\* Mutant of Subscribe: a topic that is refused is passed over.
PassOver(t) ==
    /\ phase = "subscribing" /\ t \in todo
    /\ todo' = todo \ {t} /\ session' = session \cup ({t} \ Invalid)
    /\ UNCHANGED <<loop, table, drain, outbox>>

Subscribe(t) ==
    /\ phase = "subscribing" /\ t \in todo \ Invalid
    /\ todo' = todo \ {t} /\ session' = session \cup {t}
    /\ UNCHANGED <<loop, table, drain, outbox>>

\* subscribe() raises ValueError for a topic that is no valid filter.
Refuse(t) ==
    /\ phase = "subscribing" /\ t \in todo \cap Invalid
    /\ phase' = "closing"
    /\ UNCHANGED <<stopped, topics, drain, outbox>>

StartTasks ==
    /\ phase = "subscribing" /\ todo = {}
    /\ phase' = "serving" /\ drain' = "alive"
    /\ UNCHANGED <<stopped, topics, outbox>>

\* A subscribe or the dispatch task ends with an MqttError.
Disconnect ==
    /\ phase \in {"subscribing", "serving"}
    /\ phase' = "closing"
    /\ UNCHANGED <<stopped, topics, drain, outbox>>

\* What becomes of the message in flight when its publish is interrupted.
Interrupted ==
    \/ out' = out \o inFlight /\ UNCHANGED lostHere
    \/ lostHere' = lostHere + Len(inFlight) /\ UNCHANGED out

\* Mutant of Finish: the finally clause cancels no task.
LeaveTasks ==
    /\ phase = "closing"
    /\ todo' = {} /\ session' = {}
    /\ phase' = IF stopped THEN "idle" ELSE "backoff"
    /\ UNCHANGED <<stopped, table, drain, outbox>>

\* The finally clause, and the way on: leave or back off.
Finish ==
    /\ phase = "closing"
    /\ Interrupted
    /\ inFlight' = <<>> /\ drain' = "none"
    /\ todo' = {} /\ session' = {}
    /\ phase' = IF stopped THEN "idle" ELSE "backoff"
    /\ UNCHANGED <<stopped, table, outgoing, sent>>

\* The head of the while loop.
Retry ==
    /\ phase = "backoff"
    /\ phase' = IF stopped THEN "idle" ELSE "connecting"
    /\ UNCHANGED <<stopped, topics, drain, outbox>>

-----------------------------------------------------------------------------
(* The drain task.                                                         *)

Take ==
    /\ drain = "alive" /\ inFlight = <<>> /\ outgoing # <<>>
    /\ inFlight' = <<Head(outgoing)>> /\ outgoing' = Tail(outgoing)
    /\ UNCHANGED <<loop, topics, drain, sent, out, lostHere>>

Publish ==
    /\ drain = "alive" /\ inFlight # <<>>
    /\ out' = out \o inFlight /\ inFlight' = <<>>
    /\ UNCHANGED <<loop, topics, drain, outgoing, sent, lostHere>>

\* Mutant of PublishFails: the failed message goes back to the queue.
Requeue ==
    /\ drain = "alive" /\ inFlight # <<>>
    /\ Interrupted
    /\ outgoing' = outgoing \o inFlight
    /\ inFlight' = <<>> /\ drain' = "dead"
    /\ phase' = "closing"
    /\ UNCHANGED <<stopped, topics, sent>>

\* Mutant of PublishFails: the drain task logs the failure and goes on.
KeepDraining ==
    /\ drain = "alive" /\ inFlight # <<>>
    /\ Interrupted
    /\ inFlight' = <<>>
    /\ UNCHANGED <<loop, topics, drain, outgoing, sent>>

\* Mutant of PublishFails: _run() waits until both tasks have ended.
DieUnnoticed ==
    /\ drain = "alive" /\ inFlight # <<>>
    /\ Interrupted
    /\ inFlight' = <<>> /\ drain' = "dead"
    /\ UNCHANGED <<loop, topics, outgoing, sent>>

\* publish() raises: the drain task ends, and with it the connection.
PublishFails ==
    /\ drain = "alive" /\ inFlight # <<>>
    /\ Interrupted
    /\ inFlight' = <<>> /\ drain' = "dead"
    /\ phase' = "closing"
    /\ UNCHANGED <<stopped, topics, outgoing, sent>>

-----------------------------------------------------------------------------
Network == Connect \/ ConnectFails \/ Disconnect
Loop    == StartTasks \/ Finish \/ Retry \/ \E t \in Topics : Subscribe(t) \/ Refuse(t)
Drain   == Take \/ Publish \/ PublishFails
Host    == Start \/ Stop \/ Enqueue \/ \E t \in Topics : Register(t) \/ Unregister(t)

Next == Network \/ Loop \/ Drain \/ Host

Spec == Init /\ [][Next]_vars

\* The event loop runs the connection loop and the drain task; disconnecting,
\* subscribing, publishing and the backoff take bounded time.  The broker need
\* not ever accept a connection.
FairSpec ==
    /\ Spec
    /\ WF_vars(Loop) /\ WF_vars(Drain)

-----------------------------------------------------------------------------
(* Properties.                                                             *)

\* Type invariant; the tasks exist only while a connection is open, and a
\* message is in flight only in a drain task that runs.
TypeOK ==
    /\ phase \in {"fresh", "connecting", "subscribing", "serving", "closing",
                  "backoff", "idle"}
    /\ stopped \in BOOLEAN
    /\ table \subseteq Topics /\ todo \subseteq Topics /\ session \subseteq Topics
    /\ drain \in {"none", "alive", "dead"}
    /\ drain # "none" => phase \in {"serving", "closing"}
    /\ inFlight \in Seq(Nat) /\ Len(inFlight) <= 1
    /\ inFlight # <<>> => drain = "alive"
    /\ outgoing \in Seq(Nat)
    /\ sent \in Nat /\ out \in Seq(Nat) /\ lostHere \in Nat

\* The abstract outbox: the message in flight is still the head of its queue.
Box == INSTANCE Outbox WITH queue <- inFlight \o outgoing

\* The connection loop and the drain task implement the outbox across any
\* number of connections, failures and restarts of the context.
ImplementsOutbox == Box!Spec

\* The broker receives the messages in the order they were enqueued, each at
\* most once, across reconnects.
InOrder == Box!InOrder

\* A broken connection costs at most one message: the one in flight.
AtMostOneLost == lostHere <= 1

\* A connection that lasts empties the queue.
Drains == <>[](phase = "serving") => <>[](outgoing = <<>> /\ inFlight = <<>>)

\* stop() ends the connection loop, whatever the broker does.
StopEnds == stopped ~> (phase = "idle" \/ ~stopped)

\* One invalid pattern is enough: a connection that begins with it among the
\* registered ones never serves, nor does any later one of this context, for a
\* subscriber's pattern never leaves the table (node_context.py:110).
Poisoned ==
    [](phase = "connecting" /\ table \cap Invalid # {} => [](phase # "serving"))

\* Every registered topic is subscribed while the connection serves
\* (create_subscriber() returns a live subscriber).
SubscribedWhileServing == phase = "serving" => table \subseteq session
=============================================================================
