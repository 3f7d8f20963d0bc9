----------------------------- MODULE Publishing -----------------------------
(***************************************************************************)
(* Outbound messages on their way to the broker: the components of         *)
(* Forwarding call their publisher from the event loop and from the worker *)
(* threads that carry out commands (gateway/notifier.py, status.py,        *)
(* market_events.py, log_handler.py), the host sends through publishers of *)
(* its own (external/publishers.py), and all of them put their messages on *)
(* the queue of the NodeContext they are bound to                          *)
(* (_commlib/wrappers/publisher.py, endpoint.py).  A component is bound to *)
(* the current context while it is started, a publisher of the host to the *)
(* context it was created on, for good; restart() replaces the context     *)
(* (gateway/gateway.py).  A context is what Outbox says: ordered, lossy.   *)
(*                                                                         *)
(* A thread that publishes can be preempted where the interpreter switches *)
(* threads (CPython 3.12: at calls and jumps back), so a call has three    *)
(* steps: it looks for the publisher and numbers the notification; it      *)
(* enters publish() and passes its check; it enqueues.                     *)
(***************************************************************************)
EXTENDS Forwarding, Sequences, FiniteSets

CONSTANTS
    Main,        \* the thread of the event loop
    Workers,     \* worker threads
    Outlets,     \* components that publish
    Users,       \* topics the host has publishers for
    MaxContext,  \* bound on the NodeContexts
    MaxMade,     \* bound on the messages
    None

Contexts == 1..MaxContext
Threads  == Workers \cup {Main}

ASSUME PublishingAssumption ==
    /\ MaxContext \in Nat \ {0} /\ MaxMade \in Nat
    /\ Main \notin Workers
    /\ Outlets \subseteq {"notify", "status", "events", "log"}

VARIABLES
    phase,      \* of the gateway; the components are started when it is "up"
    current,    \* MQTTGateway._node_context
    looped,     \* contexts that were started, and so have an event loop
    publisher,  \* the context of the components' publishers, 0 for None
    owned,      \* the context of each of the host's publishers, 0 before it is made
    seq,        \* MQTTNotifier._seq
    made,       \* history: number of messages so far
    held,       \* the message each thread is about to publish, or None
    to,         \* the context on which it will, 0 before publish() is entered
    queue,      \* queue[c]: NodeContext._outgoing
    out,        \* history: messages that reached the broker
    gone,       \* history: messages that never will
    late        \* history: late[t]: messages t enqueued, since the components
                \* were last stopped, on behalf of ones that were stopped

gateway == <<phase, current, looped, publisher>>
making  == <<seq, made>>
hands   == <<held, to>>
fate    == <<out, gone>>
pubVars == <<gateway, owned, making, hands, queue, fate, late>>

PubInit ==
    /\ Init
    /\ phase = "down" /\ current = 1 /\ looped = {} /\ publisher = 0
    /\ owned = [u \in Users |-> 0]
    /\ seq = 0 /\ made = 0
    /\ held = [t \in Threads |-> None] /\ to = [t \in Threads |-> 0]
    /\ queue = [c \in Contexts |-> <<>>]
    /\ out = <<>> /\ gone = {}
    /\ late = [t \in Threads |-> 0]

-----------------------------------------------------------------------------
(* The gateway, on the event loop; a call of the loop's own is over first. *)

\* start() keeps the context, restart() builds one.
StartContext(new) ==
    /\ phase = "down" /\ held[Main] = None
    /\ phase' = "starting"
    /\ new => current < MaxContext
    /\ current' = IF new THEN current + 1 ELSE current
    /\ looped' = looped \cup {current'}
    /\ UNCHANGED <<vars, publisher, owned, making, hands, queue, fate, late>>

\* Mutant of StartPublishers: start() begins the numbering again.
Renumber ==
    /\ phase = "starting" /\ held[Main] = None
    /\ phase' = "up" /\ StartComponents
    /\ publisher' = current /\ seq' = 0
    /\ UNCHANGED <<current, looped, owned, made, hands, queue, fate, late>>

StartPublishers ==
    /\ phase = "starting" /\ held[Main] = None
    /\ phase' = "up" /\ StartComponents
    /\ publisher' = current
    /\ UNCHANGED <<current, looped, owned, making, hands, queue, fate, late>>

\* Mutant of StopPublishers: the components keep their publishers.
KeepPublishers ==
    /\ phase = "up" /\ held[Main] = None
    /\ phase' = "stopping" /\ StopComponents
    /\ late' = [t \in Threads |-> 0]
    /\ UNCHANGED <<current, looped, publisher, owned, making, hands, queue, fate>>

StopPublishers ==
    /\ phase = "up" /\ held[Main] = None
    /\ phase' = "stopping" /\ StopComponents
    /\ publisher' = 0
    /\ late' = [t \in Threads |-> 0]
    /\ UNCHANGED <<current, looped, owned, making, hands, queue, fate>>

StopContext ==
    /\ phase = "stopping" /\ held[Main] = None
    /\ phase' = "down"
    /\ UNCHANGED <<vars, current, looped, publisher, owned, making, hands,
                   queue, fate, late>>

-----------------------------------------------------------------------------
(* A thread publishes through a component.                                 *)

\* Who calls the component: the app it is registered with, or a logger, one
\* thread at a time.
Offered(o) ==
    CASE o = "notify" -> notifiers > 0
      [] o = "status" -> status.listeners > 0
      [] o = "events" -> market.callbacks > 0
      [] o = "log"    -> /\ handlers # {}
                         /\ \A t \in Threads : held[t] # None => held[t].of # "log"

\* add_msg_to_queue(), _on_status_event(), _forward_event(), emit(): no
\* publisher, no message.
Make(t, o) ==
    /\ held[t] = None /\ made < MaxMade
    /\ Offered(o) /\ publisher # 0
    /\ made' = made + 1
    /\ seq' = IF o = "notify" THEN seq + 1 ELSE seq
    /\ held' = [held EXCEPT ![t] =
                   [of |-> o, by |-> t, id |-> made + 1,
                    no |-> IF o = "notify" THEN seq + 1 ELSE 0]]
    /\ UNCHANGED <<vars, gateway, owned, to, queue, fate, late>>

Enters(t) == /\ publisher # 0
             /\ to' = [to EXCEPT ![t] = publisher]
             /\ UNCHANGED <<held, gone>>

\* The publisher is stopped or has become None, whose AttributeError is caught.
Drops(t) == /\ publisher = 0
            /\ held' = [held EXCEPT ![t] = None]
            /\ gone' = gone \cup {held[t]}
            /\ UNCHANGED to

\* Publisher.publish() up to its check of _started.
Enter(t) ==
    /\ held[t] # None /\ to[t] = 0
    /\ Enters(t) \/ Drops(t)
    /\ UNCHANGED <<vars, gateway, owned, making, queue, out, late>>

Late(c) == phase # "up" \/ c # current

Put(c, msg) == queue' = [queue EXCEPT ![c] = Append(@, msg)]

\* The rest of publish(), on the context of the publisher.
Enqueue(t) ==
    /\ to[t] # 0
    /\ Put(to[t], held[t])
    /\ held' = [held EXCEPT ![t] = None] /\ to' = [to EXCEPT ![t] = 0]
    /\ late' = IF Late(to[t]) THEN [late EXCEPT ![t] = @ + 1] ELSE late
    /\ UNCHANGED <<vars, gateway, owned, making, fate>>

-----------------------------------------------------------------------------
(* The host's publishers, on the event loop.                               *)

\* ETopicPublisher(gateway, topic).
Construct(u) ==
    /\ held[Main] = None /\ owned[u] = 0
    /\ owned' = [owned EXCEPT ![u] = current]
    /\ UNCHANGED <<vars, gateway, making, hands, queue, fate, late>>

\* send(); an EMTopicPublisher creates its publisher when it first sends to the
\* topic.  On a context that was never started, or with a dict that JSON cannot
\* express, it fails and is counted.
Send(u) ==
    /\ held[Main] = None /\ made < MaxMade
    /\ owned' = IF owned[u] = 0 THEN [owned EXCEPT ![u] = current] ELSE owned
    /\ made' = made + 1
    /\ LET msg == [of |-> u, by |-> Main, id |-> made + 1, no |-> 0]
       IN  \/ owned'[u] \in looped /\ Put(owned'[u], msg) /\ UNCHANGED gone
           \/ gone' = gone \cup {msg} /\ UNCHANGED queue
    /\ UNCHANGED <<vars, gateway, seq, hands, out, late>>

-----------------------------------------------------------------------------
(* The context delivers, in order, or loses the message in flight.         *)

\* Mutant of Drain: the old context's connection survives a restart.
DrainAny ==
    /\ phase # "down"
    /\ \E c \in looped :
        /\ queue[c] # <<>>
        /\ queue' = [queue EXCEPT ![c] = Tail(@)]
        /\ out' = Append(out, Head(queue[c])) /\ UNCHANGED gone
    /\ UNCHANGED <<vars, gateway, owned, making, hands, late>>

Drain ==
    /\ phase # "down" /\ queue[current] # <<>>
    /\ queue' = [queue EXCEPT ![current] = Tail(@)]
    /\ LET msg == Head(queue[current])
       IN  \/ out' = Append(out, msg) /\ UNCHANGED gone
           \/ gone' = gone \cup {msg} /\ UNCHANGED out
    /\ UNCHANGED <<vars, gateway, owned, making, hands, late>>

-----------------------------------------------------------------------------
Host == \/ StrategyLoads \/ StartMarketEventsFw
        \/ \E n \in Loggers : PatchLogger(n)

PubNext ==
    \/ \E new \in BOOLEAN : StartContext(new)
    \/ StartPublishers \/ StopPublishers \/ StopContext
    \/ Host /\ held[Main] = None /\ UNCHANGED pubVars
    \/ \E t \in Threads : Enter(t) \/ Enqueue(t) \/ \E o \in Outlets : Make(t, o)
    \/ \E u \in Users : Construct(u) \/ Send(u)
    \/ Drain

PubSpec == PubInit /\ [][PubNext]_<<vars, pubVars>>

-----------------------------------------------------------------------------
(* Properties.                                                             *)

Messages ==
    [of : Outlets \cup Users, by : Threads, id : 1..MaxMade, no : 0..MaxMade]

ASSUME NoneIsNoMessage == None \notin Messages

\* Type invariant; the components publish on the current context, and only
\* while they are started.
PubTypeOK ==
    /\ phase \in {"down", "starting", "up", "stopping"}
    /\ running = (phase = "up")
    /\ current \in Contexts /\ looped \subseteq 1..current
    /\ phase # "down" => current \in looped
    /\ publisher = IF running THEN current ELSE 0
    /\ owned \in [Users -> 0..current]
    /\ made \in 0..MaxMade /\ seq \in 0..made
    /\ held \in [Threads -> Messages \cup {None}]
    /\ to \in [Threads -> 0..current]
    /\ \A t \in Threads : to[t] # 0 => held[t] # None /\ to[t] \in looped
    /\ queue \in [Contexts -> Seq(Messages)]
    /\ out \in Seq(Messages) /\ gone \subseteq Messages
    /\ late \in [Threads -> Nat]

Carries(msg, n) == msg # None /\ msg.no = n

\* The notifications that carry the number n, wherever they are.
WithThreads(n) == {t \in Threads : Carries(held[t], n)}
OnQueues(n) ==
    UNION {{<<c, i>> : i \in {j \in DOMAIN queue[c] : Carries(queue[c][j], n)}} :
              c \in Contexts}
AtBroker(n) == {i \in DOMAIN out : Carries(out[i], n)}
Lost(n)     == {msg \in gone : Carries(msg, n)}

Copies(n) == Cardinality(WithThreads(n)) + Cardinality(OnQueues(n))
             + Cardinality(AtBroker(n)) + Cardinality(Lost(n))

\* Every number the notifier has given belongs to one notification, which is
\* about to be published, or enqueued once, or delivered once, or gone, though
\* several threads notify and the gateway restarts under them (notifier.py:66).
NumberedOnce == \A n \in 1..seq : Copies(n) = 1

\* The broker receives what one thread published in the order it did, across
\* restarts.
InTurn ==
    \A i, j \in DOMAIN out :
        (i < j /\ out[i].by = out[j].by) => out[i].id < out[j].id

\* When the components are stopped a thread gets rid of the message it holds;
\* after it, until the next stop, no message of the stopped components is
\* enqueued, nor one on a context that has been replaced.
AtMostOneLate == \A t \in Threads : late[t] <= 1
=============================================================================
