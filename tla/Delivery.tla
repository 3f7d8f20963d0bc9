------------------------------ MODULE Delivery ------------------------------
(***************************************************************************)
(* How an inbound message reaches its listeners: the subscription table of *)
(* NodeContext and _dispatch_incoming() (_commlib/node_context.py), the    *)
(* subscribers of the external API (external/topics.py, listeners.py,      *)
(* events.py), the component MQTTExternalEvents (gateway/external_events.py) *)
(* and the event bus on which it republishes (hb_compat/event_bus_adapter.py). *)
(* The component passes events to the adapter of the app, which calls the  *)
(* handlers the host registered there (hb_compat/adapter.py).  The callbacks *)
(* of a message run one after the other; each may create and remove        *)
(* listeners and register handlers while the others wait.                  *)
(***************************************************************************)
EXTENDS TopicRouting

CONSTANTS
    Topics,     \* topics on which messages arrive
    Patterns,   \* patterns that topic listeners and queues subscribe to
    External,   \* the pattern of MQTTExternalEvents, "external/+"
    Subs,       \* subscribers of topic listeners and queues
    Listeners,  \* event listeners: a callback and an event name
    Registrations,  \* registrations of handlers with the adapter, each made
                    \* once: a handler registered twice makes two of them
    EventOf,    \* EventOf[k]: the topic of the event k listens to
    None

ASSUME DeliveryAssumption ==
    /\ External \in Patterns
    /\ EventOf \in [Listeners -> Topics]
    /\ IsFiniteSet(Subs)
    /\ None \notin Patterns

Component == "external events"   \* the subscriber of MQTTExternalEvents
App       == "app"               \* the host app's own handle_external_event()
Republish == "republish"         \* the component's publish_event() after them

\* Patterns are topic filters, topics are names, and there are enough topics to
\* tell two patterns apart: whoever publishes may use any level.
ASSUME RoutingAssumption ==
    /\ \A p \in Patterns : p \in Seq(STRING) /\ WellFormed(p)
    /\ \A t \in Topics : t \in Seq(STRING) /\ \A i \in DOMAIN t : t[i] \notin Wildcards
    /\ \A p \in Patterns :
          /\ \E t \in Topics : Len(t) = Len(p) /\ Typical(t, p, Patterns)
          /\ HasHash(p) =>
                \E t \in Topics : Len(t) = Len(p) - 1 /\ Typical(t, p, Patterns)

ASSUME CallbacksDiffer ==
    /\ Subs \cap Registrations = {}
    /\ {Component, App, Republish} \cap (Subs \cup Registrations \cup Listeners) = {}
    /\ Listeners \cap (Subs \cup Registrations) = {}

VARIABLES
    order,      \* keys of _sub_callbacks, oldest first
    callbacks,  \* _sub_callbacks
    patternOf,  \* the pattern of a subscriber; None before it is created
    live,       \* subscribers that are started
    here,       \* subscribers created on the current NodeContext
    running,    \* MQTTExternalEvents is started
    connected,  \* MQTTGateway._running: the dispatch task of the NodeContext runs
    bus,        \* bus[k]: handlers of listener k on the current event bus
    registry,   \* _dispatch_registry: whether k is there, and for which bus
    stray,      \* history: listeners that were created again before they were
                \* removed, on the current bus
    handlers,   \* HummingbotAppAdapter._external_event_handlers, as registrations
    pending,    \* callbacks still to be called for the message in dispatch
    topic,      \* its topic
    heard,      \* history: who has been called for it
    asked       \* history: who was on a list of callbacks when its turn began

table    == <<order, callbacks>>
subs     == <<patternOf, live, here>>
gateway  == <<running, connected>>
events   == <<bus, registry, stray, handlers>>
dispatch == <<pending, topic, heard, asked>>
vars     == <<table, subs, gateway, events, dispatch>>

Init ==
    /\ order = <<>> /\ callbacks = [p \in Patterns |-> <<>>]
    /\ patternOf = [s \in Subs |-> None] /\ live = {} /\ here = {}
    /\ running = FALSE /\ connected = FALSE
    /\ bus = [k \in Listeners |-> 0]
    /\ registry = [k \in Listeners |-> "none"] /\ stray = {}
    /\ handlers = <<>>
    /\ pending = <<>> /\ topic = None /\ heard = {} /\ asked = {}

-----------------------------------------------------------------------------
(* The table.                                                              *)

Elements(s) == {s[i] : i \in DOMAIN s}

Registered == Elements(order)

\* Subscriber._do_start(): setdefault(topic, []).append(callback).
Enter(ord, cbs, s, p) ==
    /\ order' = IF p \in Elements(ord) THEN ord ELSE Append(ord, p)
    /\ callbacks' = [cbs EXCEPT ![p] = Append(@, s)]

\* list.remove(), where there is something to remove: the first occurrence.
Without(l, x) ==
    IF x \notin Elements(l) THEN l
    ELSE LET k == CHOOSE i \in DOMAIN l : l[i] = x /\ \A j \in 1..(i - 1) : l[j] # x
         IN  SubSeq(l, 1, k - 1) \o SubSeq(l, k + 1, Len(l))

\* Subscriber._do_stop(): the callback leaves the list, the key stays.
Leave(s, p) ==
    /\ callbacks' = [callbacks EXCEPT ![p] = Without(@, s)]
    /\ UNCHANGED order

Matching(t) == {i \in DOMAIN order : TopicMatches(order[i], t)}

\* The position of the pattern that gets a message: the most specific that
\* matches, the oldest of those that are equally specific.
Chosen(t) ==
    {i \in Matching(t) : \A j \in Matching(t) :
        /\ ~MoreSpecific(order[j], order[i])
        /\ j < i => MoreSpecific(order[i], order[j])}

-----------------------------------------------------------------------------
(* The gateway starts and stops its component.                             *)

\* start() keeps the NodeContext.  restart() builds a new one, whose table and
\* event bus are empty: what the host created on the old one stays there.
StartGateway(new) ==
    /\ ~connected
    /\ running' = TRUE /\ connected' = TRUE
    /\ IF new
       THEN /\ Enter(<<>>, [p \in Patterns |-> <<>>], Component, External)
            /\ here' = {}
            /\ bus' = [k \in Listeners |-> 0]
            /\ registry' = [k \in Listeners |->
                  IF registry[k] = "none" THEN "none" ELSE "gone"]
            /\ stray' = {} /\ UNCHANGED handlers
       ELSE Enter(order, callbacks, Component, External)
            /\ UNCHANGED <<here, events>>
    /\ UNCHANGED <<patternOf, live, dispatch>>

\* stop() first stops the component, between two messages.
StopGateway ==
    /\ running /\ pending = <<>> /\ running' = FALSE
    /\ Leave(Component, External)
    /\ UNCHANGED <<connected, subs, events, dispatch>>

\* NodeContext.stop() has cancelled the dispatch task, and stop() returns; until
\* then messages go on to be delivered to the host's listeners.
Disconnect ==
    /\ connected /\ ~running /\ pending = <<>> /\ connected' = FALSE
    /\ UNCHANGED <<running, table, subs, events, dispatch>>

-----------------------------------------------------------------------------
(* The host's listeners and queues.                                        *)

\* ETopicListener, ETopicQueueFactory and EEventQueueFactory.
Subscribe(s, p) ==
    /\ patternOf[s] = None
    /\ patternOf' = [patternOf EXCEPT ![s] = p]
    /\ live' = live \cup {s} /\ here' = here \cup {s}
    /\ Enter(order, callbacks, s, p)
    /\ UNCHANGED <<gateway, events, dispatch>>

\* Mutant of Unsubscribe: the callback is not taken out of the table.
MarkStopped(s) ==
    /\ s \in live
    /\ live' = live \ {s}
    /\ UNCHANGED <<table, patternOf, here, gateway, events, dispatch>>

\* Mutant of Unsubscribe: the dispatch runs over the list itself, and passes
\* over the callback after one that is taken out.
SkipNext(s) ==
    /\ s \in live
    /\ live' = live \ {s}
    /\ Leave(s, patternOf[s])
    /\ pending' = IF s \in heard /\ pending # <<>> THEN Tail(pending) ELSE pending
    /\ UNCHANGED <<patternOf, here, gateway, events, topic, heard, asked>>

Unsubscribe(s) ==
    /\ s \in live
    /\ live' = live \ {s}
    /\ IF s \in here THEN Leave(s, patternOf[s]) ELSE UNCHANGED table
    /\ UNCHANGED <<patternOf, here, gateway, events, dispatch>>

BusSubscribe(k)   == bus' = [bus EXCEPT ![k] = @ + 1]
BusUnsubscribe(k) == bus' = [bus EXCEPT ![k] = @ - 1]

MaxHandlers == 2   \* bound on the handlers of a listener

\* EEventListenerFactory.create(): a new handler on the bus, entered in the
\* registry in place of the one that may be there, which is forgotten.
CreateListener(k) ==
    /\ bus[k] < MaxHandlers
    /\ BusSubscribe(k)
    /\ registry' = [registry EXCEPT ![k] = "here"]
    /\ stray' = IF registry[k] = "here" THEN stray \cup {k} ELSE stray
    /\ UNCHANGED <<table, subs, gateway, handlers, dispatch>>

\* Mutant of RemoveListener: only the registry forgets the handler.
ForgetListener(k) ==
    /\ registry[k] # "none"
    /\ registry' = [registry EXCEPT ![k] = "none"]
    /\ UNCHANGED <<bus, stray, table, subs, gateway, handlers, dispatch>>

\* EEventListenerFactory.remove(): the handler in the registry leaves the
\* current bus, if it is there.
RemoveListener(k) ==
    /\ registry[k] # "none"
    /\ registry' = [registry EXCEPT ![k] = "none"]
    /\ IF registry[k] = "here" THEN BusUnsubscribe(k) ELSE UNCHANGED bus
    /\ UNCHANGED <<stray, table, subs, gateway, handlers, dispatch>>

\* register_external_event_handler(), with the adapter: for good.
RegisterHandler(h) ==
    /\ h \notin Elements(handlers)
    /\ handlers' = Append(handlers, h)
    /\ UNCHANGED <<table, subs, gateway, bus, registry, stray, dispatch>>

-----------------------------------------------------------------------------
(* _dispatch_incoming(), one message at a time.                            *)

\* Mutant of Receive: a message goes to every pattern that matches (here two).
ReceiveTwice(t) ==
    /\ connected /\ pending = <<>>
    /\ topic' = t /\ heard' = {}
    /\ \E i, j \in Matching(t) :
          i # j /\ pending' = callbacks[order[i]] \o callbacks[order[j]]
    /\ asked' = Elements(pending')
    /\ UNCHANGED <<table, subs, gateway, events>>

\* A message arrives: the list of callbacks is copied before any is called.
Receive(t) ==
    /\ connected /\ pending = <<>>
    /\ topic' = t /\ heard' = {}
    /\ \/ \E i \in Chosen(t) : pending' = callbacks[order[i]]
       \/ Chosen(t) = {} /\ pending' = <<>>
    /\ asked' = Elements(pending')
    /\ UNCHANGED <<table, subs, gateway, events>>

\* The next callback: a listener's, a handler's, the app's or the component's.
\* The component has the adapter copy its list of handlers and call them and the
\* app; then it republishes.  An exception ends the callback that raises it.
Call ==
    /\ pending # <<>> /\ Head(pending) # Republish
    /\ heard' = heard \cup {Head(pending)}
    /\ LET turn == IF Head(pending) = Component THEN Append(handlers, App) ELSE <<>>
       IN  /\ asked' = asked \cup Elements(turn)
           /\ pending' = turn \o (IF turn # <<>> THEN <<Republish>> ELSE <<>>)
                               \o Tail(pending)
    /\ UNCHANGED <<table, subs, gateway, events, topic>>

\* publish_event(): every handler of the event's listeners is called.
PublishEvent ==
    /\ pending # <<>> /\ Head(pending) = Republish
    /\ heard' = heard \cup {k \in Listeners : EventOf[k] = topic /\ bus[k] > 0}
    /\ pending' = Tail(pending)
    /\ UNCHANGED <<table, subs, gateway, events, topic, asked>>

Next ==
    \/ \E new \in BOOLEAN : StartGateway(new)
    \/ StopGateway \/ Disconnect
    \/ \E s \in Subs : Unsubscribe(s) \/ \E p \in Patterns : Subscribe(s, p)
    \/ \E k \in Listeners : CreateListener(k) \/ RemoveListener(k)
    \/ \E h \in Registrations : RegisterHandler(h)
    \/ \E t \in Topics : Receive(t)
    \/ Call \/ PublishEvent

Spec == Init /\ [][Next]_vars

-----------------------------------------------------------------------------
(* Properties.                                                             *)

Everyone == Subs \cup {Component}
Called   == Everyone \cup Registrations \cup {App}
Uses(s)  == IF s = Component THEN External ELSE patternOf[s]
Active   == (live \cap here) \cup (IF running THEN {Component} ELSE {})

\* Type invariant; the table of the current context holds the callback of
\* exactly the subscribers that are started on it, each once.
TypeOK ==
    /\ order \in Seq(Patterns) /\ Len(order) = Cardinality(Registered)
    /\ callbacks \in [Patterns -> Seq(Everyone)]
    /\ \A p \in Patterns, s \in Everyone :
          Cardinality({i \in DOMAIN callbacks[p] : callbacks[p][i] = s})
              = IF s \in Active /\ Uses(s) = p THEN 1 ELSE 0
    /\ \A p \in Patterns : callbacks[p] # <<>> => p \in Registered
    /\ patternOf \in [Subs -> Patterns \cup {None}]
    /\ live \subseteq Subs /\ here \subseteq Subs
    /\ connected \in BOOLEAN /\ running \in {FALSE, connected}
    /\ bus \in [Listeners -> 0..MaxHandlers] /\ stray \subseteq Listeners
    /\ registry \in [Listeners -> {"none", "here", "gone"}]
    /\ handlers \in Seq(Registrations)
    /\ pending \in Seq(Called \cup {Republish})
    /\ topic \in Topics \cup {None}
    /\ heard \subseteq Called \cup Listeners /\ asked \subseteq Called

\* A topic is routed as MQTT says: to a registered pattern that covers it, if
\* there is one, and to none that is wider than another that covers it.  Only
\* patterns that end in "#" and have as many literals rank alike, as a/# and
\* a/+/# do, though one is wider: of them the older gets the message.
RoutesToNarrowest ==
    \A t \in Topics :
        LET covering == {p \in Registered : Covers(p, t)}
        IN  IF covering = {} THEN Chosen(t) = {}
            ELSE \E i \in Chosen(t) :
                    /\ Chosen(t) = {i} /\ order[i] \in covering
                    /\ \A p \in covering :
                          Narrower(p, order[i], Topics) =>
                             /\ HasHash(p) /\ HasHash(order[i])
                             /\ Literals(p) = Literals(order[i])

\* No message is delivered through two overlapping subscriptions.
OnePattern ==
    \A s1, s2 \in heard \cap Everyone : Uses(s1) = Uses(s2)

\* Every callback that is on a list when the list's turn in a message begins is
\* called for it, and called once, though the callbacks before it change the
\* lists (node_context.py:189, adapter.py:221); the event is republished last.
CalledOnce ==
    LET waiting == Elements(pending) \ {Republish}
    IN  /\ (heard \cap Called) \cup waiting = asked
        /\ heard \cap waiting = {}
        /\ Len(pending) = Cardinality(Elements(pending))
        /\ \A i \in DOMAIN pending : pending[i] = Republish =>
              \A j \in i..Len(pending) : pending[j] \notin Registrations \cup {App}

\* Exactly the listeners that were created on the running event bus and not
\* removed have a handler there that the registry knows, and an event reaches
\* them once; but one that is created again keeps the forgotten handler, which no
\* removal takes off the bus (events.py:139, where the entry is replaced).
BusMatchesRegistry ==
    \A k \in Listeners :
        bus[k] = (IF registry[k] = "here" THEN 1 ELSE 0) + (IF k \in stray THEN 1 ELSE 0)

\* A topic that a started subscriber covers reaches a started subscriber: a
\* stopped one keeps nothing from the others.
StoppedReleases ==
    \A t \in Topics :
        (\E s \in Active : Covers(Uses(s), t))
            => \E i \in Chosen(t) : callbacks[order[i]] # <<>>
=============================================================================
