----------------------------- MODULE Forwarding -----------------------------
(***************************************************************************)
(* The components that forward what the application produces: notifier,    *)
(* status updates, market events and log records (gateway/notifier.py,     *)
(* status.py, market_events.py, log_handler.py).  Each registers with the  *)
(* application or with a logger when the gateway starts and withdraws when *)
(* it stops; the host loads strategies, asks for market events and patches *)
(* loggers at any time (hb_compat/mqtt_gateway.py), also between the two   *)
(* halves of a restart.  A registration that raises is skipped, and so is  *)
(* the notifier's withdrawal; the other two are undone by the app's adapter *)
(* (hb_compat/adapter.py), which never raises.                             *)
(***************************************************************************)
EXTENDS Naturals

CONSTANTS
    Loggers,    \* named loggers the host may patch
    MaxLoaded,  \* bound on the strategy-loaded callbacks that accumulate
    MaxRefused  \* bound on the withdrawals the app refuses

Root == "root"

ASSUME ForwardingAssumption ==
    MaxLoaded \in Nat /\ MaxRefused \in Nat /\ Root \notin Loggers

VARIABLES
    running,    \* the components are started
    publishing, \* MQTTMarketEventForwarder has a publisher
    notifiers,  \* how often MQTTNotifier is in the app's notification chain
    status,     \* MQTTStatusUpdates: its listeners in the app and _unsubscribe
    market,     \* MQTTMarketEventForwarder: likewise, and _subscribed
    loaded,     \* its strategy-loaded callbacks in the app
    handlers,   \* loggers that have the MQTTLogHandler
    attached,   \* MQTTLogHandler._attached
    refused,    \* history: how often the app refused to unregister it
    announced,  \* history: the forwarder was asked for events, with an app that
                \* accepts callbacks, since it was started
    patched     \* history: loggers patched since they were stopped

components == <<publishing, notifiers, refused, status, market, loaded>>
logging    == <<handlers, attached>>
vars       == <<running, components, logging, announced, patched>>

Init ==
    /\ running = FALSE /\ publishing = FALSE
    /\ notifiers = 0 /\ refused = 0 /\ loaded = 0
    /\ status = [listeners |-> 0, undo |-> FALSE]
    /\ market = [callbacks |-> 0, undo |-> FALSE, subscribed |-> FALSE]
    /\ handlers = {} /\ attached = {}
    /\ announced = FALSE /\ patched = {}

-----------------------------------------------------------------------------
(* The gateway starts and stops its components.                            *)

\* The publisher is there when the registration with the app raises.
StartNotifier == notifiers' \in {notifiers, notifiers + 1}

StartStatus ==
    status' \in {status, [listeners |-> status.listeners + 1, undo |-> TRUE]}

StartMarketEvents ==
    /\ publishing' = TRUE
    /\ loaded < MaxLoaded /\ loaded' \in {loaded, loaded + 1}

StartLogHandler == handlers' = handlers \cup {Root}

StartComponents ==
    /\ ~running /\ running' = TRUE
    /\ StartNotifier /\ StartStatus /\ StartMarketEvents /\ StartLogHandler
    /\ UNCHANGED <<refused, market, attached, announced, patched>>

Withdrawn(listeners, undo) == IF undo THEN listeners - 1 ELSE listeners

\* When the app raises, the notifier stays registered, perhaps to be registered
\* once more by the next start().
StopNotifier ==
    \/ notifiers' = Withdrawn(notifiers, notifiers > 0) /\ UNCHANGED refused
    \/ /\ notifiers > 0 /\ refused < MaxRefused
       /\ refused' = refused + 1 /\ UNCHANGED notifiers

\* Mutant of StopStatus: only the publisher is stopped.
KeepListener == status' = [status EXCEPT !.undo = FALSE]

StopStatus ==
    status' = [listeners |-> Withdrawn(status.listeners, status.undo), undo |-> FALSE]

\* Mutant of StopMarketEvents: _subscribed is not reset.
KeepSubscribed ==
    /\ publishing' = FALSE
    /\ market' = [market EXCEPT !.callbacks = Withdrawn(@, market.undo),
                                !.undo = FALSE]

\* The strategy-loaded callback stays with the app.
StopMarketEvents ==
    /\ publishing' = FALSE
    /\ market' = [callbacks  |-> Withdrawn(market.callbacks, market.undo),
                  undo       |-> FALSE,
                  subscribed |-> FALSE]

StopLogHandler ==
    /\ handlers' = handlers \ (attached \cup {Root})
    /\ attached' = {}

StopComponents ==
    /\ running /\ running' = FALSE
    /\ StopNotifier /\ StopStatus /\ StopMarketEvents /\ StopLogHandler
    /\ announced' = FALSE /\ patched' = {}
    /\ UNCHANGED loaded

-----------------------------------------------------------------------------
(* The host.                                                               *)

Forward == [callbacks |-> market.callbacks + 1, undo |-> TRUE, subscribed |-> TRUE]

\* Mutant of SubscribeNow: the guard on _subscribed is missing.
SubscribeAgain ==
    /\ publishing /\ market.callbacks < 2
    /\ market' = Forward /\ announced' = TRUE

\* subscribe_now(); the app accepts the callback or raises.
SubscribeNow ==
    \E accepts \in BOOLEAN :
        /\ market' = IF publishing /\ ~market.subscribed /\ accepts
                     THEN Forward ELSE market
        /\ announced' = (announced \/ (publishing /\ accepts))

\* The strategy is loaded: the callbacks of this and of earlier starts are
\* called, once or each time.  Called in a row, they do what the first one that
\* the app accepts does.
StrategyLoads ==
    /\ loaded > 0
    /\ SubscribeNow
    /\ loaded' \in {0, loaded}
    /\ UNCHANGED <<running, publishing, notifiers, refused, status, logging, patched>>

StartMarketEventsFw ==
    /\ SubscribeNow
    /\ UNCHANGED <<running, publishing, notifiers, refused, status, loaded, logging,
                   patched>>

\* Mutant of PatchLogger: the name is not recorded.
AttachOnly(n) ==
    /\ handlers' = handlers \cup {n} /\ patched' = patched \cup {n}
    /\ UNCHANGED <<running, components, attached, announced>>

\* Allowed while the gateway is down, too.
PatchLogger(n) ==
    /\ handlers' = handlers \cup {n} /\ attached' = attached \cup {n}
    /\ patched' = patched \cup {n}
    /\ UNCHANGED <<running, components, announced>>

Next ==
    \/ StartComponents \/ StopComponents
    \/ StrategyLoads \/ StartMarketEventsFw
    \/ \E n \in Loggers : PatchLogger(n)

Spec == Init /\ [][Next]_vars

-----------------------------------------------------------------------------
(* Properties.                                                             *)

\* Type invariant; only what the components still hold an undo for is registered,
\* and the notifier.
TypeOK ==
    /\ running \in BOOLEAN /\ publishing = running
    /\ refused \in 0..MaxRefused /\ notifiers \in 0..(MaxRefused + 1)
    /\ loaded \in 0..MaxLoaded
    /\ status \in [listeners : {0, 1}, undo : BOOLEAN]
    /\ market \in [callbacks : {0, 1}, undo : BOOLEAN, subscribed : BOOLEAN]
    /\ (status.undo <=> status.listeners = 1) /\ (market.undo <=> market.callbacks = 1)
    /\ handlers \subseteq Loggers \cup {Root} /\ attached \subseteq Loggers
    /\ announced \in BOOLEAN /\ patched \subseteq Loggers

\* A stopped gateway hears nothing more of the app: after any sequence of
\* starts, failed registrations and restarts no listener is left behind, and the
\* notifier no more often than the app refused to let it go.
Silent ==
    ~running => status.listeners + market.callbacks = 0 /\ notifiers <= refused

\* Market events are forwarded exactly once, from the first request the app is
\* ready for until the components are stopped, however many strategy-loaded
\* callbacks have accumulated and whichever of the two paths asks.
ForwardedOnce ==
    market.callbacks = IF announced THEN 1 ELSE 0

\* stop() finds every logger that was patched, before or after start().
HandlersKnown ==
    handlers \ {Root} = patched /\ (Root \in handlers <=> running)
=============================================================================
