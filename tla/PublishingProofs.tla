-------------------------- MODULE PublishingProofs --------------------------
(* Theorems about Forwarding, for any loggers and any bounds, and            *)
(* about Publishing, for any threads, components, publishers of the host, *)
(* contexts and messages.                                                     *)
EXTENDS Publishing, FiniteSetTheorems, TLAPS

-----------------------------------------------------------------------------
(* Registrations: the specification Spec of Forwarding.                      *)
Idle      == [callbacks |-> 0, undo |-> FALSE, subscribed |-> FALSE]
Forwards  == [callbacks |-> 1, undo |-> TRUE, subscribed |-> TRUE]
NoStatus  == [listeners |-> 0, undo |-> FALSE]
HasStatus == [listeners |-> 1, undo |-> TRUE]

\* The notifier is registered for this start, and as often as it was refused.
NotifierOK ==
    /\ refused \in 0..MaxRefused /\ notifiers \in Nat
    /\ notifiers <= refused + 1
    /\ running = FALSE => notifiers <= refused

\* What the components hold of the app: an undo for every registration, all of
\* it made since the start, and the flag that goes with the subscription.
Held ==
    /\ running \in BOOLEAN /\ publishing = running
    /\ NotifierOK
    /\ status \in {NoStatus, HasStatus} /\ (status = HasStatus => running)
    /\ \/ market = Idle /\ announced = FALSE
       \/ market = Forwards /\ announced = TRUE /\ running = TRUE

\* stop() knows the loggers that have the handler.
Known ==
    /\ attached \subseteq Loggers /\ attached = patched
    /\ handlers = attached \cup (IF running THEN {Root} ELSE {})

LoadedOK == loaded \in 0..MaxLoaded

\* Asking again changes nothing; asking first adds the one callback.
LEMMA SubscribeNowHolds ==
    ASSUME Held, SubscribeNow,
           UNCHANGED <<running, publishing, notifiers, refused, status>>
    PROVE  Held'
<1>0. NotifierOK'
  BY DEF Held, NotifierOK
<1>1. PICK accepts \in BOOLEAN :
        /\ market' = IF publishing /\ ~market.subscribed /\ accepts
                     THEN Forward ELSE market
        /\ announced' = (announced \/ (publishing /\ accepts))
  BY DEF SubscribeNow
<1>2. CASE market = Idle
  <2>1. announced = FALSE /\ ~market.subscribed
    BY <1>2 DEF Held, Idle, Forwards
  <2>2. Forward = Forwards
    <3>1. market.callbacks + 1 = 1
      BY <1>2 DEF Idle
    <3> QED
      BY <3>1 DEF Forward, Forwards
  <2>3. CASE publishing /\ accepts
    <3>1. market' = Forwards
      BY <1>1, <2>1, <2>2, <2>3
    <3>2. announced' = TRUE
      BY <1>1, <2>3, Zenon
    <3>3. running' = TRUE
      BY <2>3 DEF Held
    <3> QED
      BY <1>0, <3>1, <3>2, <3>3 DEF Held
  <2>4. CASE ~(publishing /\ accepts)
    <3>1. market' = Idle
      BY <1>1, <1>2, <2>4
    <3>2. announced' = FALSE
      BY <1>1, <2>1, <2>4
    <3> QED
      BY <1>0, <3>1, <3>2 DEF Held
  <2> QED
    BY <2>3, <2>4
<1>3. CASE market = Forwards
  <2>1. announced = TRUE /\ market.subscribed /\ running = TRUE
    BY <1>3 DEF Held, Idle, Forwards
  <2>2. market' = Forwards
    BY <1>1, <1>3, <2>1
  <2>3. announced' = TRUE
    BY <1>1, <2>1
  <2> QED
    BY <1>0, <2>1, <2>2, <2>3 DEF Held
<1> QED
  BY <1>2, <1>3 DEF Held

LEMMA HeldStep ==
    ASSUME Held, [Next]_vars
    PROVE  Held'
<1>1. CASE StartComponents
  <2>1. ~running /\ status = NoStatus /\ market = Idle
        /\ announced = FALSE
    BY <1>1 DEF StartComponents, Held
  <2>2. running' = TRUE /\ publishing' = TRUE /\ market' = Idle
        /\ announced' = FALSE
    BY <1>1, <2>1 DEF StartComponents, StartMarketEvents
  <2>3. NotifierOK'
    <3>1. refused \in Nat /\ notifiers \in Nat /\ notifiers <= refused
      BY <2>1, ForwardingAssumption DEF Held, NotifierOK, ForwardingAssumption
    <3>2. notifiers' \in {notifiers, notifiers + 1} /\ refused' = refused /\ running' = TRUE
      BY <1>1 DEF StartComponents, StartNotifier
    <3> QED
      BY <3>1, <3>2 DEF Held, NotifierOK
  <2>4. status' \in {NoStatus, HasStatus}
    BY <1>1, <2>1 DEF StartComponents, StartStatus, NoStatus, HasStatus
  <2> QED
    BY <2>2, <2>3, <2>4 DEF Held
<1>2. CASE StopComponents
  <2>1. running' = FALSE /\ publishing' = FALSE /\ announced' = FALSE
    BY <1>2 DEF StopComponents, StopMarketEvents
  <2>2. NotifierOK'
    <3>1. /\ refused \in 0..MaxRefused /\ MaxRefused \in Nat
          /\ notifiers \in Nat /\ notifiers <= refused + 1
      BY ForwardingAssumption DEF Held, NotifierOK, ForwardingAssumption
    <3>2. \/ notifiers' = Withdrawn(notifiers, notifiers > 0) /\ refused' = refused
          \/ refused < MaxRefused /\ refused' = refused + 1 /\ notifiers' = notifiers
      BY <1>2 DEF StopComponents, StopNotifier
    <3>3. notifiers' \in Nat /\ notifiers' <= refused' /\ refused' \in 0..MaxRefused
      BY <3>1, <3>2 DEF Withdrawn
    <3>4. \A n, m \in Nat : n <= m => n <= m + 1
      OBVIOUS
    <3>5. refused' \in Nat
      BY <3>1, <3>3
    <3>6. notifiers' <= refused' + 1
      BY <3>3, <3>4, <3>5
    <3> QED
      BY <3>3, <3>6 DEF NotifierOK
  <2>3. status' = NoStatus
    <3>1. Withdrawn(status.listeners, status.undo) = 0
      BY DEF Withdrawn, Held, NoStatus, HasStatus
    <3> QED
      BY <1>2, <3>1 DEF StopComponents, StopStatus, NoStatus
  <2>4. market' = Idle
    <3>1. Withdrawn(market.callbacks, market.undo) = 0
      BY DEF Withdrawn, Held, Idle, Forwards
    <3> QED
      BY <1>2, <3>1 DEF StopComponents, StopMarketEvents, Idle
  <2>5. NoStatus # HasStatus
    BY DEF NoStatus, HasStatus
  <2>6. status' \in {NoStatus, HasStatus} /\ ~(status' = HasStatus)
    BY <2>3, <2>5
  <2> QED
    BY <2>1, <2>2, <2>4, <2>6 DEF Held
<1>3. CASE StrategyLoads \/ StartMarketEventsFw
  BY <1>3, SubscribeNowHolds DEF StrategyLoads, StartMarketEventsFw
<1>4. CASE (\E n \in Loggers : PatchLogger(n)) \/ UNCHANGED vars
  BY <1>4 DEF Held, NotifierOK, PatchLogger, vars, components
<1> QED
  BY <1>1, <1>2, <1>3, <1>4 DEF Next

LEMMA KnownStep ==
    ASSUME Held, Known, [Next]_vars
    PROVE  Known'
<1> USE ForwardingAssumption DEF ForwardingAssumption
<1>1. CASE StartComponents
  BY <1>1 DEF StartComponents, StartLogHandler, Known, Held
<1>2. CASE StopComponents
  BY <1>2 DEF StopComponents, StopLogHandler, Known, Held
<1>3. CASE StrategyLoads \/ StartMarketEventsFw \/ UNCHANGED vars
  BY <1>3 DEF StrategyLoads, StartMarketEventsFw, vars, logging, Known
<1>4. CASE \E n \in Loggers : PatchLogger(n)
  BY <1>4 DEF PatchLogger, Known
<1> QED
  BY <1>1, <1>2, <1>3, <1>4 DEF Next

LEMMA LoadedStep ==
    ASSUME ForwardingAssumption, LoadedOK, [Next]_vars
    PROVE  LoadedOK'
<1>1. CASE StartComponents
  BY <1>1 DEF StartComponents, StartMarketEvents, LoadedOK, ForwardingAssumption
<1>2. CASE StrategyLoads
  BY <1>2 DEF StrategyLoads, LoadedOK, ForwardingAssumption
<1>3. CASE ~StartComponents /\ ~StrategyLoads
  BY <1>3 DEF Next, StopComponents, StartMarketEventsFw, PatchLogger, vars,
              components, LoadedOK
<1> QED
  BY <1>1, <1>2, <1>3

THEOREM Inductive == Spec => [](Held /\ Known /\ LoadedOK)
<1> USE ForwardingAssumption
<1>1. Init => Held /\ Known /\ LoadedOK
  <2> SUFFICES ASSUME Init PROVE Held /\ Known /\ LoadedOK
    OBVIOUS
  <2>1. status = NoStatus /\ status # HasStatus /\ market = Idle
    BY DEF Init, Idle, NoStatus, HasStatus
  <2>2. Held
    <3>1. /\ running = FALSE /\ publishing = FALSE /\ notifiers = 0
          /\ refused = 0 /\ announced = FALSE
      BY DEF Init
    <3>2. running \in BOOLEAN /\ publishing = running
      BY <3>1
    <3>3. NotifierOK
      BY <3>1 DEF NotifierOK, ForwardingAssumption
    <3>4. status \in {NoStatus, HasStatus} /\ ~(status = HasStatus)
      BY <2>1
    <3> QED
      BY <2>1, <3>1, <3>2, <3>3, <3>4 DEF Held
  <2>3. Known /\ LoadedOK
    BY DEF Init, Known, LoadedOK, ForwardingAssumption
  <2> QED
    BY <2>2, <2>3
<1>2. (Held /\ Known /\ LoadedOK) /\ [Next]_vars => (Held /\ Known /\ LoadedOK)'
  BY HeldStep, KnownStep, LoadedStep
<1> QED
  BY <1>1, <1>2, PTL DEF Spec

\* Every registration is single and can be undone (the four components).
THEOREM ForwardingTypeCorrect == Spec => []TypeOK
<1>1. ASSUME Held, Known, LoadedOK PROVE TypeOK
  <2>1. /\ status \in [listeners : {0, 1}, undo : BOOLEAN]
        /\ (status.undo <=> status.listeners = 1)
    <3>1. CASE status = NoStatus
      <4>1. status.listeners = 0 /\ status.undo = FALSE
        BY <3>1 DEF NoStatus
      <4>2. status \in [listeners : {0, 1}, undo : BOOLEAN]
        BY <3>1 DEF NoStatus
      <4> QED
        BY <4>1, <4>2
    <3>2. CASE status = HasStatus
      <4>1. status.listeners = 1 /\ status.undo = TRUE
        BY <3>2 DEF HasStatus
      <4>2. status \in [listeners : {0, 1}, undo : BOOLEAN]
        BY <3>2 DEF HasStatus
      <4> QED
        BY <4>1, <4>2
    <3> QED
      BY <1>1, <3>1, <3>2 DEF Held
  <2>2. /\ market \in [callbacks : {0, 1}, undo : BOOLEAN, subscribed : BOOLEAN]
        /\ (market.undo <=> market.callbacks = 1)
    <3>1. CASE market = Idle
      <4>1. market.callbacks = 0 /\ market.undo = FALSE
        BY <3>1 DEF Idle
      <4>2. market \in [callbacks : {0, 1}, undo : BOOLEAN, subscribed : BOOLEAN]
        BY <3>1 DEF Idle
      <4> QED
        BY <4>1, <4>2
    <3>2. CASE market = Forwards
      <4>1. market.callbacks = 1 /\ market.undo = TRUE
        BY <3>2 DEF Forwards
      <4>2. market \in [callbacks : {0, 1}, undo : BOOLEAN, subscribed : BOOLEAN]
        BY <3>2 DEF Forwards
      <4> QED
        BY <4>1, <4>2
    <3> QED
      BY <1>1, <3>1, <3>2 DEF Held
  <2>3. handlers \subseteq Loggers \cup {Root} /\ attached \subseteq Loggers
    BY <1>1 DEF Known
  <2>4. running \in BOOLEAN /\ publishing = running /\ announced \in BOOLEAN
    BY <1>1 DEF Held
  <2>5. refused \in 0..MaxRefused /\ notifiers \in 0..(MaxRefused + 1)
    BY <1>1, ForwardingAssumption DEF Held, NotifierOK, ForwardingAssumption
  <2> QED
    BY <1>1, <2>1, <2>2, <2>3, <2>4, <2>5 DEF Known, LoadedOK, TypeOK
<1> QED
  BY <1>1, Inductive, PTL

\* A stopped gateway leaves no listener with the app, and its notifier no more
\* often than the app refused to unregister it.
THEOREM StaysSilent == Spec => []Silent
<1>1. ASSUME Held, ~running PROVE status.listeners + market.callbacks = 0
  BY <1>1 DEF Held, Idle, Forwards, NoStatus, HasStatus
<1>2. ASSUME Held, ~running PROVE notifiers <= refused
  BY <1>2, ForwardingAssumption DEF Held, NotifierOK, ForwardingAssumption
<1>3. Held => Silent
  BY <1>1, <1>2 DEF Silent
<1> QED
  BY <1>3, Inductive, PTL

\* Market events are forwarded once from the request to the stop
\* (market_events.py, subscribe_now), for any number of restarts.
THEOREM ForwardsOnce == Spec => []ForwardedOnce
<1>1. Held => ForwardedOnce
  BY DEF Held, ForwardedOnce, Idle, Forwards
<1> QED
  BY <1>1, Inductive, PTL

\* stop() finds every patched logger (log_handler.py, attach and stop).
THEOREM FindsHandlers == Spec => []HandlersKnown
<1>1. Held /\ Known => HandlersKnown
  BY ForwardingAssumption DEF ForwardingAssumption, Held, Known, HandlersKnown
<1> QED
  BY <1>1, Inductive, PTL

-----------------------------------------------------------------------------
(* Publishing implements Forwarding.                                         *)

\* Where the actions of Forwarding happen in a step of Publishing.
LEMMA ForwardingStep ==
    ASSUME PubNext PROVE [Next]_vars
<1>1. CASE \E new \in BOOLEAN : StartContext(new)
  BY <1>1 DEF StartContext
<1>2. CASE StartPublishers
  BY <1>2 DEF StartPublishers, Next
<1>3. CASE StopPublishers
  BY <1>3 DEF StopPublishers, Next
<1>4. CASE StopContext
  BY <1>4 DEF StopContext
<1>5. CASE Host
  BY <1>5 DEF Host, Next
<1>6. CASE \E t \in Threads : Enter(t) \/ Enqueue(t) \/ \E o \in Outlets : Make(t, o)
  BY <1>6 DEF Enter, Enqueue, Make
<1>7. CASE \E u \in Users : Construct(u) \/ Send(u)
  BY <1>7 DEF Construct, Send
<1>8. CASE Drain
  BY <1>8 DEF Drain
<1> QED
  BY <1>1, <1>2, <1>3, <1>4, <1>5, <1>6, <1>7, <1>8 DEF PubNext

\* Publishing implements Forwarding: registration and withdrawal keep their
\* guarantees among the threads that publish and the restarts of the gateway
\* (gateway.py, start() and stop()).
THEOREM ImplementsForwarding == PubSpec => Spec
<1>1. PubInit => Init
  BY DEF PubInit
<1>2. [PubNext]_<<vars, pubVars>> => [Next]_vars
  BY ForwardingStep
<1> QED
  BY <1>1, <1>2, PTL DEF PubSpec, Spec

\* A gateway that is down has left nothing behind while its threads published.
THEOREM PublishingStaysSilent == PubSpec => []Silent
BY ImplementsForwarding, StaysSilent, PTL

-----------------------------------------------------------------------------
(* Types.                                                                  *)

LEMMA PutTypes ==
    ASSUME PubTypeOK, NEW c \in 1..current, NEW msg \in Messages, Put(c, msg)
    PROVE  queue' \in [Contexts -> Seq(Messages)]
<1>1. c \in Contexts
  BY PublishingAssumption DEF PubTypeOK, Contexts
<1>2. Append(queue[c], msg) \in Seq(Messages)
  BY <1>1 DEF PubTypeOK
<1> QED
  BY <1>1, <1>2 DEF PubTypeOK, Put

LEMMA PubTypeStep ==
    ASSUME PubTypeOK, [PubNext]_<<vars, pubVars>>
    PROVE  PubTypeOK'
<1> USE PublishingAssumption DEF gateway, making, hands, fate, vars
<1>0. current \in Nat /\ made \in Nat /\ seq \in Nat /\ MaxContext \in Nat
  BY DEF PubTypeOK, Contexts
<1>1. ASSUME NEW new \in BOOLEAN, StartContext(new) PROVE PubTypeOK'
  <2>1. current' \in Contexts /\ current <= current'
    BY <1>0, <1>1 DEF StartContext, PubTypeOK, Contexts
  <2>2. looped' \subseteq 1..current' /\ current' \in looped' /\ looped \subseteq looped'
    BY <1>0, <1>1, <2>1 DEF StartContext, PubTypeOK, Contexts
  <2>3. owned' \in [Users -> 0..current'] /\ to' \in [Threads -> 0..current']
    <3>1. 0..current \subseteq 0..current'
      BY <1>0, <2>1 DEF Contexts
    <3> QED
      BY <1>1, <3>1 DEF StartContext, PubTypeOK
  <2>4. publisher = 0 /\ running' = FALSE /\ phase' = "starting"
    BY <1>1 DEF StartContext, PubTypeOK
  <2>5. publisher' = IF running' THEN current' ELSE 0
    BY <1>1, <2>4 DEF StartContext
  <2> QED
    BY <1>1, <2>1, <2>2, <2>3, <2>4, <2>5 DEF StartContext, PubTypeOK
<1>2. CASE StartPublishers
  BY <1>2 DEF StartPublishers, StartComponents, PubTypeOK
<1>3. CASE StopPublishers
  BY <1>3 DEF StopPublishers, StopComponents, PubTypeOK
<1>4. CASE StopContext
  BY <1>4 DEF StopContext, PubTypeOK
<1>5. CASE Host /\ UNCHANGED pubVars
  <2>1. running' = running
    BY <1>5 DEF Host, StrategyLoads, StartMarketEventsFw, PatchLogger
  <2> QED
    BY <1>5, <2>1 DEF pubVars, PubTypeOK
<1>6. ASSUME NEW t \in Threads, NEW o \in Outlets, Make(t, o) PROVE PubTypeOK'
  <2> DEFINE msg == [of |-> o, by |-> t, id |-> made + 1,
                     no |-> IF o = "notify" THEN seq + 1 ELSE 0]
  <2>1. made' \in 0..MaxMade /\ seq' \in 0..made' /\ seq + 1 \in 0..MaxMade
        /\ made + 1 \in 1..MaxMade
    BY <1>0, <1>6 DEF Make, PubTypeOK
  <2>2. msg \in Messages
    BY <1>0, <2>1 DEF Messages
  <2>3. held' \in [Threads -> Messages \cup {None}]
    BY <1>6, <2>2 DEF Make, PubTypeOK
  <2>4. \A u \in Threads : held'[u] = held[u] \/ to[u] = 0
    BY <1>6 DEF Make, PubTypeOK
  <2> QED
    BY <1>6, <2>1, <2>3, <2>4 DEF Make, PubTypeOK
<1>7. ASSUME NEW t \in Threads, Enter(t) PROVE PubTypeOK'
  <2>1. held[t] \in Messages
    BY <1>7 DEF Enter, PubTypeOK
  <2>2. CASE Enters(t)
    <3>1. publisher = current /\ current \in looped
      BY <2>2 DEF Enters, PubTypeOK
    <3>2. to' \in [Threads -> 0..current]
      BY <1>0, <2>2, <3>1 DEF Enters, PubTypeOK
    <3>3. \A u \in Threads : to'[u] # 0 => held[u] # None /\ to'[u] \in looped
      BY <1>7, <2>2, <3>1 DEF Enter, Enters, PubTypeOK
    <3> QED
      BY <1>7, <2>2, <3>2, <3>3 DEF Enter, Enters, PubTypeOK
  <2>3. CASE Drops(t)
    <3>1. held' \in [Threads -> Messages \cup {None}] /\ gone' \subseteq Messages
      BY <2>1, <2>3 DEF Drops, PubTypeOK
    <3>2. \A u \in Threads : to[u] # 0 => held'[u] # None
      BY <1>7, <2>3 DEF Enter, Drops, PubTypeOK
    <3> QED
      BY <1>7, <2>3, <3>1, <3>2 DEF Enter, Drops, PubTypeOK
  <2> QED
    BY <1>7, <2>2, <2>3 DEF Enter
<1>8. ASSUME NEW t \in Threads, Enqueue(t) PROVE PubTypeOK'
  <2>1. held[t] \in Messages /\ to[t] \in 1..current
    BY <1>0, <1>8 DEF Enqueue, PubTypeOK
  <2>2. queue' \in [Contexts -> Seq(Messages)]
    BY <1>8, <2>1, PutTypes DEF Enqueue
  <2>3. /\ held' \in [Threads -> Messages \cup {None}] /\ to' \in [Threads -> 0..current]
        /\ late' \in [Threads -> Nat]
    BY <1>0, <1>8 DEF Enqueue, PubTypeOK
  <2>4. \A u \in Threads : to'[u] # 0 => held'[u] # None /\ to'[u] \in looped
    BY <1>8 DEF Enqueue, PubTypeOK
  <2> QED
    BY <1>8, <2>2, <2>3, <2>4 DEF Enqueue, PubTypeOK
<1>9. ASSUME NEW u \in Users, Construct(u) PROVE PubTypeOK'
  BY <1>0, <1>9 DEF Construct, PubTypeOK
<1>10. ASSUME NEW u \in Users, Send(u) PROVE PubTypeOK'
  <2> DEFINE msg == [of |-> u, by |-> Main, id |-> made + 1, no |-> 0]
  <2>1. made' \in 0..MaxMade /\ seq \in 0..made' /\ made + 1 \in 1..MaxMade
    BY <1>0, <1>10 DEF Send, PubTypeOK
  <2>2. msg \in Messages
    BY <2>1 DEF Messages, Threads
  <2>3. owned' \in [Users -> 0..current]
    BY <1>0, <1>10 DEF Send, PubTypeOK
  <2>4. CASE owned'[u] \in looped /\ Put(owned'[u], msg) /\ UNCHANGED gone
    <3>1. owned'[u] \in 1..current
      BY <1>10, <2>4 DEF Send, PubTypeOK
    <3>2. queue' \in [Contexts -> Seq(Messages)]
      BY <2>2, <2>4, <3>1, PutTypes
    <3> QED
      BY <1>10, <2>1, <2>3, <2>4, <3>2 DEF Send, PubTypeOK
  <2>5. CASE gone' = gone \cup {msg} /\ UNCHANGED queue
    BY <1>10, <2>1, <2>2, <2>3, <2>5 DEF Send, PubTypeOK
  <2> QED
    BY <1>10, <2>4, <2>5 DEF Send
<1>11. CASE Drain
  <2>1. current \in Contexts /\ queue[current] \in Seq(Messages) /\ queue[current] # <<>>
    BY <1>11 DEF Drain, PubTypeOK
  <2>2. Head(queue[current]) \in Messages /\ Tail(queue[current]) \in Seq(Messages)
    BY <2>1
  <2>3. queue' \in [Contexts -> Seq(Messages)]
    BY <1>11, <2>1, <2>2 DEF Drain, PubTypeOK
  <2>4. out' \in Seq(Messages) /\ gone' \subseteq Messages
    <3> DEFINE msg == Head(queue[current])
    <3>1. msg \in Messages /\ out \in Seq(Messages) /\ gone \subseteq Messages
      BY <2>2 DEF PubTypeOK
    <3>2. Append(out, msg) \in Seq(Messages)
      BY <3>1
    <3>3. \/ out' = Append(out, msg) /\ gone' = gone
          \/ gone' = gone \cup {msg} /\ out' = out
      BY <1>11 DEF Drain
    <3> HIDE DEF msg
    <3> QED
      BY <3>1, <3>2, <3>3
  <2> QED
    BY <1>11, <2>3, <2>4 DEF Drain, PubTypeOK
<1>12. CASE UNCHANGED <<vars, pubVars>>
  BY <1>12 DEF pubVars, PubTypeOK
<1> QED
  BY <1>1, <1>2, <1>3, <1>4, <1>5, <1>6, <1>7, <1>8, <1>9, <1>10, <1>11, <1>12
  DEF PubNext

LEMMA PubTypeInit == PubInit => PubTypeOK
<1> SUFFICES ASSUME PubInit PROVE PubTypeOK
  OBVIOUS
<1>1. current \in Contexts /\ 0 \in 0..MaxMade /\ seq \in 0..made /\ made \in 0..MaxMade
  BY PublishingAssumption DEF PubInit, Contexts
<1>2. /\ owned \in [Users -> 0..current] /\ to \in [Threads -> 0..current]
      /\ held \in [Threads -> Messages \cup {None}] /\ late \in [Threads -> Nat]
      /\ queue \in [Contexts -> Seq(Messages)] /\ out \in Seq(Messages)
  BY DEF PubInit
<1> QED
  BY <1>1, <1>2 DEF PubInit, Init, PubTypeOK

\* The components publish on the current context and only while they are
\* started, however the steps of threads, host and gateway interleave
\* (notifier.py, status.py, market_events.py, log_handler.py: start(), stop()).
THEOREM PublishingTypeCorrect == PubSpec => []PubTypeOK
BY PubTypeInit, PubTypeStep, PTL DEF PubSpec

-----------------------------------------------------------------------------
(* Late messages.                                                          *)

\* A thread about to enqueue late has not done so since the last stop.
Settled ==
    \A t \in Threads :
        /\ late[t] \in {0, 1}
        /\ (to[t] # 0 /\ Late(to[t])) => late[t] = 0

LEMMA SettledStep ==
    ASSUME PubTypeOK, Settled, [PubNext]_<<vars, pubVars>>
    PROVE  Settled'
<1> USE DEF gateway, making, hands, fate, vars
<1>1. ASSUME NEW new \in BOOLEAN, StartContext(new) PROVE Settled'
  BY <1>1 DEF StartContext, Settled, Late
<1>2. CASE StartPublishers
  BY <1>2 DEF StartPublishers, Settled, Late
<1>3. CASE StopPublishers
  BY <1>3 DEF StopPublishers, Settled
<1>4. CASE StopContext
  BY <1>4 DEF StopContext, Settled, Late
<1>5. CASE Host /\ UNCHANGED pubVars
  BY <1>5 DEF pubVars, Settled, Late
<1>6. ASSUME NEW t \in Threads, NEW o \in Outlets, Make(t, o) PROVE Settled'
  BY <1>6 DEF Make, Settled, Late
<1>7. ASSUME NEW t \in Threads, Enter(t) PROVE Settled'
  <2>1. CASE Enters(t)
    <3>1. publisher = current /\ phase = "up"
      BY <2>1 DEF Enters, PubTypeOK
    <3>2. \A u \in Threads : to'[u] = to[u] \/ to'[u] = current
      BY <2>1, <3>1 DEF Enters, PubTypeOK
    <3> QED
      BY <1>7, <3>1, <3>2 DEF Enter, Settled, Late
  <2>2. CASE Drops(t)
    BY <1>7, <2>2 DEF Enter, Drops, Settled, Late
  <2> QED
    BY <1>7, <2>1, <2>2 DEF Enter
<1>8. ASSUME NEW t \in Threads, Enqueue(t) PROVE Settled'
  <2>1. late'[t] \in {0, 1} /\ to'[t] = 0
    BY <1>8 DEF Enqueue, Settled, PubTypeOK
  <2>2. \A u \in Threads \ {t} : late'[u] = late[u] /\ to'[u] = to[u]
    BY <1>8 DEF Enqueue, PubTypeOK
  <2> QED
    BY <1>8, <2>1, <2>2 DEF Enqueue, Settled, Late
<1>9. ASSUME NEW u \in Users, Construct(u) PROVE Settled'
  BY <1>9 DEF Construct, Settled, Late
<1>10. ASSUME NEW u \in Users, Send(u) PROVE Settled'
  BY <1>10 DEF Send, Settled, Late
<1>11. CASE Drain
  BY <1>11 DEF Drain, Settled, Late
<1>12. CASE UNCHANGED <<vars, pubVars>>
  BY <1>12 DEF pubVars, Settled, Late
<1> QED
  BY <1>1, <1>2, <1>3, <1>4, <1>5, <1>6, <1>7, <1>8, <1>9, <1>10, <1>11, <1>12
  DEF PubNext

\* A stop costs each thread at most the one message it holds: it is the last
\* that a stopped component enqueues, or the last on a replaced context, until
\* the components are stopped again (publisher.py:40, publish()).
THEOREM LateAtMostOnce == PubSpec => []AtMostOneLate
<1>1. PubInit => Settled
  BY DEF PubInit, Settled
<1>2. PubTypeOK /\ PubTypeOK' /\ Settled /\ [PubNext]_<<vars, pubVars>> => Settled'
  BY SettledStep
<1>3. Settled => AtMostOneLate
  BY DEF Settled, AtMostOneLate
<1> QED
  BY <1>1, <1>2, <1>3, PublishingTypeCorrect, PTL DEF PubSpec

-----------------------------------------------------------------------------
(* The order of each thread's messages.                                    *)

Earlier(m1, m2) == m1.by = m2.by => m1.id < m2.id
AllEarlier(s, msg) == \A i \in 1..Len(s) : Earlier(s[i], msg)
Turns(s) == \A i, j \in 1..Len(s) : i < j => Earlier(s[i], s[j])
Bounded(s, n) == \A i \in 1..Len(s) : s[i].id <= n

\* What the broker has is older than what the current context still has to
\* deliver, and that is older than what the threads hold.
InLine ==
    LET line == queue[current]
    IN  /\ Turns(out) /\ Bounded(out, made)
        /\ Turns(line) /\ Bounded(line, made)
        /\ \A j \in 1..Len(line) : AllEarlier(out, line[j])

HeldInLine ==
    \A t \in Threads : held[t] # None =>
        /\ held[t].by = t /\ held[t].id <= made
        /\ AllEarlier(out, held[t]) /\ AllEarlier(queue[current], held[t])

FutureEmpty == \A c \in Contexts : c > current => queue[c] = <<>>

LEMMA AppendMessage ==
    ASSUME NEW s \in Seq(Messages), NEW msg \in Messages
    PROVE  /\ Append(s, msg) \in Seq(Messages)
           /\ Len(s) \in Nat /\ Len(Append(s, msg)) = Len(s) + 1
           /\ \A i \in 1..Len(s) : Append(s, msg)[i] = s[i] /\ s[i] \in Messages
           /\ Append(s, msg)[Len(s) + 1] = msg
OBVIOUS

LEMMA TailMessages ==
    ASSUME NEW s \in Seq(Messages), s # <<>>
    PROVE  /\ Tail(s) \in Seq(Messages) /\ Head(s) \in Messages /\ Head(s) = s[1]
           /\ Len(s) \in Nat \ {0} /\ Len(Tail(s)) = Len(s) - 1
           /\ \A i \in 1..Len(Tail(s)) : Tail(s)[i] = s[i + 1]
OBVIOUS

LEMMA AppendTurns ==
    ASSUME NEW s \in Seq(Messages), NEW msg \in Messages,
           Turns(s), AllEarlier(s, msg)
    PROVE  Turns(Append(s, msg))
<1> SUFFICES ASSUME NEW i \in 1..Len(s) + 1, NEW j \in 1..Len(s) + 1, i < j
             PROVE  Earlier(Append(s, msg)[i], Append(s, msg)[j])
  BY AppendMessage DEF Turns
<1>1. i \in 1..Len(s)
  BY AppendMessage
<1>2. CASE j \in 1..Len(s)
  BY <1>1, <1>2, AppendMessage DEF Turns
<1>3. CASE j = Len(s) + 1
  BY <1>1, <1>3, AppendMessage DEF AllEarlier
<1> QED
  BY <1>2, <1>3, AppendMessage

LEMMA AppendOlder ==
    ASSUME NEW s \in Seq(Messages), NEW msg \in Messages, NEW n \in Nat
    PROVE  /\ Bounded(s, n) /\ msg.id <= n => Bounded(Append(s, msg), n)
           /\ \A m \in Messages :
                 AllEarlier(s, m) /\ Earlier(msg, m) => AllEarlier(Append(s, msg), m)
<1>1. Bounded(s, n) /\ msg.id <= n => Bounded(Append(s, msg), n)
  BY AppendMessage DEF Bounded
<1>2. ASSUME NEW m \in Messages, AllEarlier(s, m), Earlier(msg, m)
      PROVE  AllEarlier(Append(s, msg), m)
  BY <1>2, AppendMessage DEF AllEarlier
<1> QED
  BY <1>1, <1>2

LEMMA TailOlder ==
    ASSUME NEW s \in Seq(Messages), s # <<>>, Turns(s)
    PROVE  /\ Turns(Tail(s))
           /\ \A j \in 1..Len(Tail(s)) : Earlier(Head(s), Tail(s)[j])
           /\ \A n \in Nat : Bounded(s, n) => Bounded(Tail(s), n) /\ Head(s).id <= n
           /\ \A m \in Messages :
                 AllEarlier(s, m) => AllEarlier(Tail(s), m) /\ Earlier(Head(s), m)
<1>1. Turns(Tail(s))
  BY TailMessages DEF Turns
<1>2. \A j \in 1..Len(Tail(s)) : Earlier(Head(s), Tail(s)[j])
  BY TailMessages DEF Turns
<1>3. \A n \in Nat : Bounded(s, n) => Bounded(Tail(s), n) /\ Head(s).id <= n
  BY TailMessages DEF Bounded
<1>4. \A m \in Messages :
          AllEarlier(s, m) => AllEarlier(Tail(s), m) /\ Earlier(Head(s), m)
  BY TailMessages DEF AllEarlier
<1> QED
  BY <1>1, <1>2, <1>3, <1>4

\* A message that is newer than the line, and than what its thread holds, may
\* join the end of it.
LEMMA JoinLine ==
    ASSUME PubTypeOK, InLine, HeldInLine, FutureEmpty,
           NEW c \in 1..current, NEW msg \in Messages, Put(c, msg),
           AllEarlier(out, msg), AllEarlier(queue[current], msg),
           UNCHANGED <<current, out>>, made' \in Nat, made <= made', msg.id <= made',
           \A t \in Threads : held'[t] # None => held'[t] = held[t] /\ msg.by # t
    PROVE  InLine' /\ HeldInLine' /\ FutureEmpty'
<1>0. /\ current \in Contexts /\ current \in Nat /\ made \in Nat
      /\ queue[current] \in Seq(Messages) /\ out \in Seq(Messages)
      /\ held \in [Threads -> Messages \cup {None}]
  BY PublishingAssumption DEF PubTypeOK, Contexts
<1>1. FutureEmpty'
  BY <1>0 DEF FutureEmpty, Put, PubTypeOK
<1>2. \A n1, n2 \in Nat : n1 <= n2 =>
          \A s \in Seq(Messages) : Bounded(s, n1) => Bounded(s, n2)
  <2> SUFFICES ASSUME NEW n1 \in Nat, NEW n2 \in Nat, n1 <= n2,
                      NEW s \in Seq(Messages), Bounded(s, n1), NEW i \in 1..Len(s)
               PROVE  s[i].id <= n2
    BY DEF Bounded
  <2>1. s[i].id \in Nat
    <3>1. s[i] \in Messages
      OBVIOUS
    <3> QED
      BY <3>1, PublishingAssumption DEF Messages
  <2> QED
    BY <2>1 DEF Bounded
<1>3. Bounded(out', made') /\ Bounded(queue[current], made') /\ Turns(out')
  BY <1>0, <1>2 DEF InLine
<1>4. \A t \in Threads : held'[t] # None =>
          /\ held'[t] \in Messages /\ held'[t].by = t /\ held'[t].id <= made'
          /\ AllEarlier(out', held'[t]) /\ AllEarlier(queue[current], held'[t])
          /\ Earlier(msg, held'[t])
  <2> SUFFICES ASSUME NEW t \in Threads, held'[t] # None
               PROVE  /\ held[t] \in Messages /\ held[t].by = t /\ held[t].id <= made'
                      /\ AllEarlier(out, held[t]) /\ AllEarlier(queue[current], held[t])
                      /\ Earlier(msg, held[t])
    OBVIOUS
  <2>1. held[t] \in Messages /\ held[t].id \in Nat
    BY <1>0, PublishingAssumption DEF Messages
  <2> QED
    BY <1>0, <2>1 DEF HeldInLine, Earlier
<1>5. CASE c = current
  <2>1. queue'[current] = Append(queue[current], msg)
    BY <1>0, <1>5 DEF Put, PubTypeOK
  <2>2. Turns(queue'[current]) /\ Bounded(queue'[current], made')
    BY <1>0, <1>3, <2>1, AppendTurns, AppendOlder DEF InLine
  <2>3. \A j \in 1..Len(queue'[current]) : AllEarlier(out, queue'[current][j])
    BY <1>0, <2>1, AppendMessage DEF InLine
  <2>4. \A t \in Threads : held'[t] # None => AllEarlier(queue'[current], held'[t])
    BY <1>0, <1>4, <2>1, AppendOlder
  <2> QED
    BY <1>1, <1>3, <1>4, <2>2, <2>3, <2>4 DEF InLine, HeldInLine
<1>6. CASE c # current
  <2>1. queue'[current] = queue[current]
    BY <1>0, <1>6 DEF Put, PubTypeOK
  <2> QED
    BY <1>1, <1>3, <1>4, <2>1 DEF InLine, HeldInLine
<1> QED
  BY <1>5, <1>6

\* Nothing that matters to the order moves.
LEMMA LineStays ==
    ASSUME InLine, HeldInLine, FutureEmpty,
           UNCHANGED <<current, queue, out, made>>,
           \A t \in Threads : held'[t] # None => held'[t] = held[t]
    PROVE  InLine' /\ HeldInLine' /\ FutureEmpty'
<1>1. InLine' /\ FutureEmpty'
  BY DEF InLine, FutureEmpty
<1>2. HeldInLine'
  BY DEF HeldInLine
<1> QED
  BY <1>1, <1>2

LEMMA StartLine ==
    ASSUME PubTypeOK, InLine, HeldInLine, FutureEmpty,
           NEW new \in BOOLEAN, StartContext(new)
    PROVE  InLine' /\ HeldInLine' /\ FutureEmpty'
<1> USE DEF making, hands, fate
<1>0. current \in Nat /\ MaxContext \in Nat /\ current \in Contexts
  BY PublishingAssumption DEF PubTypeOK, Contexts
<1>1. CASE new
  <2>1. current' = current + 1 /\ current' \in Contexts /\ current' > current
    BY <1>0, <1>1 DEF StartContext, Contexts
  <2>2. queue'[current'] = <<>>
    BY <2>1 DEF StartContext, FutureEmpty
  <2>3. /\ Turns(<<>>) /\ Bounded(<<>>, made) /\ \A m : AllEarlier(<<>>, m)
        /\ Len(<<>>) = 0
    BY DEF Turns, Bounded, AllEarlier
  <2>4. InLine'
    BY <2>2, <2>3 DEF StartContext, InLine
  <2>5. HeldInLine'
    BY <2>2, <2>3 DEF StartContext, HeldInLine
  <2>6. FutureEmpty'
    BY <1>0, <2>1 DEF StartContext, FutureEmpty, Contexts
  <2> QED
    BY <2>4, <2>5, <2>6
<1>2. CASE ~new
  BY <1>2, LineStays DEF StartContext
<1> QED
  BY <1>1, <1>2

LEMMA MakeLine ==
    ASSUME PubTypeOK, InLine, HeldInLine, FutureEmpty,
           NEW t \in Threads, NEW o \in Outlets, Make(t, o)
    PROVE  InLine' /\ HeldInLine' /\ FutureEmpty'
<1> USE DEF gateway, fate
<1>0. /\ made \in Nat /\ made' = made + 1 /\ current \in Contexts
      /\ out \in Seq(Messages) /\ queue[current] \in Seq(Messages)
      /\ UNCHANGED <<current, queue, out>>
  BY PublishingAssumption DEF PubTypeOK, Make
<1>1. \A s \in Seq(Messages) : Bounded(s, made) =>
          Bounded(s, made') /\ \A m : m.id = made + 1 => AllEarlier(s, m)
  <2> SUFFICES ASSUME NEW s \in Seq(Messages), Bounded(s, made)
               PROVE  Bounded(s, made') /\ \A m : m.id = made + 1 => AllEarlier(s, m)
    OBVIOUS
  <2>1. \A i \in 1..Len(s) : s[i].id \in Nat
    <3>1. \A i \in 1..Len(s) : s[i] \in Messages
      OBVIOUS
    <3> QED
      BY <3>1, PublishingAssumption DEF Messages
  <2> QED
    BY <1>0, <2>1 DEF Bounded, AllEarlier, Earlier
<1>2. InLine' /\ FutureEmpty'
  BY <1>0, <1>1 DEF InLine, FutureEmpty
<1>3. held'[t].by = t /\ held'[t].id = made + 1
  BY DEF Make, PubTypeOK
<1>4. AllEarlier(out, held'[t]) /\ AllEarlier(queue[current], held'[t])
  BY <1>0, <1>1, <1>3 DEF InLine
<1>5. ASSUME NEW u \in Threads, u # t, held'[u] # None
      PROVE  held'[u] = held[u] /\ held[u].id <= made'
  <2>1. held'[u] = held[u]
    BY <1>5 DEF Make, PubTypeOK
  <2>2. held[u] \in Messages
    BY <1>5, <2>1 DEF PubTypeOK
  <2>3. held[u].id \in Nat /\ held[u].id <= made
    BY <1>5, <2>1, <2>2, PublishingAssumption DEF Messages, HeldInLine
  <2> QED
    BY <1>0, <2>1, <2>3
<1>6. HeldInLine'
  BY <1>0, <1>3, <1>4, <1>5 DEF HeldInLine
<1> QED
  BY <1>2, <1>6

LEMMA EnqueueLine ==
    ASSUME PubTypeOK, InLine, HeldInLine, FutureEmpty,
           NEW t \in Threads, Enqueue(t)
    PROVE  InLine' /\ HeldInLine' /\ FutureEmpty'
<1> USE DEF gateway, making, fate
<1>1. /\ to[t] \in 1..current /\ held[t] \in Messages /\ held[t] # None
      /\ made \in Nat
  BY PublishingAssumption DEF Enqueue, PubTypeOK, Contexts
<1>2. /\ held[t].by = t /\ held[t].id <= made
      /\ AllEarlier(out, held[t]) /\ AllEarlier(queue[current], held[t])
  BY <1>1 DEF HeldInLine
<1>3. \A u \in Threads : held'[u] # None => held'[u] = held[u] /\ held[t].by # u
  BY <1>2 DEF Enqueue, PubTypeOK
<1> QED
  BY <1>1, <1>2, <1>3, JoinLine DEF Enqueue

LEMMA SendLine ==
    ASSUME PubTypeOK, InLine, HeldInLine, FutureEmpty,
           NEW u \in Users, Send(u)
    PROVE  InLine' /\ HeldInLine' /\ FutureEmpty'
<1> USE DEF gateway, hands
<1> DEFINE msg == [of |-> u, by |-> Main, id |-> made + 1, no |-> 0]
<1>0. /\ made \in Nat /\ made' = made + 1 /\ current \in Contexts
      /\ out \in Seq(Messages) /\ queue[current] \in Seq(Messages)
      /\ held' = held /\ held[Main] = None /\ UNCHANGED <<current, out>>
  BY PublishingAssumption DEF PubTypeOK, Send
<1>1. msg \in Messages /\ msg.id = made + 1 /\ msg.by = Main
  <2>1. made + 1 \in 1..MaxMade
    BY <1>0, PublishingAssumption DEF Send, PubTypeOK
  <2> QED
    BY <2>1, PublishingAssumption DEF Messages, Threads
<1> HIDE DEF msg
<1>2. \A s \in Seq(Messages) : Bounded(s, made) =>
          Bounded(s, made') /\ AllEarlier(s, msg)
  <2> SUFFICES ASSUME NEW s \in Seq(Messages), Bounded(s, made)
               PROVE  Bounded(s, made') /\ AllEarlier(s, msg)
    OBVIOUS
  <2>1. \A i \in 1..Len(s) : s[i].id \in Nat
    <3>1. \A i \in 1..Len(s) : s[i] \in Messages
      OBVIOUS
    <3> QED
      BY <3>1, PublishingAssumption DEF Messages
  <2> QED
    BY <1>0, <1>1, <2>1 DEF Bounded, AllEarlier, Earlier
<1>3. \A t \in Threads : held'[t] # None => held'[t] = held[t] /\ msg.by # t
  BY <1>0, <1>1
<1>4. CASE owned'[u] \in looped /\ Put(owned'[u], msg)
  <2>1. owned'[u] \in 1..current
    BY <1>4 DEF Send, PubTypeOK
  <2>2. AllEarlier(out, msg) /\ AllEarlier(queue[current], msg)
    BY <1>0, <1>2 DEF InLine
  <2>3. made' \in Nat /\ made <= made' /\ msg.id <= made'
    BY <1>0, <1>1
  <2> QED
    BY <1>0, <1>1, <1>3, <1>4, <2>1, <2>2, <2>3, JoinLine
<1>5. CASE queue' = queue
  <2>2. InLine' /\ FutureEmpty'
    BY <1>0, <1>2, <1>5 DEF InLine, FutureEmpty
  <2>3. \A t \in Threads : held[t] # None => held[t].id <= made'
    <3> SUFFICES ASSUME NEW t \in Threads, held[t] # None PROVE held[t].id <= made'
      OBVIOUS
    <3>1. held[t] \in Messages
      BY DEF PubTypeOK
    <3>2. held[t].id \in Nat /\ held[t].id <= made
      BY <3>1, PublishingAssumption DEF Messages, HeldInLine
    <3> QED
      BY <1>0, <3>2
  <2>4. HeldInLine'
    BY <1>0, <1>5, <2>3 DEF HeldInLine
  <2> QED
    BY <2>2, <2>4
<1> QED
  BY <1>4, <1>5 DEF Send, msg

LEMMA DrainLine ==
    ASSUME PubTypeOK, InLine, HeldInLine, FutureEmpty, Drain
    PROVE  InLine' /\ HeldInLine' /\ FutureEmpty'
<1> USE DEF gateway, making, hands
<1> DEFINE line == queue[current]
           msg  == Head(line)
<1>0. /\ made \in Nat /\ current \in Contexts /\ current \in Nat
      /\ out \in Seq(Messages) /\ line \in Seq(Messages) /\ line # <<>>
      /\ UNCHANGED <<current, made, held>>
  BY PublishingAssumption DEF PubTypeOK, Drain, Contexts
<1>1. queue'[current] = Tail(line) /\ Tail(line) \in Seq(Messages)
  BY <1>0, TailMessages DEF Drain, PubTypeOK
<1>2. /\ msg \in Messages /\ msg = line[1] /\ 1 \in 1..Len(line)
      /\ \A j \in 1..Len(Tail(line)) : Tail(line)[j] = line[j + 1] /\ j + 1 \in 1..Len(line)
                                       /\ Tail(line)[j] \in Messages
  BY <1>0, TailMessages
<1>3. Turns(out) /\ Bounded(out, made) /\ Turns(line) /\ Bounded(line, made)
      /\ \A j \in 1..Len(line) : AllEarlier(out, line[j])
  BY DEF InLine
<1>4. out' = Append(out, msg) \/ out' = out
  BY DEF Drain
<1>5. FutureEmpty'
  BY <1>0 DEF Drain, FutureEmpty, PubTypeOK
<1>6. \A t \in Threads : held[t] # None => held[t] \in Messages
  BY DEF PubTypeOK
<1> HIDE DEF line, msg
<1>7. /\ Turns(Tail(line)) /\ Bounded(Tail(line), made) /\ msg.id <= made
      /\ \A j \in 1..Len(Tail(line)) : Earlier(msg, Tail(line)[j])
      /\ \A m \in Messages : AllEarlier(line, m) => AllEarlier(Tail(line), m) /\ Earlier(msg, m)
  BY <1>0, <1>3, TailOlder DEF msg
<1>8. /\ Turns(out') /\ Bounded(out', made)
      /\ \A m \in Messages : AllEarlier(out, m) /\ Earlier(msg, m) => AllEarlier(out', m)
  <2>1. CASE out' = out
    BY <1>3, <2>1
  <2>2. CASE out' = Append(out, msg)
    <3>1. AllEarlier(out, msg)
      BY <1>2, <1>3
    <3> QED
      BY <1>0, <1>2, <1>3, <1>7, <2>2, <3>1, AppendTurns, AppendOlder
  <2> QED
    BY <1>4, <2>1, <2>2
<1>9. \A j \in 1..Len(Tail(line)) : AllEarlier(out', Tail(line)[j])
  BY <1>2, <1>3, <1>7, <1>8
<1>10. InLine'
  BY <1>0, <1>1, <1>7, <1>8, <1>9 DEF InLine
<1>11. HeldInLine'
  <2> SUFFICES ASSUME NEW t \in Threads, held[t] # None
               PROVE  /\ held[t].by = t /\ held[t].id <= made
                      /\ AllEarlier(out', held[t]) /\ AllEarlier(Tail(line), held[t])
    BY <1>0, <1>1 DEF HeldInLine
  <2>1. /\ held[t].by = t /\ held[t].id <= made
        /\ AllEarlier(out, held[t]) /\ AllEarlier(line, held[t])
    BY DEF HeldInLine, line
  <2> QED
    BY <1>6, <1>7, <1>8, <2>1
<1> QED
  BY <1>5, <1>10, <1>11

LEMMA LineStep ==
    ASSUME PubTypeOK, InLine, HeldInLine, FutureEmpty, [PubNext]_<<vars, pubVars>>
    PROVE  InLine' /\ HeldInLine' /\ FutureEmpty'
<1> USE DEF gateway, making, hands, fate
<1>1. CASE \E new \in BOOLEAN : StartContext(new)
  BY <1>1, StartLine
<1>2. CASE StartPublishers \/ StopPublishers \/ StopContext
  BY <1>2, LineStays DEF StartPublishers, StopPublishers, StopContext
<1>3. CASE Host /\ UNCHANGED pubVars
  BY <1>3, LineStays DEF pubVars
<1>4. CASE \E t \in Threads : Enter(t) \/ Enqueue(t) \/ \E o \in Outlets : Make(t, o)
  <2>1. ASSUME NEW t \in Threads, Enter(t)
        PROVE  InLine' /\ HeldInLine' /\ FutureEmpty'
    <3>1. \A u \in Threads : held'[u] # None => held'[u] = held[u]
      BY <2>1 DEF Enter, Enters, Drops, PubTypeOK
    <3> QED
      BY <2>1, <3>1, LineStays DEF Enter
  <2> QED
    BY <1>4, <2>1, EnqueueLine, MakeLine
<1>5. CASE \E u \in Users : Construct(u) \/ Send(u)
  <2>1. ASSUME NEW u \in Users, Construct(u)
        PROVE  InLine' /\ HeldInLine' /\ FutureEmpty'
    BY <2>1, LineStays DEF Construct
  <2> QED
    BY <1>5, <2>1, SendLine
<1>6. CASE Drain
  BY <1>6, DrainLine
<1>7. CASE UNCHANGED <<vars, pubVars>>
  BY <1>7, LineStays DEF pubVars
<1> QED
  BY <1>1, <1>2, <1>3, <1>4, <1>5, <1>6, <1>7 DEF PubNext

\* The broker receives what one thread published in the order it did, through
\* any component or publisher of the host, whatever is lost or stranded and
\* however often the gateway restarts (node_context.py, _enqueue_outgoing() and
\* _drain_outgoing(); gateway.py, restart()).
THEOREM ThreadsInTurn == PubSpec => []InTurn
<1>1. PubInit => InLine /\ HeldInLine /\ FutureEmpty
  <2> SUFFICES ASSUME PubInit PROVE InLine /\ HeldInLine /\ FutureEmpty
    OBVIOUS
  <2>1. out = <<>> /\ queue[current] = <<>> /\ Len(<<>>) = 0
    BY PublishingAssumption DEF PubInit, Contexts
  <2> QED
    BY <2>1 DEF PubInit, InLine, HeldInLine, FutureEmpty, Turns, Bounded
<1>2. /\ PubTypeOK /\ PubTypeOK' /\ InLine /\ HeldInLine /\ FutureEmpty
      /\ [PubNext]_<<vars, pubVars>>
      => InLine' /\ HeldInLine' /\ FutureEmpty'
  BY LineStep
<1>3. PubTypeOK /\ InLine => InTurn
  <2> SUFFICES ASSUME PubTypeOK, InLine, NEW i \in DOMAIN out, NEW j \in DOMAIN out,
                      i < j, out[i].by = out[j].by
               PROVE  out[i].id < out[j].id
    BY DEF InTurn
  <2>1. i \in 1..Len(out) /\ j \in 1..Len(out)
    BY DEF PubTypeOK
  <2>2. Earlier(out[i], out[j])
    BY <2>1 DEF InLine, Turns
  <2> QED
    BY <2>2 DEF Earlier
<1> QED
  BY <1>1, <1>2, <1>3, PublishingTypeCorrect, PTL DEF PubSpec

-----------------------------------------------------------------------------
(* Numbers: each one the notifier gave is in one place.                    *)

IsOne(S) == \E x : S = {x}

\* In one of the four places there is one, in the others none.
Alone(A, B, C, D) ==
    \/ IsOne(A) /\ B = {} /\ C = {} /\ D = {}
    \/ A = {} /\ IsOne(B) /\ C = {} /\ D = {}
    \/ A = {} /\ B = {} /\ IsOne(C) /\ D = {}
    \/ A = {} /\ B = {} /\ C = {} /\ IsOne(D)

Placed(n)   == Alone(WithThreads(n), OnQueues(n), AtBroker(n), Lost(n))
Nowhere(n)  == /\ WithThreads(n) = {} /\ OnQueues(n) = {}
               /\ AtBroker(n) = {} /\ Lost(n) = {}
NumbersOK   == \A n \in Nat \ {0} : IF n <= seq THEN Placed(n) ELSE Nowhere(n)

LEMMA AloneCounts ==
    ASSUME NEW A, NEW B, NEW C, NEW D, Alone(A, B, C, D)
    PROVE  Cardinality(A) + Cardinality(B) + Cardinality(C) + Cardinality(D) = 1
<1>1. Cardinality({}) = 0 /\ \A x : Cardinality({x}) = 1
  BY FS_EmptySet, FS_Singleton
<1>2. \A S : IsOne(S) => Cardinality(S) = 1
  BY <1>1 DEF IsOne
<1> QED
  BY <1>1, <1>2 DEF Alone

LEMMA MessageIs ==
    ASSUME NEW m \in Messages, NEW n
    PROVE  Carries(m, n) <=> m.no = n
BY NoneIsNoMessage DEF Carries

LEMMA NumbersOfMessages ==
    ASSUME NEW m \in Messages PROVE m.no \in Nat
BY PublishingAssumption DEF Messages

\* The places of the messages that carry a number, on queues q.
Spots(q, n) ==
    UNION {{<<c, i>> : i \in {j \in DOMAIN q[c] : Carries(q[c][j], n)}} :
              c \in Contexts}

LEMMA InSpots ==
    ASSUME NEW q \in [Contexts -> Seq(Messages)], NEW n, NEW x
    PROVE  x \in Spots(q, n) <=>
               \E c \in Contexts : \E i \in 1..Len(q[c]) :
                   x = <<c, i>> /\ q[c][i].no = n
<1>1. \A c \in Contexts : /\ DOMAIN q[c] = 1..Len(q[c])
                          /\ \A i \in 1..Len(q[c]) : q[c][i] \in Messages
  OBVIOUS
<1>2. \A c \in Contexts : \A i \in 1..Len(q[c]) :
          Carries(q[c][i], n) <=> q[c][i].no = n
  BY <1>1, MessageIs
<1> QED
  BY <1>1, <1>2 DEF Spots

LEMMA InQueues ==
    ASSUME PubTypeOK, NEW n, NEW x
    PROVE  x \in OnQueues(n) <=>
               \E c \in Contexts : \E i \in 1..Len(queue[c]) :
                   x = <<c, i>> /\ queue[c][i].no = n
<1>1. OnQueues(n) = Spots(queue, n) /\ queue \in [Contexts -> Seq(Messages)]
  BY DEF OnQueues, Spots, PubTypeOK
<1> QED
  BY <1>1, InSpots

LEMMA InQueuesNext ==
    ASSUME PubTypeOK', NEW n, NEW x
    PROVE  x \in OnQueues(n)' <=>
               \E c \in Contexts : \E i \in 1..Len(queue'[c]) :
                   x = <<c, i>> /\ queue'[c][i].no = n
<1>1. OnQueues(n)' = Spots(queue', n) /\ queue' \in [Contexts -> Seq(Messages)]
  BY DEF OnQueues, Spots, PubTypeOK
<1> QED
  BY <1>1, InSpots

LEMMA EnqueuedNumbers ==
    ASSUME PubTypeOK, PubTypeOK', NEW c \in Contexts, NEW msg \in Messages,
           Put(c, msg), NEW n
    PROVE  /\ msg.no # n => OnQueues(n)' = OnQueues(n)
           /\ msg.no = n /\ OnQueues(n) = {} => IsOne(OnQueues(n)')
<1> DEFINE k == Len(queue[c]) + 1
<1>1. /\ \A d \in Contexts : d # c => queue'[d] = queue[d]
      /\ queue[c] \in Seq(Messages) /\ queue'[c] = Append(queue[c], msg)
  BY DEF PubTypeOK, Put
<1>2. /\ k \in Nat /\ Len(queue'[c]) = k /\ queue'[c][k] = msg
      /\ \A i \in 1..Len(queue[c]) : queue'[c][i] = queue[c][i]
      /\ \A i \in 1..k : i = k \/ i \in 1..Len(queue[c])
      /\ \A i \in 1..Len(queue[c]) : i \in 1..k
      /\ k \in 1..k
  BY <1>1, AppendMessage
<1> HIDE DEF k
<1>3. \A x : x \in OnQueues(n)' <=>
               \E d \in Contexts : \E i \in 1..Len(queue'[d]) :
                   x = <<d, i>> /\ queue'[d][i].no = n
  BY InQueuesNext
<1>4. ASSUME NEW x
      PROVE  x \in OnQueues(n)' <=> x \in OnQueues(n) \/ (x = <<c, k>> /\ msg.no = n)
  <2>1. ASSUME x \in OnQueues(n)'
        PROVE  x \in OnQueues(n) \/ (x = <<c, k>> /\ msg.no = n)
    <3>1. PICK d \in Contexts : \E i \in 1..Len(queue'[d]) :
                   x = <<d, i>> /\ queue'[d][i].no = n
      BY <1>3, <2>1
    <3>2. PICK i \in 1..Len(queue'[d]) : x = <<d, i>> /\ queue'[d][i].no = n
      BY <3>1
    <3> QED
      BY <1>1, <1>2, <3>2, InQueues
  <2>2. ASSUME x \in OnQueues(n) PROVE x \in OnQueues(n)'
    <3>1. PICK d \in Contexts : \E i \in 1..Len(queue[d]) :
                   x = <<d, i>> /\ queue[d][i].no = n
      BY <2>2, InQueues
    <3>2. PICK i \in 1..Len(queue[d]) : x = <<d, i>> /\ queue[d][i].no = n
      BY <3>1
    <3>3. i \in 1..Len(queue'[d]) /\ queue'[d][i] = queue[d][i]
      BY <1>1, <1>2, <3>2
    <3> QED
      BY <1>3, <3>2, <3>3
  <2>3. ASSUME x = <<c, k>>, msg.no = n PROVE x \in OnQueues(n)'
    BY <1>2, <1>3, <2>3
  <2> QED
    BY <2>1, <2>2, <2>3
<1>5. ASSUME msg.no = n, OnQueues(n) = {} PROVE OnQueues(n)' = {<<c, k>>}
  BY <1>4, <1>5
<1> QED
  BY <1>4, <1>5 DEF IsOne

LEMMA DrainedNumbers ==
    ASSUME PubTypeOK, PubTypeOK', Drain, NEW n
    PROVE  /\ OnQueues(n) = {} => OnQueues(n)' = {} /\ Head(queue[current]).no # n
           /\ IsOne(OnQueues(n)) => IF Head(queue[current]).no = n
                                    THEN OnQueues(n)' = {} ELSE IsOne(OnQueues(n)')
<1> DEFINE line == queue[current]
           head == Head(line)
           back(x) == IF x[1] = current THEN <<current, x[2] - 1>> ELSE x
<1>1. /\ current \in Contexts /\ line \in Seq(Messages) /\ line # <<>>
      /\ queue'[current] = Tail(line)
      /\ \A d \in Contexts : d # current => queue'[d] = queue[d]
  BY DEF PubTypeOK, Drain
<1>2. /\ head = line[1] /\ Len(line) \in Nat \ {0}
      /\ Len(Tail(line)) = Len(line) - 1
      /\ \A i \in 1..Len(Tail(line)) : Tail(line)[i] = line[i + 1]
  BY <1>1, TailMessages
<1>3. /\ 1 \in 1..Len(line)
      /\ \A i \in 1..Len(line) : i = 1 \/ i - 1 \in 1..Len(Tail(line))
      /\ \A i \in 1..Len(line) : i # 1 => Tail(line)[i - 1] = line[i]
      /\ \A i \in 1..Len(Tail(line)) : i + 1 \in 1..Len(line) /\ i + 1 # 1
  BY <1>2
<1> HIDE DEF head
<1>4. \A x : x \in OnQueues(n)' <=>
               \E d \in Contexts : \E i \in 1..Len(queue'[d]) :
                   x = <<d, i>> /\ queue'[d][i].no = n
  BY InQueuesNext
<1>5. <<current, 1>> \in OnQueues(n) <=> head.no = n
  <2>1. head.no = n => <<current, 1>> \in OnQueues(n)
    BY <1>1, <1>2, <1>3, InQueues
  <2>2. ASSUME <<current, 1>> \in OnQueues(n) PROVE head.no = n
    <3>1. PICK d \in Contexts : \E i \in 1..Len(queue[d]) :
              <<current, 1>> = <<d, i>> /\ queue[d][i].no = n
      BY <2>2, InQueues
    <3> QED
      BY <1>2, <3>1
  <2> QED
    BY <2>1, <2>2
\* Whatever is still queued was queued one place further back.
<1>6. ASSUME NEW y \in OnQueues(n)'
      PROVE  \E x \in OnQueues(n) : x # <<current, 1>> /\ y = back(x)
  <2>1. PICK d \in Contexts : \E i \in 1..Len(queue'[d]) :
            y = <<d, i>> /\ queue'[d][i].no = n
    BY <1>4
  <2>2. PICK i \in 1..Len(queue'[d]) : y = <<d, i>> /\ queue'[d][i].no = n
    BY <2>1
  <2>3. CASE d = current
    <3>1. i \in 1..Len(Tail(line)) /\ Tail(line)[i].no = n
      BY <1>1, <2>2, <2>3
    <3>2. /\ i + 1 \in 1..Len(line) /\ line[i + 1].no = n /\ i + 1 # 1
          /\ (i + 1) - 1 = i
      BY <1>2, <1>3, <3>1
    <3>3. <<current, i + 1>> \in OnQueues(n) /\ <<current, i + 1>> # <<current, 1>>
      BY <1>1, <3>2, InQueues
    <3>4. back(<<current, i + 1>>) = y
      BY <2>2, <2>3, <3>2
    <3> QED
      BY <3>3, <3>4
  <2>4. CASE d # current
    <3>1. y \in OnQueues(n)
      BY <1>1, <2>2, <2>4, InQueues
    <3>2. y # <<current, 1>> /\ back(y) = y
      BY <2>2, <2>4
    <3> QED
      BY <3>1, <3>2
  <2> QED
    BY <2>3, <2>4
<1>7. ASSUME NEW x \in OnQueues(n), x # <<current, 1>> PROVE back(x) \in OnQueues(n)'
  <2>1. PICK d \in Contexts : \E i \in 1..Len(queue[d]) :
            x = <<d, i>> /\ queue[d][i].no = n
    BY InQueues
  <2>2. PICK i \in 1..Len(queue[d]) : x = <<d, i>> /\ queue[d][i].no = n
    BY <2>1
  <2>3. CASE d = current
    <3>1. i \in 1..Len(line) /\ i # 1 /\ line[i].no = n
      BY <1>7, <2>2, <2>3
    <3>2. i - 1 \in 1..Len(queue'[current]) /\ queue'[current][i - 1].no = n
      BY <1>1, <1>3, <3>1
    <3>3. back(x) = <<current, i - 1>>
      BY <2>2, <2>3
    <3> QED
      BY <1>1, <1>4, <3>2, <3>3
  <2>4. CASE d # current
    <3>1. back(x) = x
      BY <2>2, <2>4
    <3> QED
      BY <1>1, <1>4, <2>2, <2>4, <3>1
  <2> QED
    BY <2>3, <2>4
<1> HIDE DEF line, back
<1>8. ASSUME OnQueues(n) = {} PROVE OnQueues(n)' = {} /\ head.no # n
  BY <1>5, <1>6, <1>8
<1>9. ASSUME NEW z, OnQueues(n) = {z}
      PROVE  IF head.no = n THEN OnQueues(n)' = {} ELSE OnQueues(n)' = {back(z)}
  <2>1. CASE head.no = n
    <3>1. z = <<current, 1>>
      BY <1>5, <1>9, <2>1
    <3> QED
      BY <1>6, <1>9, <2>1, <3>1
  <2>2. CASE head.no # n
    <3>1. z # <<current, 1>>
      BY <1>5, <1>9, <2>2
    <3> QED
      BY <1>6, <1>7, <1>9, <2>2, <3>1
  <2> QED
    BY <2>1, <2>2
<1> QED
  BY <1>8, <1>9 DEF IsOne, head, line

\* A number whose notification stays where it is.
LEMMA PlacesStay ==
    ASSUME NEW n, WithThreads(n)' = WithThreads(n), OnQueues(n)' = OnQueues(n),
           AtBroker(n)' = AtBroker(n), Lost(n)' = Lost(n)
    PROVE  /\ Placed(n) => Placed(n)'
           /\ Nowhere(n) => Nowhere(n)'
BY DEF Placed, Nowhere

LEMMA NumbersStay ==
    ASSUME NumbersOK, UNCHANGED <<seq, held, queue, out, gone>>
    PROVE  NumbersOK'
<1>1. ASSUME NEW n
      PROVE  /\ WithThreads(n)' = WithThreads(n) /\ OnQueues(n)' = OnQueues(n)
             /\ AtBroker(n)' = AtBroker(n) /\ Lost(n)' = Lost(n)
  BY DEF WithThreads, OnQueues, AtBroker, Lost
<1>2. ASSUME NEW n
      PROVE  (Placed(n) => Placed(n)') /\ (Nowhere(n) => Nowhere(n)')
  BY <1>1, PlacesStay
<1> QED
  BY <1>2 DEF NumbersOK

\* The notification thread t holds: which numbers are with threads, and which
\* without it.
LEMMA HeldNumbers ==
    ASSUME PubTypeOK, NEW t \in Threads, NEW m \in Messages \cup {None}, NEW n,
           held' = [held EXCEPT ![t] = m]
    PROVE  WithThreads(n)' = (WithThreads(n) \ {t})
                             \cup (IF Carries(m, n) THEN {t} ELSE {})
BY DEF WithThreads, PubTypeOK

\* A thread's hands are empty again.
LEMMA EmptyHands ==
    ASSUME PubTypeOK, NEW t \in Threads, NEW n, held' = [held EXCEPT ![t] = None]
    PROVE  WithThreads(n)' = WithThreads(n) \ {t}
BY DEF WithThreads, Carries, PubTypeOK

LEMMA MakeNumbers ==
    ASSUME PubTypeOK, NumbersOK, NEW t \in Threads, NEW o \in Outlets, Make(t, o)
    PROVE  NumbersOK'
<1> DEFINE msg == [of |-> o, by |-> t, id |-> made + 1,
                   no |-> IF o = "notify" THEN seq + 1 ELSE 0]
<1>1. /\ held[t] = None /\ held' = [held EXCEPT ![t] = msg]
      /\ UNCHANGED <<queue, out, gone>>
      /\ seq' = IF o = "notify" THEN seq + 1 ELSE seq
      /\ seq \in Nat
  BY DEF Make, fate, PubTypeOK
<1>2. msg \in Messages
  <2>1. /\ made + 1 \in 1..MaxMade /\ seq + 1 \in 0..MaxMade /\ 0 \in 0..MaxMade
    BY PublishingAssumption DEF Make, PubTypeOK
  <2> QED
    BY <2>1 DEF Messages
<1>3. msg.no = IF o = "notify" THEN seq + 1 ELSE 0
  OBVIOUS
<1> HIDE DEF msg
<1>4. ASSUME NEW n
      PROVE  /\ OnQueues(n)' = OnQueues(n) /\ AtBroker(n)' = AtBroker(n)
             /\ Lost(n)' = Lost(n)
  BY <1>1 DEF OnQueues, AtBroker, Lost
<1>5. ASSUME NEW n
      PROVE  WithThreads(n)' = WithThreads(n) \cup (IF msg.no = n THEN {t} ELSE {})
  <2>1. t \notin WithThreads(n)
    BY <1>1 DEF WithThreads, Carries
  <2>2. msg \in Messages \cup {None} /\ (Carries(msg, n) <=> msg.no = n)
    BY <1>2, MessageIs
  <2>3. WithThreads(n)' = (WithThreads(n) \ {t})
                          \cup (IF Carries(msg, n) THEN {t} ELSE {})
    BY <1>1, <2>2, HeldNumbers
  <2> QED
    BY <2>1, <2>2, <2>3
<1>6. ASSUME NEW n \in Nat \ {0}
      PROVE  IF n <= seq' THEN Placed(n)' ELSE Nowhere(n)'
  <2>1. CASE msg.no = n
    <3>1. n = seq + 1 /\ seq' = n /\ ~(n <= seq)
      BY <1>1, <1>3, <1>6, <2>1
    <3>2. Nowhere(n)
      BY <1>6, <3>1 DEF NumbersOK
    <3>3. WithThreads(n)' = {t}
      BY <1>5, <2>1, <3>2 DEF Nowhere
    <3> QED
      BY <1>4, <3>1, <3>2, <3>3 DEF Nowhere, Placed, Alone, IsOne
  <2>2. CASE msg.no # n
    <3>1. WithThreads(n)' = WithThreads(n)
      BY <1>5, <2>2
    <3>2. n <= seq' <=> n <= seq
      BY <1>1, <1>3, <1>6, <2>2
    <3> QED
      BY <1>4, <1>6, <3>1, <3>2, PlacesStay DEF NumbersOK
  <2> QED
    BY <2>1, <2>2
<1> QED
  BY <1>6 DEF NumbersOK

\* What a thread lets go of was in its hands alone.
LEMMA Handed ==
    ASSUME PubTypeOK, NumbersOK, NEW t \in Threads, held[t] # None,
           NEW n \in Nat \ {0}, held[t].no = n
    PROVE  /\ n <= seq /\ WithThreads(n) = {t} /\ OnQueues(n) = {}
           /\ AtBroker(n) = {} /\ Lost(n) = {}
<1>1. t \in WithThreads(n)
  BY DEF WithThreads, Carries
<1>2. n <= seq /\ Placed(n)
  BY <1>1 DEF NumbersOK, Nowhere
<1> QED
  BY <1>1, <1>2 DEF Placed, Alone, IsOne

LEMMA DropNumbers ==
    ASSUME PubTypeOK, NumbersOK, NEW t \in Threads, held[t] # None,
           Drops(t), UNCHANGED <<seq, queue, out>>
    PROVE  NumbersOK'
<1> DEFINE msg == held[t]
<1>1. /\ msg \in Messages /\ held' = [held EXCEPT ![t] = None]
      /\ gone' = gone \cup {msg}
  BY DEF Drops, PubTypeOK
<1>2. ASSUME NEW n
      PROVE  /\ OnQueues(n)' = OnQueues(n) /\ AtBroker(n)' = AtBroker(n)
             /\ Lost(n)' = Lost(n) \cup (IF msg.no = n THEN {msg} ELSE {})
             /\ WithThreads(n)' = WithThreads(n) \ {t}
             /\ t \in WithThreads(n) <=> msg.no = n
  <2>1. WithThreads(n)' = WithThreads(n) \ {t}
    BY <1>1, EmptyHands
  <2>2. Carries(msg, n) <=> msg.no = n
    BY <1>1, MessageIs
  <2> QED
    BY <1>1, <2>1, <2>2 DEF OnQueues, AtBroker, Lost, WithThreads
<1> HIDE DEF msg
<1>3. ASSUME NEW n \in Nat \ {0}
      PROVE  IF n <= seq THEN Placed(n)' ELSE Nowhere(n)'
  <2>1. CASE msg.no = n
    <3>1. /\ n <= seq /\ WithThreads(n) = {t} /\ OnQueues(n) = {}
          /\ AtBroker(n) = {} /\ Lost(n) = {}
      BY <1>3, <2>1, Handed DEF msg
    <3>2. Lost(n)' = {msg} /\ WithThreads(n)' = {}
      BY <1>2, <2>1, <3>1
    <3> QED
      BY <1>2, <3>1, <3>2 DEF Placed, Alone, IsOne
  <2>2. CASE msg.no # n
    <3>1. WithThreads(n)' = WithThreads(n) /\ Lost(n)' = Lost(n)
      BY <1>2, <2>2
    <3> QED
      BY <1>2, <1>3, <3>1, PlacesStay DEF NumbersOK
  <2> QED
    BY <2>1, <2>2
<1> QED
  BY <1>3 DEF NumbersOK

LEMMA AboutToEnqueue ==
    ASSUME PubTypeOK, NEW t \in Threads, Enqueue(t)
    PROVE  held[t] \in Messages /\ held[t] # None /\ to[t] \in Contexts
<1>1. to[t] \in 1..current
  BY PublishingAssumption DEF Enqueue, PubTypeOK, Contexts
<1>2. 1..current \subseteq Contexts
  BY PublishingAssumption DEF PubTypeOK, Contexts
<1> QED
  BY <1>1, <1>2 DEF Enqueue, PubTypeOK

LEMMA EnqueueNumbers ==
    ASSUME PubTypeOK, PubTypeOK', NumbersOK, NEW t \in Threads, Enqueue(t)
    PROVE  NumbersOK'
<1> DEFINE msg == held[t]
<1>1. /\ msg \in Messages /\ msg # None /\ to[t] \in Contexts /\ Put(to[t], msg)
      /\ held' = [held EXCEPT ![t] = None] /\ UNCHANGED <<seq, out, gone>>
  BY AboutToEnqueue DEF Enqueue, making, fate
<1>2. ASSUME NEW n
      PROVE  /\ AtBroker(n)' = AtBroker(n) /\ Lost(n)' = Lost(n)
             /\ WithThreads(n)' = WithThreads(n) \ {t}
             /\ t \in WithThreads(n) <=> msg.no = n
             /\ msg.no # n => OnQueues(n)' = OnQueues(n)
             /\ msg.no = n /\ OnQueues(n) = {} => IsOne(OnQueues(n)')
  <2>1. WithThreads(n)' = WithThreads(n) \ {t}
    BY <1>1, EmptyHands
  <2>2. Carries(msg, n) <=> msg.no = n
    BY <1>1, MessageIs
  <2>3. /\ msg.no # n => OnQueues(n)' = OnQueues(n)
        /\ msg.no = n /\ OnQueues(n) = {} => IsOne(OnQueues(n)')
    BY <1>1, EnqueuedNumbers
  <2> QED
    BY <1>1, <2>1, <2>2, <2>3 DEF AtBroker, Lost, WithThreads
<1> HIDE DEF msg
<1>3. ASSUME NEW n \in Nat \ {0}
      PROVE  IF n <= seq THEN Placed(n)' ELSE Nowhere(n)'
  <2>1. CASE msg.no = n
    <3>1. /\ n <= seq /\ WithThreads(n) = {t} /\ OnQueues(n) = {}
          /\ AtBroker(n) = {} /\ Lost(n) = {}
      BY <1>1, <1>3, <2>1, Handed DEF msg
    <3>2. IsOne(OnQueues(n)') /\ WithThreads(n)' = {}
      BY <1>2, <2>1, <3>1
    <3> QED
      BY <1>2, <3>1, <3>2 DEF Placed, Alone
  <2>2. CASE msg.no # n
    <3>1. WithThreads(n)' = WithThreads(n) /\ OnQueues(n)' = OnQueues(n)
      BY <1>2, <2>2
    <3> QED
      BY <1>2, <1>3, <3>1, PlacesStay DEF NumbersOK
  <2> QED
    BY <2>1, <2>2
<1> QED
  BY <1>1, <1>3 DEF NumbersOK

\* What the host sends itself carries no number.
LEMMA SendNumbers ==
    ASSUME PubTypeOK, PubTypeOK', NumbersOK, NEW u \in Users, Send(u)
    PROVE  NumbersOK'
<1> DEFINE msg == [of |-> u, by |-> Main, id |-> made + 1, no |-> 0]
<1>1. UNCHANGED <<seq, held, out>>
  BY DEF Send, hands
<1>2. msg \in Messages /\ msg.no = 0
  <2>1. made + 1 \in 1..MaxMade /\ 0 \in 0..MaxMade
    BY PublishingAssumption DEF Send, PubTypeOK
  <2> QED
    BY <2>1 DEF Messages, Threads
<1>3. \/ owned'[u] \in looped /\ Put(owned'[u], msg) /\ UNCHANGED gone
      \/ gone' = gone \cup {msg} /\ UNCHANGED queue
  BY DEF Send
<1>4. looped \subseteq Contexts
  BY PublishingAssumption DEF PubTypeOK, Contexts
<1> HIDE DEF msg
<1>5. ASSUME NEW n \in Nat \ {0}
      PROVE  OnQueues(n)' = OnQueues(n) /\ Lost(n)' = Lost(n)
  <2>1. msg.no # n /\ ~Carries(msg, n)
    BY <1>2, <1>5, MessageIs
  <2>2. CASE owned'[u] \in looped /\ Put(owned'[u], msg) /\ UNCHANGED gone
    BY <1>2, <1>4, <2>1, <2>2, EnqueuedNumbers DEF Lost
  <2>3. CASE gone' = gone \cup {msg} /\ UNCHANGED queue
    BY <2>1, <2>3 DEF OnQueues, Lost
  <2> QED
    BY <1>3, <2>2, <2>3
<1>6. ASSUME NEW n
      PROVE  WithThreads(n)' = WithThreads(n) /\ AtBroker(n)' = AtBroker(n)
  BY <1>1 DEF WithThreads, AtBroker
<1> QED
  BY <1>1, <1>5, <1>6, PlacesStay DEF NumbersOK

LEMMA DrainNumbers ==
    ASSUME PubTypeOK, PubTypeOK', NumbersOK, Drain
    PROVE  NumbersOK'
<1> DEFINE msg == Head(queue[current])
<1>1. /\ msg \in Messages /\ UNCHANGED <<seq, held>> /\ out \in Seq(Messages)
      /\ \/ out' = Append(out, msg) /\ UNCHANGED gone
         \/ gone' = gone \cup {msg} /\ UNCHANGED out
  BY TailMessages DEF Drain, PubTypeOK, making, hands
<1>2. ASSUME NEW n
      PROVE  /\ OnQueues(n) = {} => OnQueues(n)' = {} /\ msg.no # n
             /\ IsOne(OnQueues(n)) => IF msg.no = n THEN OnQueues(n)' = {}
                                      ELSE IsOne(OnQueues(n)')
  BY DrainedNumbers
<1> HIDE DEF msg
<1>3. ASSUME NEW n PROVE WithThreads(n)' = WithThreads(n)
  BY <1>1 DEF WithThreads
<1>4. ASSUME NEW n
      PROVE  /\ msg.no # n => AtBroker(n)' = AtBroker(n) /\ Lost(n)' = Lost(n)
             /\ msg.no = n /\ AtBroker(n) = {} /\ Lost(n) = {} =>
                   \/ IsOne(AtBroker(n)') /\ Lost(n)' = {}
                   \/ AtBroker(n)' = {} /\ IsOne(Lost(n)')
  <2>1. Carries(msg, n) <=> msg.no = n
    BY <1>1, MessageIs
  <2>2. CASE out' = Append(out, msg) /\ UNCHANGED gone
    <3>1. /\ DOMAIN out = 1..Len(out) /\ DOMAIN out' = 1..Len(out) + 1
          /\ Len(out) \in Nat
          /\ \A i \in 1..Len(out) : out'[i] = out[i]
          /\ out'[Len(out) + 1] = msg
      BY <1>1, <2>2, AppendMessage
    <3>2. AtBroker(n)' = AtBroker(n)
              \cup (IF Carries(msg, n) THEN {Len(out) + 1} ELSE {})
      BY <3>1 DEF AtBroker
    <3>3. Lost(n)' = Lost(n)
      BY <2>2 DEF Lost
    <3> QED
      BY <2>1, <3>2, <3>3 DEF IsOne
  <2>3. CASE gone' = gone \cup {msg} /\ UNCHANGED out
    <3>1. Lost(n)' = Lost(n) \cup (IF Carries(msg, n) THEN {msg} ELSE {})
      BY <2>3 DEF Lost
    <3>2. AtBroker(n)' = AtBroker(n)
      BY <2>3 DEF AtBroker
    <3> QED
      BY <2>1, <3>1, <3>2 DEF IsOne
  <2> QED
    BY <1>1, <2>2, <2>3
<1>5. ASSUME NEW n
      PROVE  (Placed(n) => Placed(n)') /\ (Nowhere(n) => Nowhere(n)')
  <2>1. CASE OnQueues(n) = {}
    BY <1>2, <1>3, <1>4, <2>1, PlacesStay
  <2>2. CASE IsOne(OnQueues(n)) /\ Placed(n)
    <3>1. WithThreads(n) = {} /\ AtBroker(n) = {} /\ Lost(n) = {} /\ OnQueues(n) # {}
      BY <2>2 DEF Placed, Alone, IsOne
    <3>2. CASE msg.no = n
      BY <1>2, <1>3, <1>4, <2>2, <3>1, <3>2 DEF Placed, Alone, Nowhere
    <3>3. CASE msg.no # n
      BY <1>2, <1>3, <1>4, <2>2, <3>1, <3>3 DEF Placed, Alone, Nowhere
    <3> QED
      BY <3>2, <3>3
  <2> QED
    BY <2>1, <2>2 DEF Placed, Alone, Nowhere
<1> QED
  BY <1>1, <1>5 DEF NumbersOK

LEMMA NumbersStep ==
    ASSUME PubTypeOK, PubTypeOK', NumbersOK, [PubNext]_<<vars, pubVars>>
    PROVE  NumbersOK'
<1> USE DEF gateway, making, hands, fate
<1>1. CASE \E new \in BOOLEAN : StartContext(new)
  BY <1>1, NumbersStay DEF StartContext
<1>2. CASE StartPublishers \/ StopPublishers \/ StopContext
  BY <1>2, NumbersStay DEF StartPublishers, StopPublishers, StopContext
<1>3. CASE UNCHANGED pubVars
  BY <1>3, NumbersStay DEF pubVars
<1>4. ASSUME NEW t \in Threads, Enter(t) PROVE NumbersOK'
  <2>1. CASE Enters(t)
    BY <1>4, <2>1, NumbersStay DEF Enter, Enters
  <2>2. CASE Drops(t)
    BY <1>4, <2>2, DropNumbers DEF Enter
  <2> QED
    BY <1>4, <2>1, <2>2 DEF Enter
<1>5. ASSUME NEW t \in Threads, Enqueue(t) \/ \E o \in Outlets : Make(t, o)
      PROVE  NumbersOK'
  BY <1>5, EnqueueNumbers, MakeNumbers
<1>6. ASSUME NEW u \in Users, Construct(u) \/ Send(u) PROVE NumbersOK'
  <2>1. CASE Construct(u)
    BY <2>1, NumbersStay DEF Construct
  <2> QED
    BY <1>6, <2>1, SendNumbers
<1>7. CASE Drain
  BY <1>7, DrainNumbers
<1> QED
  BY <1>1, <1>2, <1>3, <1>4, <1>5, <1>6, <1>7 DEF PubNext

\* The notifier's numbers neither repeat nor get lost unseen (notifier.py,
\* add_msg_to_queue()): whoever notifies, and however the gateway restarts, each
\* number given is with one thread, on one queue, at the broker or dropped, once.
THEOREM NumbersOnce == PubSpec => []NumberedOnce
<1>1. PubInit => NumbersOK
  <2> SUFFICES ASSUME PubInit, NEW n \in Nat \ {0}
               PROVE  ~(n <= seq) /\ Nowhere(n)
    BY DEF NumbersOK
  <2>1. ~(n <= seq)
    BY DEF PubInit
  <2>2. \A c \in Contexts : DOMAIN queue[c] = {}
    BY DEF PubInit
  <2>3. DOMAIN out = {}
    BY DEF PubInit
  <2>4. WithThreads(n) = {} /\ AtBroker(n) = {} /\ Lost(n) = {}
    BY <2>3 DEF PubInit, WithThreads, AtBroker, Lost, Carries
  <2>5. OnQueues(n) = {}
    BY <2>2 DEF OnQueues
  <2> QED
    BY <2>1, <2>4, <2>5 DEF Nowhere
<1>2. /\ PubTypeOK /\ PubTypeOK' /\ NumbersOK
      /\ [PubNext]_<<vars, pubVars>>
      => NumbersOK'
  BY NumbersStep
<1>3. PubTypeOK /\ NumbersOK => NumberedOnce
  <2> SUFFICES ASSUME PubTypeOK, NumbersOK, NEW n \in 1..seq PROVE Copies(n) = 1
    BY DEF NumberedOnce
  <2>1. n \in Nat \ {0} /\ n <= seq
    BY DEF PubTypeOK
  <2>2. Placed(n)
    BY <2>1 DEF NumbersOK
  <2> QED
    BY <2>2, AloneCounts DEF Placed, Copies
<1> QED
  BY <1>1, <1>2, <1>3, PublishingTypeCorrect, PTL DEF PubSpec
=============================================================================
