-------------------------- MODULE NodeContextProofs --------------------------
(* Theorems about NodeContext, for any set of topics and any bound MaxSent. *)
EXTENDS NodeContext, SequenceTheorems, TLAPS

LEMMA Empty == <<>> \in Seq(Nat) /\ Len(<<>>) = 0
OBVIOUS

LEMMA Singleton ==
    ASSUME NEW e \in Nat
    PROVE  <<e>> \in Seq(Nat) /\ Len(<<e>>) = 1 /\ <<e>>[1] = e /\ <<e>> # <<>>
OBVIOUS

LEMMA ShortSequence ==
    ASSUME NEW s \in Seq(Nat), Len(s) <= 1, s # <<>>
    PROVE  Len(s) = 1 /\ s[1] \in Nat /\ s = <<s[1]>>
<1>0. Len(s) \in Nat \ {0}
  OBVIOUS
<1>1. Len(s) = 1
  <2>1. \A n \in Nat \ {0} : n <= 1 => n = 1
    OBVIOUS
  <2> QED
    BY <1>0, <2>1
<1>2. s[1] \in Nat
  BY <1>1, ElementOfSeq
<1>3. s = <<s[1]>>
  <2>1. /\ <<s[1]>> \in Seq(Nat) /\ Len(s) = Len(<<s[1]>>)
        /\ \A i \in 1..Len(s) : s[i] = <<s[1]>>[i]
    BY <1>1, <1>2, Singleton
  <2> HIDE <1>1
  <2> QED
    BY <2>1, SeqEqual
<1> QED
  BY <1>1, <1>2, <1>3

\* Types of the sequences that the steps build.
LEMMA SequenceTypes ==
    ASSUME NEW s \in Seq(Nat), NEW t \in Seq(Nat), NEW e \in Nat
    PROVE  /\ <<>> \in Seq(Nat) /\ Len(<<>>) = 0 /\ Len(s) \in Nat
           /\ s \o t \in Seq(Nat)
           /\ Append(s, e) \in Seq(Nat)
           /\ s # <<>> => Head(s) \in Nat /\ Tail(s) \in Seq(Nat)
BY EmptySeq, LenProperties, ConcatProperties, AppendProperties, HeadTailProperties

-----------------------------------------------------------------------------
(* Type correctness, in three parts: the loop with its topics, the outbox, and *)
(* the drain task, which ties the two together.                            *)

LoopOK ==
    /\ phase \in {"fresh", "connecting", "subscribing", "serving", "closing",
                  "backoff", "idle"}
    /\ stopped \in BOOLEAN
    /\ table \subseteq Topics /\ todo \subseteq Topics /\ session \subseteq Topics

OutboxOK ==
    /\ inFlight \in Seq(Nat) /\ outgoing \in Seq(Nat) /\ out \in Seq(Nat)
    /\ sent \in Nat /\ lostHere \in Nat

DrainOK ==
    /\ drain \in {"none", "alive", "dead"}
    /\ drain # "none" => phase \in {"serving", "closing"}
    /\ Len(inFlight) <= 1
    /\ inFlight # <<>> => drain = "alive"

LEMMA Parts == TypeOK <=> LoopOK /\ OutboxOK /\ DrainOK
BY DEF TypeOK, LoopOK, OutboxOK, DrainOK

LEMMA LoopStep ==
    ASSUME LoopOK, [Next]_vars
    PROVE  LoopOK'
<1>1. CASE Network \/ StartTasks \/ \E t \in Topics : Subscribe(t) \/ Refuse(t)
  BY <1>1 DEF LoopOK, Network, Connect, ConnectFails, Disconnect, Refuse, StartTasks,
              Subscribe, loop, topics
<1>2. CASE Finish \/ Retry
  BY <1>2 DEF LoopOK, Finish, Retry, topics
<1>3. CASE Drain
  BY <1>3 DEF LoopOK, Drain, Take, Publish, PublishFails, loop, topics
<1>4. CASE Host
  BY <1>4 DEF LoopOK, Host, Start, Stop, Enqueue, Register, Unregister, loop, topics
<1>5. CASE UNCHANGED vars
  BY <1>5 DEF LoopOK, vars, loop, topics
<1> QED
  BY <1>1, <1>2, <1>3, <1>4, <1>5 DEF Next, Loop

LEMMA InterruptedTypes ==
    ASSUME OutboxOK, Interrupted
    PROVE  out' \in Seq(Nat) /\ lostHere' \in Nat
<1>1. out \o inFlight \in Seq(Nat) /\ Len(inFlight) \in Nat
  BY SequenceTypes DEF OutboxOK
<1>2. lostHere + Len(inFlight) \in Nat
  BY <1>1 DEF OutboxOK
<1> QED
  BY <1>1, <1>2 DEF OutboxOK, Interrupted

LEMMA OutboxStep ==
    ASSUME OutboxOK, [Next]_vars
    PROVE  OutboxOK'
<1>1. CASE Network \/ StartTasks \/ Retry \/ \E t \in Topics : Subscribe(t) \/ Refuse(t)
  BY <1>1 DEF OutboxOK, Network, Connect, ConnectFails, Disconnect, Refuse, StartTasks,
              Retry, Subscribe, outbox
<1>2. CASE Finish
  BY <1>2, InterruptedTypes, Empty DEF OutboxOK, Finish
<1>3. CASE Drain
  <2>2. CASE Take
    BY <2>2, SequenceTypes, Singleton DEF OutboxOK, Take
  <2>3. CASE Publish \/ PublishFails
    <3>1. Interrupted
      BY <2>3 DEF Publish, PublishFails, Interrupted
    <3> QED
      BY <2>3, <3>1, InterruptedTypes, Empty DEF OutboxOK, Publish, PublishFails
  <2> QED
    BY <1>3, <2>2, <2>3 DEF Drain
<1>4. CASE Enqueue
  BY <1>4 DEF OutboxOK, Enqueue
<1>5. CASE Start \/ Stop \/ \E t \in Topics : Register(t) \/ Unregister(t)
  BY <1>5 DEF OutboxOK, Start, Stop, Register, Unregister, outbox
<1>6. CASE UNCHANGED vars
  BY <1>6 DEF OutboxOK, vars, outbox
<1> QED
  BY <1>1, <1>2, <1>3, <1>4, <1>5, <1>6 DEF Next, Loop, Host

LEMMA DrainStep ==
    ASSUME OutboxOK, DrainOK, [Next]_vars
    PROVE  DrainOK'
<1>1. CASE Network \/ StartTasks \/ Retry \/ \E t \in Topics : Subscribe(t) \/ Refuse(t)
  BY <1>1 DEF OutboxOK, DrainOK, Network, Connect, ConnectFails, Disconnect, Refuse,
              StartTasks, Retry, Subscribe, outbox
<1>2. CASE Finish
  BY <1>2, Empty DEF DrainOK, Finish
<1>3. CASE Drain
  <2>1. CASE Take
    <3>1. Len(inFlight') = 1
      BY <2>1, SequenceTypes, Singleton DEF OutboxOK, Take
    <3> QED
      BY <2>1, <3>1 DEF DrainOK, Take, loop
  <2>2. CASE Publish \/ PublishFails
    BY <2>2, Empty DEF DrainOK, Publish, PublishFails, loop
  <2> QED
    BY <1>3, <2>1, <2>2 DEF Drain
<1>4. CASE Host
  BY <1>4 DEF DrainOK, Host, Start, Stop, Enqueue, Register, Unregister, outbox, loop
<1>5. CASE UNCHANGED vars
  BY <1>5 DEF DrainOK, vars, outbox, loop
<1> QED
  BY <1>1, <1>2, <1>3, <1>4, <1>5 DEF Next, Loop

\* The tasks of a connection live no longer than the connection, and a message
\* is in flight only in a drain task that runs (node_context.py, _run).
THEOREM ContextTypeCorrect == Spec => []TypeOK
<1>1. Init => TypeOK
  <2>1. Init => LoopOK
    BY DEF Init, LoopOK
  <2>2. Init => OutboxOK /\ DrainOK
    BY Empty DEF Init, OutboxOK, DrainOK
  <2> QED
    BY <2>1, <2>2, Parts
<1>2. TypeOK /\ [Next]_vars => TypeOK'
  BY LoopStep, OutboxStep, DrainStep DEF TypeOK, LoopOK, OutboxOK, DrainOK
<1> QED
  BY <1>1, <1>2, PTL DEF Spec

-----------------------------------------------------------------------------
(* One message lost per connection.  A drain task that runs has lost none:  *)
(* losing one ends it.                                                     *)

LostOnce ==
    /\ lostHere <= 1
    /\ phase = "subscribing" \/ drain = "alive" => lostHere = 0

LEMMA LostOnceStep ==
    ASSUME TypeOK, LostOnce, [Next]_vars
    PROVE  LostOnce'
<1> USE DEF LostOnce
<1>0. OutboxOK /\ DrainOK
  BY Parts
<1>1. CASE Network \/ StartTasks \/ Retry \/ \E t \in Topics : Subscribe(t) \/ Refuse(t)
  BY <1>1, <1>0 DEF DrainOK, Network, Connect, ConnectFails, Disconnect, Refuse,
              StartTasks, Retry, Subscribe, outbox
<1>2. ASSUME Interrupted PROVE lostHere' <= 1
  <2>1. CASE inFlight = <<>>
    BY <1>0, <1>2, <2>1 DEF Interrupted, OutboxOK
  <2>2. CASE inFlight # <<>>
    BY <1>0, <1>2, <2>2, ShortSequence DEF Interrupted, OutboxOK, DrainOK
  <2> QED
    BY <2>1, <2>2
<1>3. CASE Finish
  BY <1>2, <1>3 DEF Finish
<1>4. CASE PublishFails
  BY <1>2, <1>4 DEF PublishFails
<1>5. CASE Take \/ Publish
  BY <1>5 DEF Take, Publish, loop
<1>6. CASE Host
  BY <1>6, <1>0 DEF Host, Start, Stop, Enqueue, Register, Unregister, outbox, loop
<1>7. CASE UNCHANGED vars
  BY <1>7 DEF vars, outbox, loop
<1> QED
  BY <1>1, <1>3, <1>4, <1>5, <1>6, <1>7 DEF Next, Loop, Drain

\* However a connection ends, at most the message in flight is lost with it
\* (node_context.py, _run and _drain_outgoing).
THEOREM LosesAtMostOne == Spec => []AtMostOneLost
<1>1. Init => LostOnce
  BY DEF Init, LostOnce
<1>2. TypeOK /\ LostOnce /\ [Next]_vars => LostOnce'
  BY LostOnceStep
<1>3. LostOnce => AtMostOneLost
  BY DEF LostOnce, AtMostOneLost
<1> QED
  BY <1>1, <1>2, <1>3, ContextTypeCorrect, PTL DEF Spec

-----------------------------------------------------------------------------
(* The refinement.  The queue of the outbox is the message in flight, if    *)
(* any, followed by the outgoing queue: taking a message changes nothing.   *)

LEMMA Prefixed ==
    ASSUME NEW e \in Nat, NEW t \in Seq(Nat)
    PROVE  <<e>> \o t # <<>> /\ Head(<<e>> \o t) = e /\ Tail(<<e>> \o t) = t
<1> DEFINE s == <<e>> \o t
<1>1. /\ s \in Seq(Nat) /\ Len(s) = Len(t) + 1 /\ s[1] = e
      /\ \A i \in 1..Len(t) : s[i + 1] = t[i]
  BY Singleton, ConcatProperties, LenProperties
<1> HIDE DEF s
<1>2. s # <<>>
  BY <1>1, EmptySeq, LenProperties
<1>3. Head(s) = e
  BY <1>1, <1>2
<1>4. /\ Tail(s) \in Seq(Nat) /\ Len(Tail(s)) = Len(t)
      /\ \A i \in 1..Len(Tail(s)) : Tail(s)[i] = t[i]
  BY <1>1, <1>2, HeadTailProperties, LenProperties
<1>5. Tail(s) = t
  BY <1>4, SeqEqual
<1> QED
  BY <1>2, <1>3, <1>5 DEF s

LEMMA HeadFirst ==
    ASSUME NEW t \in Seq(Nat), t # <<>>
    PROVE  <<Head(t)>> \o Tail(t) = t
<1>1. t = SubSeq(t, 1, Len(t)) /\ Tail(t) = SubSeq(t, 2, Len(t)) /\ Head(t) = t[1]
  BY SubSeqFull, TailIsSubSeq
<1>2. 1 \in 1..Len(t) /\ Len(t) \in 1..Len(t)
  BY EmptySeq
<1>3. SubSeq(t, 1, Len(t)) = <<t[1]>> \o SubSeq(t, 1 + 1, Len(t))
  BY <1>2, SubSeqRecursiveFirst
<1> QED
  BY <1>1, <1>3

LEMMA AppendLast ==
    ASSUME NEW s \in Seq(Nat), NEW t \in Seq(Nat), NEW e \in Nat
    PROVE  s \o Append(t, e) = Append(s \o t, e)
BY Singleton, AppendIsConcat, ConcatAssociative, ConcatProperties

boxed == <<sent, inFlight \o outgoing, out>>

\* An interrupted publish delivers the head of the outbox, loses it, or there
\* was nothing in flight.
LEMMA InterruptedMaps ==
    ASSUME TypeOK, Interrupted, inFlight' = <<>>, UNCHANGED <<sent, outgoing>>
    PROVE  [Box!Next]_boxed
<1>0. OutboxOK /\ DrainOK
  BY Parts
<1>1. CASE inFlight = <<>>
  <2>1. out \o inFlight = out /\ inFlight' \o outgoing' = inFlight \o outgoing
    BY <1>0, <1>1, ConcatEmptySeq DEF OutboxOK
  <2> QED
    BY <2>1 DEF Interrupted, boxed
<1>2. CASE inFlight # <<>>
  <2>0. inFlight[1] \in Nat /\ inFlight = <<inFlight[1]>>
    BY <1>0, <1>2, ShortSequence DEF OutboxOK, DrainOK
  <2>1. /\ inFlight \o outgoing # <<>>
        /\ Head(inFlight \o outgoing) = inFlight[1]
        /\ Tail(inFlight \o outgoing) = outgoing
    BY <1>0, <2>0, Prefixed DEF OutboxOK
  <2>2. out \o inFlight = Append(out, inFlight[1])
    <3>1. out \in Seq(Nat)
      BY <1>0 DEF OutboxOK
    <3>2. Append(out, inFlight[1]) = out \o <<inFlight[1]>>
      BY <2>0, <3>1, AppendIsConcat
    <3> QED
      BY <2>0, <3>2, Zenon
  <2>3. inFlight' \o outgoing' = outgoing
    BY <1>0, ConcatEmptySeq DEF OutboxOK
  <2> QED
    BY <2>1, <2>2, <2>3 DEF Interrupted, boxed, Box!Next, Box!Deliver, Box!Lose
<1> QED
  BY <1>1, <1>2

LEMMA StepMaps ==
    ASSUME TypeOK, [Next]_vars
    PROVE  [Box!Next]_boxed
<1>0. OutboxOK /\ DrainOK
  BY Parts
<1>1. CASE Network \/ StartTasks \/ Retry \/ \E t \in Topics : Subscribe(t) \/ Refuse(t)
  BY <1>1 DEF boxed, Network, Connect, ConnectFails, Disconnect, Refuse, StartTasks,
              Retry, Subscribe, outbox
<1>2. CASE Finish
  BY <1>2, InterruptedMaps DEF Finish
<1>3. CASE PublishFails
  BY <1>3, InterruptedMaps DEF PublishFails
<1>4. CASE Take
  BY <1>0, <1>4, HeadFirst, ConcatEmptySeq DEF OutboxOK, Take, boxed
<1>5. CASE Publish
  <2>1. Interrupted /\ inFlight' = <<>> /\ UNCHANGED <<sent, outgoing>>
    BY <1>5 DEF Publish, Interrupted
  <2> QED
    BY <2>1, InterruptedMaps
<1>6. CASE Enqueue
  <2>1. inFlight' \o outgoing' = Append(inFlight \o outgoing, sent + 1)
    BY <1>0, <1>6, AppendLast DEF OutboxOK, Enqueue
  <2> QED
    BY <1>6, <2>1 DEF Enqueue, Box!Next, Box!Put
<1>7. CASE Start \/ Stop \/ \E t \in Topics : Register(t) \/ Unregister(t)
  BY <1>7 DEF Start, Stop, Register, Unregister, outbox, boxed
<1>8. CASE UNCHANGED vars
  BY <1>8 DEF vars, outbox, boxed
<1> QED
  BY <1>1, <1>2, <1>3, <1>4, <1>5, <1>6, <1>7, <1>8 DEF Next, Loop, Drain, Host

\* The connection loop and the drain task implement the lossy first-in
\* first-out outbox (node_context.py, _run, _enqueue_outgoing, _drain_outgoing).
THEOREM RefinesOutbox == Spec => ImplementsOutbox
<1>1. Init => Box!Init
  BY DEF Init, Box!Init
<1>2. TypeOK /\ [Next]_vars => [Box!Next]_boxed
  BY StepMaps
<1> QED
  BY <1>1, <1>2, ContextTypeCorrect, PTL DEF Spec, ImplementsOutbox, Box!Spec, boxed

-----------------------------------------------------------------------------
BoxProofs == INSTANCE OutboxProofs WITH queue <- inFlight \o outgoing

\* The broker receives the messages in the order they were enqueued, each at
\* most once, whatever connections break in between.
THEOREM KeepsOrder == Spec => []InOrder
<1>1. Box!Spec => []Box!Ordered
  BY BoxProofs!OutboxOrdered
  DEF Box!Spec, Box!Init, Box!Next, Box!Put, Box!Deliver, Box!Lose,
      Box!Ordered, Box!Increasing, BoxProofs!Spec, BoxProofs!Init,
      BoxProofs!Next, BoxProofs!Put, BoxProofs!Deliver, BoxProofs!Lose,
      BoxProofs!Ordered, BoxProofs!Increasing
<1>2. Box!Ordered => InOrder
  BY DEF Box!Ordered, InOrder, Box!InOrder
<1> QED
  BY <1>1, <1>2, RefinesOutbox, PTL DEF ImplementsOutbox

-----------------------------------------------------------------------------
(* A pattern the client refuses, once it is in the table, stays there: every   *)
(* connection from then on lists it and ends with it.                          *)

Doomed ==
    /\ table \cap Invalid # {}
    /\ phase # "serving"
    /\ phase = "subscribing" => todo \cap Invalid # {}

LEMMA DoomedStays ==
    ASSUME Doomed, [Next]_vars
    PROVE  Doomed'
<1>1. CASE Network \/ StartTasks \/ \E t \in Topics : Subscribe(t) \/ Refuse(t)
  BY <1>1 DEF Doomed, Network, Connect, ConnectFails, Disconnect, Refuse, StartTasks,
              Subscribe, loop, topics
<1>2. CASE Finish \/ Retry
  BY <1>2 DEF Doomed, Finish, Retry, topics
<1>3. CASE Drain
  BY <1>3 DEF Doomed, Drain, Take, Publish, PublishFails, loop, topics
<1>4. CASE Start \/ Stop \/ Enqueue \/ \E t \in Topics : Register(t)
  BY <1>4 DEF Doomed, Start, Stop, Enqueue, Register, loop, topics
<1>5. ASSUME NEW t \in Topics, Unregister(t) PROVE Doomed'
  BY <1>5, NodeAssumption DEF Doomed, Unregister, loop
<1>6. CASE UNCHANGED vars
  BY <1>6 DEF Doomed, vars, loop, topics
<1> QED
  BY <1>1, <1>2, <1>3, <1>4, <1>5, <1>6 DEF Next, Loop, Host

\* A connection that begins with an invalid pattern among the registered ones
\* never serves, nor does a later one, whatever the host and the network do
\* (node_context.py, _run, _desired_subscriptions).
THEOREM Poisons == Spec => Poisoned
<1>1. phase = "connecting" /\ table \cap Invalid # {} => Doomed
  BY DEF Doomed
<1>2. Doomed /\ [Next]_vars => Doomed'
  BY DoomedStays
<1>3. Doomed => phase # "serving"
  BY DEF Doomed
<1> QED
  BY <1>1, <1>2, <1>3, PTL DEF Spec, Poisoned
=============================================================================
