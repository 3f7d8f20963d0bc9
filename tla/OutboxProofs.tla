---------------------------- MODULE OutboxProofs ----------------------------
(* The outbox delivers in order, for any number of messages.               *)
EXTENDS Outbox, TLAPS

LEMMA AppendElements ==
    ASSUME NEW s \in Seq(Nat), NEW e \in Nat
    PROVE  /\ Append(s, e) \in Seq(Nat)
           /\ Len(Append(s, e)) = Len(s) + 1
           /\ \A i \in 1..Len(s) : Append(s, e)[i] = s[i]
           /\ Append(s, e)[Len(s) + 1] = e
OBVIOUS

LEMMA TailElements ==
    ASSUME NEW s \in Seq(Nat), s # <<>>
    PROVE  /\ Tail(s) \in Seq(Nat) /\ Head(s) \in Nat /\ Head(s) = s[1]
           /\ Len(s) \in Nat \ {0} /\ Len(Tail(s)) = Len(s) - 1
           /\ \A i \in 1..Len(Tail(s)) : Tail(s)[i] = s[i + 1]
OBVIOUS

LEMMA LaterIncreasing ==
    ASSUME NEW s \in Seq(Nat), Increasing(s), NEW e \in Nat,
           \A i \in 1..Len(s) : s[i] < e
    PROVE  Increasing(Append(s, e))
<1> SUFFICES ASSUME NEW i \in 1..Len(s) + 1, NEW j \in 1..Len(s) + 1, i < j
             PROVE  Append(s, e)[i] < Append(s, e)[j]
  BY AppendElements DEF Increasing
<1>1. i \in 1..Len(s)
  OBVIOUS
<1>2. CASE j \in 1..Len(s)
  BY <1>1, <1>2, AppendElements DEF Increasing
<1>3. CASE j = Len(s) + 1
  BY <1>1, <1>3, AppendElements
<1> QED
  BY <1>2, <1>3

LEMMA TailIncreasing ==
    ASSUME NEW s \in Seq(Nat), s # <<>>, Increasing(s)
    PROVE  /\ Increasing(Tail(s))
           /\ \A i \in 1..Len(Tail(s)) : Head(s) < Tail(s)[i]
BY TailElements DEF Increasing

\* The order is an invariant of the outbox (node_context.py, the queue of
\* _enqueue_outgoing emptied by _drain_outgoing).
THEOREM OutboxOrdered == Spec => []Ordered
<1>1. Init => Ordered
  BY DEF Init, Ordered, Increasing
<1>2. Ordered /\ [Next]_<<sent, queue, out>> => Ordered'
  <2> SUFFICES ASSUME Ordered, [Next]_<<sent, queue, out>> PROVE Ordered'
    OBVIOUS
  <2>0. sent \in Nat /\ queue \in Seq(Nat) /\ out \in Seq(Nat)
    BY DEF Ordered
  <2>1. CASE Put
    <3>1. Increasing(queue')
      <4>1. queue' = Append(queue, sent + 1) /\ sent + 1 \in Nat
        BY <2>0, <2>1 DEF Put
      <4>2. Increasing(queue) /\ \A i \in 1..Len(queue) : queue[i] < sent + 1
        BY <2>0 DEF Ordered
      <4> QED
        BY <2>0, <4>1, <4>2, LaterIncreasing
    <3>2. \A i \in 1..Len(queue') : queue'[i] <= sent'
      BY <2>0, <2>1, AppendElements DEF Put, Ordered
    <3>3. \A i \in 1..Len(out), j \in 1..Len(queue') : out[i] < queue'[j]
      <4>1. \A i \in 1..Len(out) : out[i] < sent + 1
        BY <2>0 DEF Ordered
      <4>2. queue' = Append(queue, sent + 1) /\ sent + 1 \in Nat
        BY <2>0, <2>1 DEF Put
      <4> QED
        BY <2>0, <4>1, <4>2, AppendElements DEF Ordered
    <3> QED
      BY <2>0, <2>1, <3>1, <3>2, <3>3, AppendElements DEF Put, Ordered
  <2>2. CASE Deliver
    <3>0. queue # <<>>
      BY <2>2 DEF Deliver
    <3>1. Increasing(out')
      <4>1. Head(queue) \in Nat /\ Head(queue) = queue[1] /\ 1 \in 1..Len(queue)
        BY <2>0, <3>0, TailElements
      <4>2. \A i \in 1..Len(out) : out[i] < Head(queue)
        BY <4>1 DEF Ordered
      <4>3. Increasing(out)
        BY DEF Ordered
      <4>4. Increasing(Append(out, Head(queue)))
        BY <2>0, <4>1, <4>2, <4>3, LaterIncreasing
      <4> QED
        BY <2>2, <4>4 DEF Deliver
    <3>2. Increasing(queue') /\ \A j \in 1..Len(queue') : Head(queue) < queue'[j]
      BY <2>0, <2>2, <3>0, TailIncreasing DEF Deliver, Ordered
    <3>3. \A i \in 1..Len(out'), j \in 1..Len(queue') : out'[i] < queue'[j]
      BY <2>0, <2>2, <3>0, <3>2, TailElements, AppendElements DEF Deliver, Ordered
    <3>4. /\ \A j \in 1..Len(queue') : queue'[j] <= sent'
          /\ \A i \in 1..Len(out') : out'[i] <= sent'
      BY <2>0, <2>2, <3>0, TailElements, AppendElements DEF Deliver, Ordered
    <3> QED
      BY <2>0, <2>2, <3>0, <3>1, <3>2, <3>3, <3>4, TailElements, AppendElements
      DEF Deliver, Ordered
  <2>3. CASE Lose
    <3>0. queue # <<>>
      BY <2>3 DEF Lose
    <3>1. Increasing(queue')
      BY <2>0, <2>3, <3>0, TailIncreasing DEF Lose, Ordered
    <3> QED
      BY <2>0, <2>3, <3>0, <3>1, TailElements DEF Lose, Ordered
  <2>4. CASE UNCHANGED <<sent, queue, out>>
    BY <2>4 DEF Ordered, Increasing
  <2> QED
    BY <2>1, <2>2, <2>3, <2>4 DEF Next
<1> QED
  BY <1>1, <1>2, PTL DEF Spec
=============================================================================
