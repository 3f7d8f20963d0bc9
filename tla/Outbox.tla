------------------------------- MODULE Outbox -------------------------------
(***************************************************************************)
(* What NodeContext promises a publisher: a first-in first-out channel to  *)
(* the broker that may lose a message but never repeats or reorders one.   *)
(* Messages are numbered in the order in which they are enqueued.          *)
(***************************************************************************)
EXTENDS Naturals, Sequences

VARIABLES
    sent,   \* how many messages have been enqueued
    queue,  \* those that still await their fate
    out     \* those that reached the broker, in the order they did

Init == sent = 0 /\ queue = <<>> /\ out = <<>>

Put == /\ sent' = sent + 1
       /\ queue' = Append(queue, sent + 1)
       /\ UNCHANGED out

Deliver == /\ queue # <<>>
           /\ out' = Append(out, Head(queue))
           /\ queue' = Tail(queue)
           /\ UNCHANGED sent

Lose == /\ queue # <<>>
        /\ queue' = Tail(queue)
        /\ UNCHANGED <<sent, out>>

Next == Put \/ Deliver \/ Lose

Spec == Init /\ [][Next]_<<sent, queue, out>>

Increasing(s) == \A i, j \in 1..Len(s) : i < j => s[i] < s[j]

\* The broker receives the messages in the order they were enqueued, each at
\* most once (node_context.py, _enqueue_outgoing and _drain_outgoing).
InOrder == Increasing(out)

\* The strengthening of InOrder that every step preserves.
Ordered ==
    /\ sent \in Nat /\ queue \in Seq(Nat) /\ out \in Seq(Nat)
    /\ Increasing(out) /\ Increasing(queue)
    /\ \A i \in 1..Len(queue) : queue[i] <= sent
    /\ \A i \in 1..Len(out) : out[i] <= sent
    /\ \A i \in 1..Len(out), j \in 1..Len(queue) : out[i] < queue[j]
=============================================================================
