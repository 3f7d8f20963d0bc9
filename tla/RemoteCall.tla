----------------------------- MODULE RemoteCall -----------------------------
(***************************************************************************)
(* What the command service promises a remote client: a request is carried *)
(* out at most once, a success is only reported of an operation that took  *)
(* effect, and a request that is dropped never takes effect.  A failure    *)
(* says nothing: the operation may have happened, or may yet happen.  The  *)
(* exception is a probe, which is answered with a success and asks nothing *)
(* of the application.                                                     *)
(***************************************************************************)
EXTENDS Naturals

CONSTANTS
    Requests,
    Probes      \* those that succeed without an operation

VARIABLES
    status,     \* "none", "accepted", "succeeded", "failed" or "dropped"
    performed,  \* how often the operation of a request took effect
    heard       \* requests whose answer went out to the client

Init ==
    /\ status = [r \in Requests |-> "none"]
    /\ performed = [r \in Requests |-> 0]
    /\ heard = {}

Becomes(r, s) == status' = [status EXCEPT ![r] = s]

Performs(r) ==
    /\ r \notin Probes /\ performed[r] = 0
    /\ performed' = [performed EXCEPT ![r] = 1]

Accept(r) ==
    /\ status[r] = "none"
    /\ Becomes(r, "accepted")
    /\ UNCHANGED <<performed, heard>>

Drop(S) ==
    /\ \A r \in S : status[r] \in {"none", "accepted"} /\ performed[r] = 0
    /\ status' = [r \in Requests |-> IF r \in S THEN "dropped" ELSE status[r]]
    /\ UNCHANGED <<performed, heard>>

\* The operation takes effect, perhaps after its failure was reported.
Perform(r) ==
    /\ status[r] \in {"accepted", "failed"}
    /\ Performs(r)
    /\ UNCHANGED <<status, heard>>

Answered(r) == heard' \in {heard, heard \cup {r}}

Succeed(r) ==
    /\ status[r] = "accepted" /\ Becomes(r, "succeeded")
    /\ \/ Performs(r)
       \/ (r \in Probes \/ performed[r] = 1) /\ UNCHANGED performed
    /\ Answered(r)

Fail(r) ==
    /\ status[r] = "accepted" /\ Becomes(r, "failed")
    /\ Performs(r) \/ UNCHANGED performed
    /\ Answered(r)

Next ==
    \/ \E r \in Requests : Accept(r) \/ Perform(r) \/ Succeed(r) \/ Fail(r)
    \/ \E S \in SUBSET Requests : Drop(S)

Spec == Init /\ [][Next]_<<status, performed, heard>>

\* A success is true, except a probe's, which never happens; nothing happens
\* twice, a dropped request never happened, and the client hears only of
\* requests that were decided.
Truthful ==
    \A r \in Requests :
        /\ status[r] = "succeeded" /\ r \notin Probes => performed[r] = 1
        /\ status[r] \in {"none", "dropped"} \/ r \in Probes => performed[r] = 0
        /\ performed[r] \in {0, 1}
        /\ r \in heard => status[r] \in {"succeeded", "failed"}
=============================================================================
