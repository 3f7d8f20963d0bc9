-------------------------- MODULE RemoteCallProofs --------------------------
(* A remote call is truthful, for any set of requests.                     *)
EXTENDS RemoteCall, TLAPS

Statuses == {"none", "accepted", "succeeded", "failed", "dropped"}

Typed ==
    /\ status \in [Requests -> Statuses]
    /\ performed \in [Requests -> {0, 1}]

\* What is reported of a request is true of it (commands.py, whose handlers
\* answer "success" only once the app has returned, except to a probe).
THEOREM CallTruthful == Spec => []Truthful
<1> DEFINE IInv == Typed /\ Truthful
<1>1. Init => IInv
  BY DEF Init, Typed, Statuses, Truthful
<1>2. IInv /\ [Next]_<<status, performed, heard>> => IInv'
  <2> SUFFICES ASSUME IInv, [Next]_<<status, performed, heard>> PROVE IInv'
    OBVIOUS
  <2>1. ASSUME NEW r \in Requests, Accept(r) PROVE IInv'
    BY <2>1 DEF Accept, Becomes, Typed, Statuses, Truthful
  <2>2. ASSUME NEW r \in Requests, Perform(r) PROVE IInv'
    BY <2>2 DEF Perform, Performs, Typed, Statuses, Truthful
  <2>3. ASSUME NEW r \in Requests, Succeed(r) PROVE IInv'
    BY <2>3 DEF Succeed, Becomes, Performs, Answered, Typed, Statuses, Truthful
  <2>4. ASSUME NEW r \in Requests, Fail(r) PROVE IInv'
    BY <2>4 DEF Fail, Becomes, Performs, Answered, Typed, Statuses, Truthful
  <2>5. ASSUME NEW S \in SUBSET Requests, Drop(S) PROVE IInv'
    BY <2>5 DEF Drop, Typed, Statuses, Truthful
  <2>6. CASE UNCHANGED <<status, performed, heard>>
    BY <2>6 DEF Typed, Truthful
  <2> QED
    BY <2>1, <2>2, <2>3, <2>4, <2>5, <2>6 DEF Next
<1> QED
  BY <1>1, <1>2, PTL DEF Spec
=============================================================================
