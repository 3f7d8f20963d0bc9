--------------------------- MODULE CommandsProofs ---------------------------
(* Theorems about Commands, for any commands, requests and number of workers. *)
EXTENDS Commands, SequenceTheorems, TLAPS

Stages == {"new", "queued", "running", "waiting", "ended", "cancelled"}
Works  == {"none", "scheduled", "running", "done", "failed"}

(* The inductive invariant, in four parts.                                 *)

TypesOK ==
    /\ table \subseteq CommandTopics
    /\ closing \in {None} \cup (CommandTopics \ table)
    /\ starts \in 0..MaxStarts /\ context \in 0..starts
    /\ queue \in [CommandTopics -> Seq(Requests)]
    /\ stage \in [Requests -> Stages]
    /\ cmd \in [Requests -> CommandTopics \cup {None}]
    /\ born \in [Requests -> 0..starts]
    /\ work \in [Requests -> Works]
    /\ answer \in [Requests -> {None, "success", "error"}]
    /\ performed \in [Requests -> {0, 1}]
    /\ sent \subseteq Requests

Holds(c, r) == \E i \in 1..Len(queue[c]) : queue[c][i] = r

\* The queue of a command holds its queued requests, each once.
QueuesOK ==
    \A c \in CommandTopics :
        /\ \A r \in Requests : Holds(c, r) <=> stage[r] = "queued" /\ cmd[r] = c
        /\ \A i, j \in 1..Len(queue[c]) : queue[c][i] = queue[c][j] => i = j

\* Only a service in the table, or in the middle of its stop(), has queued
\* requests, and those came with the latest start.
TableOK ==
    \A r \in Requests :
        stage[r] = "queued" => /\ cmd[r] \in CommandTopics
                               /\ cmd[r] \in table \cup {closing}
                               /\ born[r] = starts

\* How far a request has come, what its coroutine is doing, whether it took
\* effect and what was answered.
CourseOK ==
    \A r \in Requests :
        /\ stage[r] \in {"new", "queued", "running", "cancelled"}
              => work[r] = "none" /\ performed[r] = 0
        /\ stage[r] = "waiting" => work[r] # "none"
        /\ work[r] \in {"scheduled", "running"} => performed[r] = 0
        /\ work[r] = "done" => performed[r] = 1
        /\ work[r] \in {"done", "failed"} => stage[r] = "waiting"
        /\ stage[r] = "ended" /\ work[r] # "none" => answer[r] = "error"
        /\ stage[r] = "ended" /\ answer[r] = "success" /\ r \notin Probes
              => performed[r] = 1
        /\ r \in Probes => work[r] = "none" /\ performed[r] = 0
        /\ r \in sent => stage[r] = "ended"

-----------------------------------------------------------------------------
LEMMA ReportedValues ==
    /\ DOMAIN Reported = {"done", "failed"}
    /\ Reported["done"] = "success" /\ Reported["failed"] = "error"
    /\ \A w \in {"done", "failed"} : Reported[w] \in {"success", "error"}
BY DEF Reported

LEMMA FinishTypes ==
    ASSUME TypesOK, NEW r \in Requests, NEW a \in {"success", "error"}, Finish(r, a)
    PROVE  /\ stage' \in [Requests -> Stages]
           /\ cmd' \in [Requests -> CommandTopics \cup {None}]
           /\ born' \in [Requests -> 0..starts]
           /\ answer' \in [Requests -> {None, "success", "error"}]
           /\ sent' \subseteq Requests
           /\ UNCHANGED <<table, closing, starts, context, queue>>
BY CommandsAssumption DEF TypesOK, Finish, service, Stages

LEMMA PerformsTypes ==
    ASSUME TypesOK, NEW r \in Requests, performed[r] = 0, Performs(r)
    PROVE  performed' \in [Requests -> {0, 1}]
BY DEF TypesOK, Performs

LEMMA TypesStep ==
    ASSUME TypesOK, CourseOK, [Next]_vars
    PROVE  TypesOK'
<1> USE CommandsAssumption DEF service, request
<1>0. starts \in Nat /\ starts <= MaxStarts /\ context \in Nat /\ context <= starts
  BY DEF TypesOK
<1>1. CASE StartServices
  <2>1. starts' \in 0..MaxStarts /\ context' \in 0..starts'
    BY <1>0, <1>1 DEF StartServices, TypesOK
  <2>2. born' \in [Requests -> 0..starts']
    <3>1. 0..starts \subseteq 0..starts'
      BY <1>0, <1>1 DEF StartServices
    <3> QED
      BY <1>1, <3>1 DEF StartServices, TypesOK
  <2>3. closing' \in {None} \cup (CommandTopics \ table')
    BY <1>1 DEF StartServices, Stopping, TypesOK
  <2> QED
    BY <1>1, <2>1, <2>2, <2>3 DEF StartServices, TypesOK
<1>2. ASSUME NEW c \in CommandTopics, StopService(c) PROVE TypesOK'
  BY <1>2 DEF StopService, TypesOK
<1>3. ASSUME NEW r \in Requests, CancelQueued(r) PROVE TypesOK'
  <2>1. closing \in CommandTopics /\ Tail(queue[closing]) \in Seq(Requests)
    BY <1>3, HeadTailProperties DEF CancelQueued, TypesOK
  <2>2. queue' \in [CommandTopics -> Seq(Requests)]
    BY <1>3, <2>1 DEF CancelQueued, TypesOK
  <2>3. stage' \in [Requests -> Stages] /\ cmd' \in [Requests -> CommandTopics \cup {None}]
    BY <1>3 DEF CancelQueued, TypesOK, Stages
  <2>4. born' \in [Requests -> 0..starts]
    BY <1>0, <1>3 DEF CancelQueued, TypesOK
  <2> QED
    BY <1>3, <2>2, <2>3, <2>4 DEF CancelQueued, TypesOK
<1>4. CASE ShutDown
  BY <1>4 DEF ShutDown, TypesOK
<1>5. ASSUME NEW r \in Requests, NEW c \in CommandTopics, Dispatch(r, c) PROVE TypesOK'
  <2>1. queue' \in [CommandTopics -> Seq(Requests)]
    <3>1. Append(queue[c], r) \in Seq(Requests)
      BY AppendProperties DEF TypesOK
    <3> QED
      BY <1>5, <3>1 DEF Dispatch, TypesOK
  <2>2. stage' \in [Requests -> Stages] /\ cmd' \in [Requests -> CommandTopics \cup {None}]
    BY <1>5 DEF Dispatch, TypesOK, Stages
  <2>3. born' \in [Requests -> 0..starts]
    BY <1>0, <1>5 DEF Dispatch, TypesOK
  <2> QED
    BY <1>5, <2>1, <2>2, <2>3 DEF Dispatch, TypesOK
<1>6. ASSUME NEW r \in Requests, Reject(r) PROVE TypesOK'
  BY <1>6 DEF Reject, TypesOK, Stages
<1>7. ASSUME NEW c \in CommandTopics, Take(c) PROVE TypesOK'
  <2>1. Head(queue[c]) \in Requests /\ Tail(queue[c]) \in Seq(Requests)
    BY <1>7, HeadTailProperties DEF Take, TypesOK
  <2> QED
    BY <1>7, <2>1 DEF Take, TypesOK, Stages
<1>8. ASSUME NEW r \in Requests, CallApp(r) PROVE TypesOK'
  <2>1. performed[r] = 0
    BY <1>8 DEF CallApp, CourseOK
  <2>2. performed' \in [Requests -> {0, 1}]
    BY <1>8, <2>1, PerformsTypes DEF CallApp, TypesOK
  <2>3. PICK a \in {"success", "error"} : Finish(r, a)
    BY <1>8 DEF CallApp
  <2> QED
    BY <1>8, <2>2, <2>3, FinishTypes DEF CallApp, TypesOK
<1>9. ASSUME NEW r \in Requests, Acknowledge(r) PROVE TypesOK'
  BY <1>9, FinishTypes DEF Acknowledge, TypesOK
<1>10. ASSUME NEW r \in Requests, Submit(r) PROVE TypesOK'
  BY <1>10 DEF Submit, TypesOK, Stages, Works
<1>11. ASSUME NEW r \in Requests, Resume(r) \/ GiveUp(r) PROVE TypesOK'
  <2>1. \E a \in {"success", "error"} : Finish(r, a)
    BY <1>11, ReportedValues DEF Resume, GiveUp
  <2>2. work' \in [Requests -> Works] /\ UNCHANGED performed
    BY <1>11 DEF Resume, GiveUp, TypesOK, Works
  <2> QED
    BY <2>1, <2>2, FinishTypes DEF TypesOK
<1>12. ASSUME NEW r \in Requests, LoopBegins(r) PROVE TypesOK'
  BY <1>12 DEF LoopBegins, TypesOK, Works
<1>13. ASSUME NEW r \in Requests, LoopEnds(r) PROVE TypesOK'
  <2>1. performed[r] = 0
    BY <1>13 DEF LoopEnds, CourseOK
  <2>2. performed' \in [Requests -> {0, 1}]
    BY <1>13, <2>1, PerformsTypes DEF LoopEnds, TypesOK
  <2>3. work' \in [Requests -> Works]
    BY <1>13 DEF LoopEnds, Delivers, TypesOK, Works
  <2> QED
    BY <1>13, <2>2, <2>3 DEF LoopEnds, TypesOK
<1>14. CASE UNCHANGED vars
  BY <1>14 DEF vars, TypesOK
<1> QED
  BY <1>1, <1>2, <1>3, <1>4, <1>5, <1>6, <1>7, <1>8, <1>9, <1>10, <1>11,
     <1>12, <1>13, <1>14
  DEF Next, Handle, Leave

-----------------------------------------------------------------------------
(* The queues of the services.                                             *)

Occurs(s, r) == \E i \in 1..Len(s) : s[i] = r
Distinct(s)  == \A i, j \in 1..Len(s) : s[i] = s[j] => i = j

LEMMA AppendOccurs ==
    ASSUME NEW s \in Seq(Requests), NEW e \in Requests
    PROVE  /\ \A r \in Requests : Occurs(Append(s, e), r) <=> Occurs(s, r) \/ r = e
           /\ Distinct(s) /\ ~Occurs(s, e) => Distinct(Append(s, e))
<1>1. /\ Len(s) \in Nat /\ Len(Append(s, e)) = Len(s) + 1
      /\ \A i \in 1..Len(s) : Append(s, e)[i] = s[i]
      /\ Append(s, e)[Len(s) + 1] = e
  BY AppendProperties, LenProperties
<1>2. ASSUME NEW r \in Requests PROVE Occurs(Append(s, e), r) <=> Occurs(s, r) \/ r = e
  BY <1>1 DEF Occurs
<1>3. ASSUME Distinct(s), ~Occurs(s, e) PROVE Distinct(Append(s, e))
  BY <1>1, <1>3 DEF Occurs, Distinct
<1> QED
  BY <1>2, <1>3

LEMMA TailOccurs ==
    ASSUME NEW s \in Seq(Requests), s # <<>>, Distinct(s)
    PROVE  /\ Head(s) \in Requests /\ Occurs(s, Head(s))
           /\ \A r \in Requests : Occurs(Tail(s), r) <=> Occurs(s, r) /\ r # Head(s)
           /\ Distinct(Tail(s))
<1>1. /\ Len(s) \in Nat \ {0} /\ Len(Tail(s)) = Len(s) - 1
      /\ \A i \in 1..Len(s) - 1 : Tail(s)[i] = s[i + 1]
      /\ Head(s) = s[1] /\ Head(s) \in Requests
  BY HeadTailProperties, LenProperties, EmptySeq
<1>2. ASSUME NEW r \in Requests PROVE Occurs(Tail(s), r) <=> Occurs(s, r) /\ r # Head(s)
  <2>1. ASSUME Occurs(Tail(s), r) PROVE Occurs(s, r) /\ r # Head(s)
    BY <1>1, <2>1 DEF Occurs, Distinct
  <2>2. ASSUME Occurs(s, r), r # Head(s) PROVE Occurs(Tail(s), r)
    <3>1. PICK i \in 1..Len(s) : s[i] = r
      BY <2>2 DEF Occurs
    <3>2. i - 1 \in 1..Len(s) - 1 /\ Tail(s)[i - 1] = r
      BY <1>1, <2>2, <3>1
    <3> QED
      BY <1>1, <3>2 DEF Occurs
  <2> QED
    BY <2>1, <2>2
<1>3. Distinct(Tail(s))
  BY <1>1 DEF Distinct
<1> QED
  BY <1>1, <1>2, <1>3 DEF Occurs

LEMMA QueueOccurs ==
    QueuesOK <=> \A c \in CommandTopics :
        /\ \A r \in Requests : Occurs(queue[c], r) <=> stage[r] = "queued" /\ cmd[r] = c
        /\ Distinct(queue[c])
BY DEF QueuesOK, Holds, Occurs, Distinct

\* A step that leaves the queues alone, and changes no request that is queued
\* into another or the reverse.
LEMMA QueuesKept ==
    ASSUME QueuesOK, UNCHANGED queue,
           \A r \in Requests : \/ stage'[r] = stage[r] /\ cmd'[r] = cmd[r]
                               \/ stage[r] # "queued" /\ stage'[r] # "queued"
    PROVE  QueuesOK'
BY DEF QueuesOK, Holds

LEMMA FinishKeeps ==
    ASSUME TypesOK, QueuesOK, TableOK, NEW r \in Requests, NEW a, Finish(r, a),
           stage[r] # "queued"
    PROVE  QueuesOK' /\ TableOK'
<1>1. \A q \in Requests : \/ stage'[q] = stage[q] /\ cmd'[q] = cmd[q]
                          \/ stage[q] # "queued" /\ stage'[q] # "queued"
  BY DEF Finish, TypesOK
<1> QED
  BY <1>1, QueuesKept DEF Finish, TableOK, service

LEMMA QueuesStep ==
    ASSUME TypesOK, QueuesOK, TableOK, [Next]_vars
    PROVE  QueuesOK' /\ TableOK'
<1> USE DEF service, request
<1>1. CASE StartServices
  <2>1. \A r \in Requests : stage[r] # "queued"
    BY <1>1, CommandsAssumption DEF StartServices, Stopping, TableOK
  <2> QED
    BY <1>1, <2>1 DEF StartServices, QueuesOK, TableOK, Holds
<1>2. ASSUME NEW c \in CommandTopics, StopService(c) PROVE QueuesOK' /\ TableOK'
  <2>1. /\ UNCHANGED <<starts, stage, cmd, born>>
        /\ closing = None /\ table \subseteq table' \cup {closing'}
    BY <1>2 DEF StopService
  <2>2. TableOK'
    BY <2>1, CommandsAssumption DEF TableOK
  <2>3. QueuesOK'
    BY <1>2, QueuesKept DEF StopService
  <2> QED
    BY <2>2, <2>3
<1>3. ASSUME NEW r \in Requests, CancelQueued(r) PROVE QueuesOK' /\ TableOK'
  <2>1. /\ closing \in CommandTopics /\ queue[closing] \in Seq(Requests)
        /\ queue[closing] # <<>> /\ Distinct(queue[closing]) /\ r = Head(queue[closing])
        /\ queue'[closing] = Tail(queue[closing])
        /\ \A d \in CommandTopics \ {closing} : queue'[d] = queue[d]
    BY <1>3, QueueOccurs DEF CancelQueued, TypesOK
  <2>2. /\ Occurs(queue[closing], r) /\ Distinct(queue'[closing])
        /\ \A q \in Requests : Occurs(queue'[closing], q) <=> Occurs(queue[closing], q) /\ q # r
    BY <2>1, TailOccurs
  <2>3. /\ cmd[r] = closing /\ stage'[r] = "cancelled" /\ UNCHANGED service
        /\ \A q \in Requests \ {r} : stage'[q] = stage[q] /\ cmd'[q] = cmd[q] /\ born'[q] = born[q]
    BY <1>3, <2>1, <2>2, QueueOccurs DEF CancelQueued, TypesOK
  <2>4. ASSUME NEW d \in CommandTopics
        PROVE  /\ \A q \in Requests : Occurs(queue'[d], q) <=> stage'[q] = "queued" /\ cmd'[q] = d
               /\ Distinct(queue'[d])
    <3>1. CASE d = closing
      BY <2>2, <2>3, <3>1, QueueOccurs
    <3>2. CASE d # closing
      BY <2>1, <2>2, <2>3, <3>2, QueueOccurs
    <3> QED
      BY <3>1, <3>2
  <2>5. QueuesOK'
    BY <2>4 DEF QueuesOK, Holds, Occurs, Distinct
  <2>6. TableOK'
    BY <2>3 DEF TableOK
  <2> QED
    BY <2>5, <2>6
<1>4. CASE ShutDown
  <2>1. /\ closing \in CommandTopics
        /\ \A r \in Requests : ~(stage[r] = "queued" /\ cmd[r] = closing)
    <3>1. closing \in CommandTopics /\ queue[closing] = <<>> /\ 1..Len(queue[closing]) = {}
      BY <1>4, EmptySeq DEF ShutDown, TypesOK
    <3> QED
      BY <3>1, QueueOccurs DEF Occurs
  <2>2. QueuesOK'
    BY <1>4, QueuesKept DEF ShutDown
  <2> QED
    BY <1>4, <2>1, <2>2 DEF ShutDown, TableOK
<1>5. ASSUME NEW r \in Requests, NEW c \in CommandTopics, Dispatch(r, c)
      PROVE  QueuesOK' /\ TableOK'
  <2>1. /\ queue' = [queue EXCEPT ![c] = Append(queue[c], r)]
        /\ \A d \in CommandTopics \ {c} : queue'[d] = queue[d]
        /\ queue'[c] = Append(queue[c], r)
    BY <1>5 DEF Dispatch, TypesOK
  <2>2. /\ stage[r] = "new" /\ stage'[r] = "queued" /\ cmd'[r] = c
        /\ \A q \in Requests \ {r} : stage'[q] = stage[q] /\ cmd'[q] = cmd[q]
    BY <1>5 DEF Dispatch, TypesOK
  <2>3. ASSUME NEW d \in CommandTopics
        PROVE  /\ \A q \in Requests : Occurs(queue'[d], q) <=> stage'[q] = "queued" /\ cmd'[q] = d
               /\ Distinct(queue'[d])
    <3>1. queue[d] \in Seq(Requests) /\ ~Occurs(queue[d], r)
      BY <2>2, QueueOccurs DEF TypesOK
    <3>2. CASE d = c
      BY <2>1, <2>2, <3>1, <3>2, AppendOccurs, QueueOccurs
    <3>3. CASE d # c
      BY <2>1, <2>2, <3>1, <3>3, QueueOccurs
    <3> QED
      BY <3>2, <3>3
  <2>4. QueuesOK'
    BY <2>3 DEF QueuesOK, Holds, Occurs, Distinct
  <2>5. TableOK'
    <3>1. born'[r] = starts /\ \A q \in Requests \ {r} : born'[q] = born[q]
      BY <1>5 DEF Dispatch, TypesOK
    <3> QED
      BY <1>5, <2>2, <3>1 DEF Dispatch, TableOK
  <2> QED
    BY <2>4, <2>5
<1>6. ASSUME NEW r \in Requests, Reject(r) PROVE QueuesOK' /\ TableOK'
  <2>1. \A q \in Requests : \/ stage'[q] = stage[q] /\ cmd'[q] = cmd[q]
                            \/ stage[q] # "queued" /\ stage'[q] # "queued"
    BY <1>6 DEF Reject, TypesOK
  <2> QED
    BY <1>6, <2>1, QueuesKept DEF Reject, TableOK
<1>7. ASSUME NEW c \in CommandTopics, Take(c) PROVE QueuesOK' /\ TableOK'
  <2> DEFINE h == Head(queue[c])
  <2>1. /\ queue[c] \in Seq(Requests) /\ queue[c] # <<>> /\ Distinct(queue[c])
        /\ queue'[c] = Tail(queue[c])
        /\ \A d \in CommandTopics \ {c} : queue'[d] = queue[d]
    BY <1>7, QueueOccurs DEF Take, TypesOK
  <2>2. /\ h \in Requests /\ Occurs(queue[c], h) /\ Distinct(queue'[c])
        /\ \A r \in Requests : Occurs(queue'[c], r) <=> Occurs(queue[c], r) /\ r # h
    BY <2>1, TailOccurs
  <2>3. /\ cmd[h] = c /\ stage'[h] = "running" /\ cmd' = cmd /\ table' = table
        /\ \A q \in Requests \ {h} : stage'[q] = stage[q]
    BY <1>7, <2>2, QueueOccurs DEF Take, TypesOK
  <2>4. ASSUME NEW d \in CommandTopics
        PROVE  /\ \A q \in Requests : Occurs(queue'[d], q) <=> stage'[q] = "queued" /\ cmd'[q] = d
               /\ Distinct(queue'[d])
    <3>1. CASE d = c
      BY <2>2, <2>3, <3>1, QueueOccurs
    <3>2. CASE d # c
      BY <2>1, <2>2, <2>3, <3>2, QueueOccurs
    <3> QED
      BY <3>1, <3>2
  <2>5. QueuesOK'
    BY <2>4 DEF QueuesOK, Holds, Occurs, Distinct
  <2>6. TableOK'
    BY <1>7, <2>2, <2>3 DEF TableOK, Take
  <2> QED
    BY <2>5, <2>6
<1>8. ASSUME NEW r \in Requests, Acknowledge(r) \/ CallApp(r) \/ Resume(r) \/ GiveUp(r)
      PROVE  QueuesOK' /\ TableOK'
  <2>1. stage[r] # "queued" /\ \E a : Finish(r, a)
    BY <1>8 DEF Acknowledge, CallApp, Resume, GiveUp
  <2> QED
    BY <2>1, FinishKeeps
<1>9. ASSUME NEW r \in Requests, Submit(r) PROVE QueuesOK' /\ TableOK'
  <2>1. \A q \in Requests : \/ stage'[q] = stage[q] /\ cmd'[q] = cmd[q]
                            \/ stage[q] # "queued" /\ stage'[q] # "queued"
    BY <1>9 DEF Submit, TypesOK
  <2> QED
    BY <1>9, <2>1, QueuesKept DEF Submit, TableOK
<1>10. ASSUME NEW r \in Requests, LoopBegins(r) \/ LoopEnds(r) PROVE QueuesOK' /\ TableOK'
  BY <1>10, QueuesKept DEF LoopBegins, LoopEnds, TableOK
<1>11. CASE UNCHANGED vars
  BY <1>11, QueuesKept DEF vars, TableOK
<1> QED
  BY <1>1, <1>2, <1>3, <1>4, <1>5, <1>6, <1>7, <1>8, <1>9, <1>10, <1>11
  DEF Next, Handle, Leave

-----------------------------------------------------------------------------
(* The course of a request.                                                *)

\* A step that changes one request only.
OnlyChanges(r) ==
    \A q \in Requests \ {r} :
        /\ stage'[q] = stage[q] /\ work'[q] = work[q] /\ answer'[q] = answer[q]
        /\ performed'[q] = performed[q] /\ (q \in sent' <=> q \in sent)

CourseOf(r) ==
    /\ stage[r] \in {"new", "queued", "running", "cancelled"}
          => work[r] = "none" /\ performed[r] = 0
    /\ stage[r] = "waiting" => work[r] # "none"
    /\ work[r] \in {"scheduled", "running"} => performed[r] = 0
    /\ work[r] = "done" => performed[r] = 1
    /\ work[r] \in {"done", "failed"} => stage[r] = "waiting"
    /\ stage[r] = "ended" /\ work[r] # "none" => answer[r] = "error"
    /\ stage[r] = "ended" /\ answer[r] = "success" /\ r \notin Probes
          => performed[r] = 1
    /\ r \in Probes => work[r] = "none" /\ performed[r] = 0
    /\ r \in sent => stage[r] = "ended"

LEMMA CourseOfOne ==
    ASSUME CourseOK, NEW r \in Requests, OnlyChanges(r), CourseOf(r)'
    PROVE  CourseOK'
<1>1. ASSUME NEW q \in Requests \ {r} PROVE CourseOf(q)'
  BY <1>1 DEF CourseOK, OnlyChanges, CourseOf
<1> QED
  BY <1>1 DEF CourseOK, CourseOf

\* What a handler's end does to its request, and to no other.
LEMMA FinishCourse ==
    ASSUME TypesOK, NEW r \in Requests, NEW a, Finish(r, a)
    PROVE  /\ stage'[r] = "ended" /\ answer'[r] = a
           /\ \A q \in Requests \ {r} :
                 /\ stage'[q] = stage[q] /\ answer'[q] = answer[q]
                 /\ (q \in sent' <=> q \in sent)
           /\ sent' \in {sent, sent \cup {r}}
BY DEF TypesOK, Finish

LEMMA PerformsCourse ==
    ASSUME TypesOK, NEW r \in Requests, Performs(r), performed[r] = 0
    PROVE  /\ performed'[r] = 1
           /\ \A q \in Requests \ {r} : performed'[q] = performed[q]
BY DEF TypesOK, Performs

LEMMA CancelledIsQueued ==
    ASSUME TypesOK, QueuesOK, NEW r \in Requests, CancelQueued(r)
    PROVE  stage[r] = "queued"
<1>1. /\ closing \in CommandTopics /\ queue[closing] \in Seq(Requests)
      /\ queue[closing] # <<>> /\ Distinct(queue[closing]) /\ r = Head(queue[closing])
  BY QueueOccurs DEF CancelQueued, TypesOK
<1> QED
  BY <1>1, TailOccurs, QueueOccurs

LEMMA CourseStep ==
    ASSUME TypesOK, QueuesOK, CourseOK, [Next]_vars
    PROVE  CourseOK'
<1> USE DEF service, request
<1>1. CASE StartServices
  BY <1>1 DEF StartServices, CourseOK
<1>2. ASSUME NEW c \in CommandTopics, StopService(c) PROVE CourseOK'
  BY <1>2 DEF StopService, CourseOK
<1>3. ASSUME NEW r \in Requests, CancelQueued(r) PROVE CourseOK'
  <2>1. stage[r] = "queued"
    BY <1>3, CancelledIsQueued
  <2>2. OnlyChanges(r) /\ CourseOf(r)'
    BY <1>3, <2>1 DEF CancelQueued, TypesOK, OnlyChanges, CourseOK, CourseOf
  <2> QED
    BY <2>2, CourseOfOne
<1>4. CASE ShutDown
  BY <1>4 DEF ShutDown, CourseOK
<1>5. ASSUME NEW r \in Requests, Acknowledge(r) PROVE CourseOK'
  <2>1. performed[r] = 0 /\ work[r] = "none" /\ r \in Probes /\ UNCHANGED <<work, performed>>
    BY <1>5 DEF Acknowledge, CourseOK
  <2>2. OnlyChanges(r) /\ CourseOf(r)'
    BY <1>5, <2>1, FinishCourse DEF Acknowledge, OnlyChanges, CourseOf
  <2> QED
    BY <2>2, CourseOfOne
<1>6. ASSUME NEW r \in Requests, NEW c \in CommandTopics, Dispatch(r, c) PROVE CourseOK'
  <2>1. OnlyChanges(r) /\ CourseOf(r)'
    BY <1>6 DEF Dispatch, TypesOK, OnlyChanges, CourseOK, CourseOf
  <2> QED
    BY <2>1, CourseOfOne
<1>7. ASSUME NEW r \in Requests, Reject(r) PROVE CourseOK'
  <2>1. OnlyChanges(r) /\ CourseOf(r)'
    BY <1>7 DEF Reject, TypesOK, OnlyChanges, CourseOK, CourseOf
  <2> QED
    BY <2>1, CourseOfOne
<1>8. ASSUME NEW c \in CommandTopics, Take(c) PROVE CourseOK'
  <2>1. PICK h \in Requests : h = Head(queue[c]) /\ stage[h] = "queued"
    BY <1>8, QueueOccurs, TailOccurs DEF Take, TypesOK
  <2>2. OnlyChanges(h) /\ CourseOf(h)'
    BY <1>8, <2>1 DEF Take, TypesOK, OnlyChanges, CourseOK, CourseOf
  <2> QED
    BY <2>1, <2>2, CourseOfOne
<1>9. ASSUME NEW r \in Requests, CallApp(r) PROVE CourseOK'
  <2>1. /\ performed[r] = 0 /\ work[r] = "none" /\ work' = work /\ r \notin Probes
    BY <1>9 DEF CallApp, CourseOK
  <2>2. CASE Performs(r) /\ Finish(r, "success")
    <3>1. OnlyChanges(r) /\ CourseOf(r)'
      BY <2>1, <2>2, FinishCourse, PerformsCourse DEF OnlyChanges, CourseOf
    <3> QED
      BY <3>1, CourseOfOne
  <2>3. CASE (Performs(r) \/ UNCHANGED performed) /\ Finish(r, "error")
    <3>1. OnlyChanges(r) /\ CourseOf(r)'
      BY <2>1, <2>3, FinishCourse, PerformsCourse DEF OnlyChanges, CourseOf
    <3> QED
      BY <3>1, CourseOfOne
  <2> QED
    BY <1>9, <2>2, <2>3 DEF CallApp
<1>10. ASSUME NEW r \in Requests, Submit(r) PROVE CourseOK'
  <2>1. OnlyChanges(r) /\ CourseOf(r)'
    BY <1>10 DEF Submit, TypesOK, OnlyChanges, CourseOK, CourseOf
  <2> QED
    BY <2>1, CourseOfOne
<1>11. ASSUME NEW r \in Requests, Resume(r) PROVE CourseOK'
  <2>1. /\ work[r] \in {"done", "failed"} /\ Finish(r, Reported[work[r]])
        /\ work'[r] = "none" /\ UNCHANGED performed
        /\ \A q \in Requests \ {r} : work'[q] = work[q]
    BY <1>11, ReportedValues DEF Resume, TypesOK
  <2>2. r \notin Probes /\ (Reported[work[r]] = "success" => performed[r] = 1)
    BY <2>1, ReportedValues DEF CourseOK
  <2>3. OnlyChanges(r) /\ CourseOf(r)'
    BY <2>1, <2>2, FinishCourse DEF OnlyChanges, CourseOf
  <2> QED
    BY <2>3, CourseOfOne
<1>12. ASSUME NEW r \in Requests, GiveUp(r) PROVE CourseOK'
  <2>1. /\ work[r] \notin {"done", "failed"} /\ Finish(r, "error")
        /\ UNCHANGED <<work, performed>>
    BY <1>12, ReportedValues DEF GiveUp
  <2>2. OnlyChanges(r) /\ CourseOf(r)'
    BY <2>1, FinishCourse DEF OnlyChanges, CourseOf, CourseOK
  <2> QED
    BY <2>2, CourseOfOne
<1>13. ASSUME NEW r \in Requests, LoopBegins(r) PROVE CourseOK'
  <2>1. OnlyChanges(r) /\ CourseOf(r)'
    BY <1>13 DEF LoopBegins, TypesOK, OnlyChanges, CourseOK, CourseOf
  <2> QED
    BY <2>1, CourseOfOne
<1>14. ASSUME NEW r \in Requests, LoopEnds(r) PROVE CourseOK'
  <2>1. /\ performed[r] = 0 /\ stage[r] \in {"waiting", "ended"}
        /\ UNCHANGED <<stage, answer, sent>>
    BY <1>14 DEF LoopEnds, CourseOK, TypesOK, Stages
  <2>2. CASE Delivers(r, "done") /\ Performs(r)
    <3>1. OnlyChanges(r) /\ CourseOf(r)'
      BY <1>14, <2>1, <2>2, PerformsCourse
      DEF LoopEnds, Delivers, TypesOK, OnlyChanges, CourseOK, CourseOf
    <3> QED
      BY <3>1, CourseOfOne
  <2>3. CASE Delivers(r, "failed") /\ (Performs(r) \/ UNCHANGED performed)
    <3>1. OnlyChanges(r) /\ CourseOf(r)'
      BY <1>14, <2>1, <2>3, PerformsCourse
      DEF LoopEnds, Delivers, TypesOK, OnlyChanges, CourseOK, CourseOf
    <3> QED
      BY <3>1, CourseOfOne
  <2> QED
    BY <1>14, <2>2, <2>3 DEF LoopEnds
<1>15. CASE UNCHANGED vars
  BY <1>15 DEF vars, CourseOK
<1> QED
  BY <1>1, <1>2, <1>3, <1>4, <1>5, <1>6, <1>7, <1>8, <1>9, <1>10, <1>11,
     <1>12, <1>13, <1>14, <1>15
  DEF Next, Handle, Leave

-----------------------------------------------------------------------------
(* The theorems.                                                           *)

IInv == TypesOK /\ QueuesOK /\ TableOK /\ CourseOK

LEMMA Inductive == Spec => []IInv
<1>1. Init => IInv
  <2> SUFFICES ASSUME Init PROVE IInv
    OBVIOUS
  <2>1. TypesOK
    BY CommandsAssumption, EmptySeq DEF Init, TypesOK, Stages, Works
  <2>2. QueuesOK
    <3>1. \A c \in CommandTopics : queue[c] = <<>> /\ 1..Len(queue[c]) = {}
      BY EmptySeq DEF Init
    <3> QED
      BY <3>1 DEF Init, QueuesOK, Holds
  <2>3. TableOK /\ CourseOK
    BY DEF Init, TableOK, CourseOK
  <2> QED
    BY <2>1, <2>2, <2>3 DEF IInv
<1>2. IInv /\ [Next]_vars => IInv'
  BY TypesStep, QueuesStep, CourseStep DEF IInv
<1> QED
  BY <1>1, <1>2, PTL DEF Spec

\* The queue of a command holds exactly its queued requests, and no operation
\* takes effect twice (rpc_service.py, commands.py).
THEOREM CommandsTypeCorrect == Spec => []TypeOK
<1>1. IInv => TypeOK
  <2> SUFFICES ASSUME IInv PROVE TypeOK
    OBVIOUS
  <2>1. \A c \in CommandTopics :
            {queue[c][i] : i \in DOMAIN queue[c]} =
                {r \in Requests : stage[r] = "queued" /\ cmd[r] = c}
    <3> SUFFICES ASSUME NEW c \in CommandTopics
                 PROVE  {queue[c][i] : i \in DOMAIN queue[c]} =
                            {r \in Requests : stage[r] = "queued" /\ cmd[r] = c}
      OBVIOUS
    <3>1. /\ queue[c] \in Seq(Requests) /\ DOMAIN queue[c] = 1..Len(queue[c])
          /\ \A i \in 1..Len(queue[c]) : queue[c][i] \in Requests
      BY LenProperties, ElementOfSeq DEF IInv, TypesOK
    <3> QED
      BY <3>1 DEF IInv, QueuesOK, Holds
  <2> QED
    BY <2>1, ReportedValues DEF IInv, TypesOK, TypeOK, Stages, Works
<1> QED
  BY <1>1, Inductive, PTL

\* A handler starts only for the latest start of the services and before stop()
\* of its own service has returned, however the workers and the cancelling of
\* the queue interleave (rpc_service.py, _do_stop).
THEOREM NoneRunAfterStop == Spec => StopRunsNoMore
<1>1. IInv => \A r \in Requests :
          (stage[r] = "queued" /\ stage'[r] = "running")
              => cmd[r] \in table \cup {closing} /\ born[r] = starts
  BY DEF IInv, TableOK
<1> QED
  BY <1>1, Inductive, PTL DEF StopRunsNoMore

-----------------------------------------------------------------------------
(* The refinement.                                                         *)

Status(s, a) ==
    CASE s = "new" -> "none"
      [] s = "cancelled" -> "dropped"
      [] s \in {"queued", "running", "waiting"} -> "accepted"
      [] s = "ended" /\ a = "success" -> "succeeded"
      [] s = "ended" /\ a # "success" -> "failed"

LEMMA StatusValues ==
    /\ \A a : Status("new", a) = "none"
    /\ \A a : Status("cancelled", a) = "dropped"
    /\ \A a : \A s \in {"queued", "running", "waiting"} : Status(s, a) = "accepted"
    /\ Status("ended", "success") = "succeeded"
    /\ \A a : a # "success" => Status("ended", a) = "failed"
BY DEF Status

mapped == [r \in Requests |-> Status(stage[r], answer[r])]

TakesEffect(r) ==
    r \notin Probes /\ performed[r] = 0 /\ performed' = [performed EXCEPT ![r] = 1]

\* The refinement mapping of Call, with RemoteCall's actions in terms of it.
LEMMA Mapping ==
    /\ Call!Init <=> /\ mapped = [r \in Requests |-> "none"]
                     /\ performed = [r \in Requests |-> 0] /\ sent = {}
    /\ \A r \in Requests : Call!Accept(r) <=>
          /\ mapped[r] = "none" /\ mapped' = [mapped EXCEPT ![r] = "accepted"]
          /\ UNCHANGED <<performed, sent>>
    /\ \A S \in SUBSET Requests : Call!Drop(S) <=>
          /\ \A r \in S : mapped[r] \in {"none", "accepted"} /\ performed[r] = 0
          /\ mapped' = [r \in Requests |-> IF r \in S THEN "dropped" ELSE mapped[r]]
          /\ UNCHANGED <<performed, sent>>
    /\ \A r \in Requests : Call!Perform(r) <=>
          /\ mapped[r] \in {"accepted", "failed"}
          /\ r \notin Probes
          /\ performed[r] = 0 /\ performed' = [performed EXCEPT ![r] = 1]
          /\ mapped' = mapped /\ sent' = sent
    /\ \A r \in Requests : Call!Succeed(r) <=>
          /\ mapped[r] = "accepted" /\ mapped' = [mapped EXCEPT ![r] = "succeeded"]
          /\ \/ TakesEffect(r)
             \/ (r \in Probes \/ performed[r] = 1) /\ UNCHANGED performed
          /\ sent' \in {sent, sent \cup {r}}
    /\ \A r \in Requests : Call!Fail(r) <=>
          /\ mapped[r] = "accepted" /\ mapped' = [mapped EXCEPT ![r] = "failed"]
          /\ TakesEffect(r) \/ UNCHANGED performed
          /\ sent' \in {sent, sent \cup {r}}
BY DEF Call!Init, Call!Accept, Call!Drop, Call!Perform, Call!Succeed, Call!Fail,
       Call!Becomes, Call!Performs, Call!Answered, TakesEffect, mapped, Status

\* A step that changes the stage and the answer of one request only.
Concerns(r) ==
    \A q \in Requests \ {r} : stage'[q] = stage[q] /\ answer'[q] = answer[q]

LEMMA OneStatus ==
    ASSUME NEW r \in Requests, Concerns(r)
    PROVE  mapped' = [mapped EXCEPT ![r] = Status(stage'[r], answer'[r])]
BY DEF mapped, Concerns

LEMMA SameStatus ==
    ASSUME NEW r \in Requests, Concerns(r), Status(stage'[r], answer'[r]) = mapped[r]
    PROVE  mapped' = mapped
BY OneStatus DEF mapped

\* RemoteCall's step, or none of its variables changes.
CallStep == Call!Next \/ UNCHANGED <<mapped, performed, sent>>

LEMMA CallDrops ==
    ASSUME NEW S \in SUBSET Requests,
           \A r \in S : mapped[r] \in {"none", "accepted"} /\ performed[r] = 0,
           mapped' = [r \in Requests |-> IF r \in S THEN "dropped" ELSE mapped[r]],
           UNCHANGED <<performed, sent>>
    PROVE  CallStep
<1>1. Call!Drop(S)
  <2>1. Call!Drop(S) <=>
          /\ \A r \in S : mapped[r] \in {"none", "accepted"} /\ performed[r] = 0
          /\ mapped' = [r \in Requests |-> IF r \in S THEN "dropped" ELSE mapped[r]]
          /\ UNCHANGED <<performed, sent>>
    BY Mapping, Zenon
  <2> QED
    BY <2>1, Zenon
<1>2. \E D \in SUBSET Requests : Call!Drop(D)
  BY <1>1, Zenon
<1> QED
  BY <1>2, Zenon DEF CallStep, Call!Next

LEMMA CallDropsOne ==
    ASSUME NEW r \in Requests, mapped[r] \in {"none", "accepted"}, performed[r] = 0,
           mapped' = [mapped EXCEPT ![r] = "dropped"], UNCHANGED <<performed, sent>>
    PROVE  CallStep
<1>1. mapped' = [q \in Requests |-> IF q \in {r} THEN "dropped" ELSE mapped[q]]
  BY DEF mapped
<1>2. {r} \in SUBSET Requests /\ \A q \in {r} : mapped[q] \in {"none", "accepted"} /\ performed[q] = 0
  OBVIOUS
<1> QED
  BY <1>1, <1>2, CallDrops

LEMMA CallSucceeds ==
    ASSUME NEW r \in Requests, mapped[r] = "accepted",
           mapped' = [mapped EXCEPT ![r] = "succeeded"],
           TakesEffect(r) \/ ((r \in Probes \/ performed[r] = 1) /\ UNCHANGED performed),
           sent' \in {sent, sent \cup {r}}
    PROVE  CallStep
<1>1. Call!Succeed(r)
  BY Mapping, Zenon
<1> QED
  BY <1>1, Zenon DEF CallStep, Call!Next

LEMMA CallFails ==
    ASSUME NEW r \in Requests, mapped[r] = "accepted",
           mapped' = [mapped EXCEPT ![r] = "failed"],
           TakesEffect(r) \/ UNCHANGED performed,
           sent' \in {sent, sent \cup {r}}
    PROVE  CallStep
<1>1. Call!Fail(r)
  BY Mapping, Zenon
<1> QED
  BY <1>1, Zenon DEF CallStep, Call!Next

\* The end of a handler answers the client's request.
LEMMA FinishAnswers ==
    ASSUME TypesOK, NEW r \in Requests, NEW a \in {"success", "error"}, Finish(r, a),
           stage[r] \in {"running", "waiting"}
    PROVE  /\ mapped[r] = "accepted"
           /\ mapped' = [mapped EXCEPT ![r] = IF a = "success" THEN "succeeded" ELSE "failed"]
           /\ sent' \in {sent, sent \cup {r}}
<1>1. Concerns(r) /\ stage'[r] = "ended" /\ answer'[r] = a /\ sent' \in {sent, sent \cup {r}}
  BY FinishCourse DEF Concerns
<1>2. mapped[r] = "accepted"
  BY StatusValues DEF mapped
<1>3. Status("ended", a) = IF a = "success" THEN "succeeded" ELSE "failed"
  BY StatusValues
<1> QED
  BY <1>1, <1>2, <1>3, OneStatus

LEMMA CallTakesStep ==
    ASSUME IInv, [Next]_vars
    PROVE  CallStep
<1> USE DEF service, request, IInv
<1>1. CASE StartServices
  BY <1>1 DEF StartServices, CallStep, mapped
<1>2. ASSUME NEW c \in CommandTopics, StopService(c) PROVE CallStep
  BY <1>2 DEF StopService, CallStep, mapped
<1>3. ASSUME NEW r \in Requests, CancelQueued(r) PROVE CallStep
  <2>1. /\ Concerns(r) /\ stage[r] = "queued" /\ stage'[r] = "cancelled"
        /\ performed[r] = 0 /\ UNCHANGED <<performed, sent>>
    BY <1>3, CancelledIsQueued DEF CancelQueued, TypesOK, CourseOK, Concerns
  <2>2. mapped[r] = "accepted" /\ mapped' = [mapped EXCEPT ![r] = "dropped"]
    BY <2>1, OneStatus, StatusValues DEF mapped
  <2> QED
    BY <2>1, <2>2, CallDropsOne
<1>4. CASE ShutDown
  BY <1>4 DEF ShutDown, CallStep, mapped
<1>5. ASSUME NEW r \in Requests, NEW c \in CommandTopics, Dispatch(r, c) PROVE CallStep
  <2>1. Concerns(r) /\ stage[r] = "new" /\ stage'[r] = "queued" /\ UNCHANGED <<performed, sent>>
    BY <1>5 DEF Dispatch, TypesOK, Concerns
  <2>2. mapped[r] = "none" /\ mapped' = [mapped EXCEPT ![r] = "accepted"]
    BY <2>1, OneStatus, StatusValues DEF mapped
  <2> QED
    BY <2>1, <2>2, Mapping DEF CallStep, Call!Next
<1>6. ASSUME NEW r \in Requests, Reject(r) PROVE CallStep
  <2>1. /\ Concerns(r) /\ stage[r] = "new" /\ stage'[r] = "cancelled"
        /\ performed[r] = 0 /\ UNCHANGED <<performed, sent>>
    BY <1>6 DEF Reject, TypesOK, CourseOK, Concerns
  <2>2. mapped[r] = "none" /\ mapped' = [mapped EXCEPT ![r] = "dropped"]
    BY <2>1, OneStatus, StatusValues DEF mapped
  <2> QED
    BY <2>1, <2>2, CallDropsOne
<1>7. ASSUME NEW c \in CommandTopics, Take(c) PROVE CallStep
  <2>1. PICK h \in Requests : h = Head(queue[c]) /\ stage[h] = "queued"
    BY <1>7, QueueOccurs, TailOccurs DEF Take, TypesOK
  <2>2. Concerns(h) /\ stage'[h] = "running" /\ UNCHANGED <<performed, sent>>
    BY <1>7, <2>1 DEF Take, TypesOK, Concerns
  <2>3. Status(stage'[h], answer'[h]) = mapped[h]
    BY <2>1, <2>2, StatusValues DEF mapped
  <2> QED
    BY <2>2, <2>3, SameStatus DEF CallStep
<1>8. ASSUME NEW r \in Requests, CallApp(r) PROVE CallStep
  <2>1. stage[r] = "running" /\ performed[r] = 0 /\ r \notin Probes
    BY <1>8 DEF CallApp, CourseOK
  <2>2. CASE Performs(r) /\ Finish(r, "success")
    <3>1. TakesEffect(r)
      BY <2>1, <2>2 DEF Performs, TypesOK, TakesEffect
    <3>2. /\ mapped[r] = "accepted" /\ mapped' = [mapped EXCEPT ![r] = "succeeded"]
          /\ sent' \in {sent, sent \cup {r}}
      BY <2>1, <2>2, FinishAnswers
    <3> QED
      BY <2>1, <3>1, <3>2, CallSucceeds
  <2>3. CASE (Performs(r) \/ UNCHANGED performed) /\ Finish(r, "error")
    <3>1. TakesEffect(r) \/ UNCHANGED performed
      BY <2>1, <2>3 DEF Performs, TypesOK, TakesEffect
    <3>2. /\ mapped[r] = "accepted" /\ mapped' = [mapped EXCEPT ![r] = "failed"]
          /\ sent' \in {sent, sent \cup {r}}
      BY <2>1, <2>3, FinishAnswers
    <3> QED
      BY <2>1, <3>1, <3>2, CallFails
  <2> QED
    BY <1>8, <2>2, <2>3 DEF CallApp
<1>9. ASSUME NEW r \in Requests, Acknowledge(r) PROVE CallStep
  <2>1. stage[r] = "running" /\ r \in Probes /\ Finish(r, "success") /\ UNCHANGED performed
    BY <1>9 DEF Acknowledge
  <2>2. /\ mapped[r] = "accepted" /\ mapped' = [mapped EXCEPT ![r] = "succeeded"]
        /\ sent' \in {sent, sent \cup {r}}
    BY <2>1, FinishAnswers
  <2> QED
    BY <2>1, <2>2, CallSucceeds
<1>10. ASSUME NEW r \in Requests, Submit(r) PROVE CallStep
  <2>1. /\ Concerns(r) /\ stage[r] = "running" /\ stage'[r] = "waiting"
        /\ UNCHANGED <<performed, sent>>
    BY <1>10 DEF Submit, TypesOK, Concerns
  <2>2. Status(stage'[r], answer'[r]) = mapped[r]
    BY <2>1, StatusValues DEF mapped
  <2> QED
    BY <2>1, <2>2, SameStatus DEF CallStep
<1>11. ASSUME NEW r \in Requests, Resume(r) PROVE CallStep
  <2>1. /\ stage[r] = "waiting" /\ work[r] \in {"done", "failed"}
        /\ Finish(r, Reported[work[r]]) /\ UNCHANGED performed
    BY <1>11, ReportedValues DEF Resume
  <2>2. CASE work[r] = "done"
    <3>1. performed[r] = 1 /\ Finish(r, "success")
      BY <2>1, <2>2, ReportedValues DEF CourseOK
    <3>2. /\ mapped[r] = "accepted" /\ mapped' = [mapped EXCEPT ![r] = "succeeded"]
          /\ sent' \in {sent, sent \cup {r}}
      BY <2>1, <3>1, FinishAnswers
    <3> QED
      BY <2>1, <3>1, <3>2, CallSucceeds
  <2>3. CASE work[r] = "failed"
    <3>1. Finish(r, "error")
      BY <2>1, <2>3, ReportedValues
    <3>2. /\ mapped[r] = "accepted" /\ mapped' = [mapped EXCEPT ![r] = "failed"]
          /\ sent' \in {sent, sent \cup {r}}
      BY <2>1, <3>1, FinishAnswers
    <3> QED
      BY <2>1, <3>2, CallFails
  <2> QED
    BY <2>1, <2>2, <2>3
<1>12. ASSUME NEW r \in Requests, GiveUp(r) PROVE CallStep
  <2>1. stage[r] = "waiting" /\ Finish(r, "error") /\ UNCHANGED performed
    BY <1>12 DEF GiveUp
  <2>2. /\ mapped[r] = "accepted" /\ mapped' = [mapped EXCEPT ![r] = "failed"]
        /\ sent' \in {sent, sent \cup {r}}
    BY <2>1, FinishAnswers
  <2> QED
    BY <2>1, <2>2, CallFails
<1>13. ASSUME NEW r \in Requests, LoopBegins(r) PROVE CallStep
  BY <1>13 DEF LoopBegins, CallStep, mapped
<1>14. ASSUME NEW r \in Requests, LoopEnds(r) PROVE CallStep
  <2>1. /\ work[r] = "running" /\ performed[r] = 0 /\ r \notin Probes
        /\ stage[r] = "waiting" \/ (stage[r] = "ended" /\ answer[r] = "error")
        /\ UNCHANGED <<stage, answer, sent>>
    BY <1>14 DEF LoopEnds, CourseOK, TypesOK, Stages
  <2>2. mapped[r] \in {"accepted", "failed"} /\ mapped' = mapped
    BY <2>1, StatusValues DEF mapped
  <2>3. CASE Performs(r)
    <3>1. performed' = [performed EXCEPT ![r] = 1]
      BY <2>1, <2>3 DEF Performs, TypesOK
    <3>2. Call!Perform(r)
      BY <2>1, <2>2, <3>1, Mapping
    <3> QED
      BY <3>2 DEF CallStep, Call!Next
  <2>4. CASE UNCHANGED performed
    BY <2>1, <2>2, <2>4 DEF CallStep
  <2> QED
    BY <1>14, <2>3, <2>4 DEF LoopEnds
<1>15. CASE UNCHANGED vars
  BY <1>15 DEF vars, CallStep, mapped
<1> QED
  BY <1>1, <1>2, <1>3, <1>4, <1>5, <1>6, <1>7, <1>8, <1>9, <1>10, <1>11,
     <1>12, <1>13, <1>14, <1>15
  DEF Next, Handle, Leave

\* The services keep the promise to a remote client: a success is reported only
\* of what took effect or of a probe, nothing dropped takes effect and nothing
\* twice (commands.py, _call_async and the eight handlers).
THEOREM RefinesRemoteCall == Spec => ImplementsRemoteCall
<1>1. Init => Call!Init
  BY Mapping, StatusValues DEF Init, mapped
<1>2. IInv /\ [Next]_vars => CallStep
  BY CallTakesStep
<1>3. CallStep => [Call!Next]_<<[r \in Requests |->
        CASE stage[r] = "new" -> "none"
          [] stage[r] = "cancelled" -> "dropped"
          [] stage[r] \in {"queued", "running", "waiting"} -> "accepted"
          [] stage[r] = "ended" /\ answer[r] = "success" -> "succeeded"
          [] stage[r] = "ended" /\ answer[r] # "success" -> "failed"],
        performed, sent>>
  BY DEF CallStep, mapped, Status
<1> QED
  BY <1>1, <1>2, <1>3, Inductive, PTL DEF Spec, ImplementsRemoteCall, Call!Spec

CallProofs == INSTANCE RemoteCallProofs WITH
    heard <- sent, status <- [r \in Requests |-> Status(stage[r], answer[r])]

\* A client is told of a success only if the operation took effect or it asked
\* for none, and what was dropped by a stop never happened (commands.py,
\* rpc_service.py).
THEOREM TellsTheTruth == Spec => []Call!Truthful
<1>1. Spec => []CallProofs!Truthful
  <2>1. Call!Spec => CallProofs!Spec
    BY DEF Call!Spec, Call!Init, Call!Next, Call!Accept, Call!Drop, Call!Perform,
           Call!Succeed, Call!Fail, Call!Becomes, Call!Performs, Call!Answered,
           CallProofs!Spec, CallProofs!Init, CallProofs!Next, CallProofs!Accept,
           CallProofs!Drop, CallProofs!Perform, CallProofs!Succeed, CallProofs!Fail,
           CallProofs!Becomes, CallProofs!Performs, CallProofs!Answered, Status
  <2> QED
    BY <2>1, RefinesRemoteCall, CallProofs!CallTruthful DEF ImplementsRemoteCall
<1>2. CallProofs!Truthful => Call!Truthful
  BY DEF CallProofs!Truthful, Call!Truthful, Status
<1> QED
  BY <1>1, <1>2, PTL
=============================================================================
