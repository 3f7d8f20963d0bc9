-------------------------- MODULE SequentialProofs --------------------------
(***************************************************************************)
(* What the lifecycle of GatewayLifecycle promises a host that makes one   *)
(* call after the other, except that it may stop the facade at any time,   *)
(* and whose health interval is longer than its run: for any number of     *)
(* coroutines, facade tasks, contexts, components and identifiers, the     *)
(* gateway ends as the latest call asked and leaves nothing behind.        *)
(***************************************************************************)
EXTENDS GatewayLifecycleProofs

Sequential == Patient /\ ~HealthChecks

-----------------------------------------------------------------------------
(* The inductive invariant, in two halves.  The first says who may be       *)
(* doing what: the tasks, the event loop's queue and the host's turns.     *)

Hosts     == {c \in Callers : Ops[c] # {}}   \* the host's coroutines
Starts(c) == op[c] \in {"start", "restart"}
Stops(c)  == op[c] = "stop"
Others(c) == Callers \ {c}

KindsOK ==
    /\ \A c \in Callers : pc[c] \in {"idle", "begin", "pending", "yield", "health", "run"}
    /\ \A l \in Loops : pc[l] \in {"sleep", "done"}
    /\ \A r \in Runs : pc[r] \in RunPCs

CallOK(c) ==
    /\ pc[c] = "idle" <=> op[c] = None
    /\ op[c] = "start" => pc[c] \in {"begin", "yield"}
    /\ op[c] = "restart" => pc[c] \in {"begin", "yield", "health", "run"}
    /\ Stops(c) => pc[c] \in {"begin", "pending", "health", "run"}
    /\ c \notin Hosts => op[c] \in {None, "start", "stop"}
    /\ c \in Hosts => pc[c] # "pending"
    /\ pc[c] = "begin" /\ (c \in Hosts \/ Starts(c)) => target[c] = None
    /\ pc[c] = "begin" => target[c] \in (Callers \ Hosts) \cup {None}
    /\ pc[c] = "pending" => target[c] \in Callers \ Hosts
    /\ pc[c] = "health" => target[c] \in Loops
    /\ pc[c] = "run" => target[c] \in Runs

CallsOK == \A c \in Callers : CallOK(c)

\* Nothing ticks, and a task that awaits another is queued once that is over.
Legitimate(e) ==
    /\ e.result # "tick"
    /\ pc[e.task] \notin {"idle", "done"}
    /\ pc[e.task] \in {"health", "run"} => pc[target[e.task]] = "done"
    /\ pc[e.task] = "pending" => pc[target[e.task]] = "idle"

\* A start that has not begun goes before every other call.
QueueOK ==
    /\ Single(ready)
    /\ \A e \in InQueue(ready) : Legitimate(e)
    /\ \A c \in Callers : pc[c] = "begin" => Queued(ready, c)
    /\ \A c \in Callers : pc[c] = "begin" /\ Starts(c) => Leads(ready, c)

\* A coroutine calls alone.  Beside a start there are only stops: none has begun
\* before the start has, and none does more than wait before it is over.
TurnsOK ==
    /\ startTask \in (Callers \ Hosts) \cup {None}
    /\ \A c \in Hosts : pc[c] # "idle" => \A d \in Others(c) : pc[d] = "idle"
    /\ \A c \in Callers : Starts(c) => \A d \in Others(c) : pc[d] # "idle" =>
          /\ Stops(d)
          /\ pc[d] = "begin" \/ (pc[d] = "pending" /\ pc[c] # "begin")

Front == KindsOK /\ CallsOK /\ QueueOK /\ TurnsOK

\* A caller the event loop resumes: what is behind it in the queue.
LEMMA CallerResumes ==
    ASSUME LifecycleAssumption, TypeOK, Front, NEW p \in Callers, NEW result,
           Resumes(p, result)
    PROVE  /\ Rest \in Seq(Entries) /\ Single(Rest) /\ ~Queued(Rest, p)
           /\ InQueue(Rest) = InQueue(ready) \ {Entry(p, result)}
           /\ Legitimate(Entry(p, result)) /\ pc[p] # "idle"
           /\ \A c : Leads(ready, c) /\ c # p => Leads(Rest, c)
           /\ \A c \in Others(p) : ~(pc[c] = "begin" /\ Starts(c))
<1>1. ready \in Seq(Entries) /\ ready # <<>> /\ Head(ready) = Entry(p, result)
      /\ Single(ready)
  BY DEF TypeOK, Resumes, Front, QueueOK
<1>2. Entry(p, result).task = p
  BY DEF Entry
<1>3. /\ Rest \in Seq(Entries) /\ Single(Rest) /\ ~Queued(Rest, p)
      /\ InQueue(Rest) = InQueue(ready) \ {Entry(p, result)}
      /\ Entry(p, result) \in InQueue(ready)
      /\ \A c : Leads(ready, c) /\ c # p => Leads(Rest, c)
      /\ \A c : Leads(ready, c) => c = p
  BY <1>1, <1>2, RestQueue DEF Rest
<1>4. Legitimate(Entry(p, result)) /\ pc[p] # "idle"
  BY <1>2, <1>3 DEF Front, QueueOK, Legitimate
<1>5. ASSUME NEW c \in Others(p), pc[c] = "begin", Starts(c) PROVE FALSE
  BY <1>3, <1>5 DEF Front, QueueOK, Others
<1> QED
  BY <1>3, <1>4, <1>5

\* No task of queue q is cancelled.
NoNewCancel(q) == \A e \in InQueue(ready') : e.result = "cancel" => e \in InQueue(q)

\* What the new queue must keep of the old one.
LEMMA QueueStep ==
    ASSUME Single(ready'),
           \A e \in InQueue(ready') : Legitimate(e)',
           \A c \in Callers : pc'[c] = "begin" => Queued(ready', c),
           \A c \in Callers : pc'[c] = "begin" /\ Starts(c)' => Leads(ready', c)
    PROVE  QueueOK'
BY DEF QueueOK

LEMMA SpawnFront ==
    ASSUME LifecycleAssumption, TypeOK, TypeOK', Front, NEW p \in Callers,
           NEW o \in Calls, NEW t \in (Callers \ Hosts) \cup {None},
           Idle(p), Spawn(p, o, t), \A c \in Callers : pc[c] = "pending" => target[c] # p,
           startTask' \in (Callers \ Hosts) \cup {None},
           p \in Hosts \/ o # "stop" => t = None,
           p \notin Hosts => o \in {"start", "stop"},
           o # "stop" \/ p \in Hosts => \A c \in Callers : pc[c] = "idle",
           \A c \in Hosts : pc[c] = "idle"
    PROVE  Front' /\ NoNewCancel(ready)
<1>0. /\ pc' = [pc EXCEPT ![p] = "begin"] /\ op' = [op EXCEPT ![p] = o]
      /\ target' = [target EXCEPT ![p] = t] /\ ready' = Append(ready, Entry(p, "go"))
  BY DEF Spawn
<1>1. pc[p] = "idle" /\ o # None
  BY Disjoint DEF Idle, Front, KindsOK
<1>2. /\ \A q \in Tasks : pc'[q] = IF q = p THEN "begin" ELSE pc[q]
      /\ \A q \in Procs : op'[q] = IF q = p THEN o ELSE op[q]
      /\ \A q \in Procs : target'[q] = IF q = p THEN t ELSE target[q]
  BY <1>0, Disjoint DEF TypeOK
<1>3. KindsOK'
  BY <1>2, Disjoint DEF Front, KindsOK
<1>4. CallsOK'
  <2> SUFFICES ASSUME NEW c \in Callers PROVE CallOK(c)'
    BY DEF CallsOK
  <2>1. CASE c = p
    BY <1>1, <1>2, <2>1, Disjoint DEF CallOK, Starts, Stops, Calls
  <2>2. CASE c # p
    <3>1. pc'[c] = pc[c] /\ op'[c] = op[c] /\ target'[c] = target[c]
      BY <1>2, <2>2, Disjoint
    <3> QED
      BY <3>1 DEF Front, CallsOK, CallOK, Starts, Stops
  <2> QED
    BY <2>1, <2>2
<1>5. /\ ~Queued(ready, p) /\ Single(ready) /\ ready \in Seq(Entries)
      /\ Entry(p, "go") \in Entries /\ Entry(p, "go").task = p
  BY <1>1, GoEntry, QueuedIn, Disjoint DEF Front, QueueOK, Legitimate, TypeOK, Entry
<1>6. /\ Single(ready') /\ InQueue(ready') = InQueue(ready) \cup {Entry(p, "go")}
      /\ \A c : Leads(ready, c) => Leads(ready', c)
      /\ (\A e \in InQueue(ready) : e.task \notin Callers) => Leads(ready', p)
  BY <1>0, <1>5, AppendQueue
<1>7. \A e \in InQueue(ready') : Legitimate(e)'
  <2> SUFFICES ASSUME NEW e \in InQueue(ready') PROVE Legitimate(e)'
    OBVIOUS
  <2>1. CASE e = Entry(p, "go")
    BY <1>2, <2>1, Disjoint DEF Legitimate, Entry
  <2>2. CASE e \in InQueue(ready)
    <3>1. e.task # p /\ Legitimate(e) /\ e.task \in Tasks
      <4>1. e.task # p
        BY <1>5, <2>2, QueuedIn
      <4>2. Legitimate(e)
        BY <2>2 DEF Front, QueueOK
      <4>3. e \in Entries
        BY <1>5, <2>2 DEF InQueue
      <4> QED
        BY <4>1, <4>2, <4>3 DEF Entries
    <3>2. pc'[e.task] = pc[e.task]
      BY <1>2, <3>1
    <3>3. pc[e.task] \in {"health", "run", "pending"} =>
             target'[e.task] = target[e.task] /\ target[e.task] \in Tasks /\ target[e.task] # p
      <4> SUFFICES ASSUME pc[e.task] \in {"health", "run", "pending"}
                   PROVE  target'[e.task] = target[e.task] /\ target[e.task] \in Tasks
                          /\ target[e.task] # p
        OBVIOUS
      <4>1. e.task \in Callers
        BY <3>1, Disjoint DEF Front, KindsOK, RunPCs
      <4> QED
        BY <1>2, <3>1, <4>1, Disjoint DEF Front, CallsOK, CallOK
    <3> QED
      BY <1>2, <3>1, <3>2, <3>3 DEF Legitimate
  <2> QED
    BY <1>6, <2>1, <2>2
<1>8. \A c \in Callers : pc'[c] = "begin" => Queued(ready', c)
  BY <1>2, <1>5, <1>6, QueuedIn, Disjoint DEF Front, QueueOK
<1>9. \A c \in Callers : pc'[c] = "begin" /\ Starts(c)' => Leads(ready', c)
  <2> SUFFICES ASSUME NEW c \in Callers, pc'[c] = "begin", Starts(c)'
               PROVE  Leads(ready', c)
    OBVIOUS
  <2>1. CASE c # p
    BY <1>2, <1>6, <2>1, Disjoint DEF Front, QueueOK, Starts
  <2>2. CASE c = p
    <3>1. \A d \in Callers : pc[d] = "idle"
      BY <1>2, <2>2, Disjoint DEF Starts
    <3>2. \A e \in InQueue(ready) : e.task \notin Callers
      BY <3>1 DEF Front, QueueOK, Legitimate
    <3> QED
      BY <1>6, <2>2, <3>2
  <2> QED
    BY <2>1, <2>2
<1>10. QueueOK'
  BY <1>6, <1>7, <1>8, <1>9, QueueStep
<1>11. TurnsOK'
  <2>1. ASSUME NEW c \in Hosts, pc'[c] # "idle", NEW d \in Others(c) PROVE pc'[d] = "idle"
    BY <1>2, <2>1, Disjoint DEF Others, Hosts
  <2>2. ASSUME NEW c \in Callers, Starts(c)', NEW d \in Others(c), pc'[d] # "idle"
        PROVE  Stops(d)' /\ (pc'[d] = "begin" \/ (pc'[d] = "pending" /\ pc'[c] # "begin"))
    <3>1. CASE c = p
      BY <1>2, <2>2, <3>1, Disjoint DEF Others, Starts
    <3>2. CASE d = p
      <4>1. o = "stop"
        <5>1. pc[c] # "idle"
          BY <1>2, <2>2, <3>2, Disjoint DEF Others, Starts, Front, CallsOK, CallOK
        <5> QED
          BY <5>1
      <4> QED
        BY <1>2, <3>2, <4>1, Disjoint DEF Stops
    <3>3. CASE c # p /\ d # p
      BY <1>2, <2>2, <3>3, Disjoint DEF Others, Starts, Stops, Front, TurnsOK
    <3> QED
      BY <3>1, <3>2, <3>3
  <2> QED
    BY <2>1, <2>2 DEF TurnsOK
<1>12. NoNewCancel(ready)
  BY <1>6 DEF NoNewCancel, Entry
<1> QED
  BY <1>3, <1>4, <1>10, <1>11, <1>12 DEF Front

\* An entry whose task does not move stays legitimate, unless what the task
\* awaits comes back to life.
LEMMA KeepsLegitimate ==
    ASSUME LifecycleAssumption, TypeOK, Front, NEW e \in InQueue(ready),
           pc'[e.task] = pc[e.task],
           e.task \in Callers => target'[e.task] = target[e.task],
           \A t \in Tasks : pc[t] \in {"idle", "done"} =>
              \/ pc'[t] = pc[t]
              \/ \A c \in Callers :
                    pc[c] \in {"pending", "health", "run"} => target[c] # t
    PROVE  Legitimate(e)'
<1>1. Legitimate(e) /\ e \in Entries
  BY DEF Front, QueueOK, TypeOK, InQueue
<1>2. CASE pc[e.task] \in {"pending", "health", "run"}
  <2>1. e.task \in Callers
    <3>1. e.task \in Tasks
      BY <1>1 DEF Entries
    <3>2. e.task \notin Loops
      BY <1>2 DEF Front, KindsOK
    <3>3. e.task \notin Runs
      BY <1>2 DEF Front, KindsOK, RunPCs
    <3> QED
      BY <3>1, <3>2, <3>3, Disjoint
  <2>2. target[e.task] \in Tasks
    BY <1>2, <2>1, Disjoint DEF Front, CallsOK, CallOK, Hosts
  <2> QED
    BY <1>1, <1>2, <2>1, <2>2 DEF Legitimate
<1> QED
  BY <1>1, <1>2 DEF Legitimate

\* What a caller that goes on changes of the tasks: itself, and a connection
\* loop that nothing refers to.
Moves(p) ==
    /\ op' = op
    /\ \A c \in Others(p) : target'[c] = target[c]
    /\ \A t \in Tasks \ {p} :
          \/ pc'[t] = pc[t]
          \/ /\ t \in Runs /\ pc[t] = "done" /\ pc'[t] = "new"
             /\ \A c \in Callers : target[c] # t

\* What it leaves in the queue.
Requeues ==
    /\ Single(ready')
    /\ \A e \in InQueue(ready') :
          \/ e \in InQueue(Rest)
          \/ e.result # "tick"
             /\ pc'[e.task] \notin {"idle", "done", "pending", "health", "run"}
    /\ \A c \in Callers : Queued(Rest, c) => Queued(ready', c)
    /\ \A c : Leads(Rest, c) => Leads(ready', c)

LEMMA MoveFront ==
    ASSUME LifecycleAssumption, TypeOK, Front, NEW p \in Callers, NEW result,
           Resumes(p, result), Moves(p), Requeues, CallOK(p)', UNCHANGED startTask,
           pc'[p] \in {"pending", "yield", "health", "run"},
           pc'[p] # "pending" => \A c \in Others(p) : ~Starts(c)
    PROVE  Front'
<1>1. /\ Rest \in Seq(Entries) /\ Single(Rest) /\ ~Queued(Rest, p)
      /\ InQueue(Rest) = InQueue(ready) \ {Entry(p, result)}
      /\ pc[p] # "idle"
      /\ \A c : Leads(ready, c) /\ c # p => Leads(Rest, c)
      /\ \A c \in Others(p) : ~(pc[c] = "begin" /\ Starts(c))
  BY CallerResumes
<1>2. /\ \A c \in Others(p) : pc'[c] = pc[c]
      /\ \A l \in Loops : pc'[l] = pc[l]
      /\ p \notin Loops /\ p \notin Runs
  BY Disjoint DEF Moves, Others
<1>3. KindsOK'
  BY <1>2, Disjoint DEF Front, KindsOK, Moves, Others, RunPCs
<1>4. CallsOK'
  <2> SUFFICES ASSUME NEW c \in Others(p) PROVE CallOK(c)'
    BY DEF CallsOK, Others
  <2>1. pc'[c] = pc[c] /\ op'[c] = op[c] /\ target'[c] = target[c] /\ CallOK(c)
    BY <1>2 DEF Moves, Front, CallsOK, Others
  <2> QED
    BY <2>1 DEF CallOK, Starts, Stops
<1>5. \A e \in InQueue(ready') : Legitimate(e)'
  <2> SUFFICES ASSUME NEW e \in InQueue(ready') PROVE Legitimate(e)'
    OBVIOUS
  <2>1. CASE e \in InQueue(Rest)
    <3>1. e \in InQueue(ready) /\ e.task # p /\ Legitimate(e) /\ e \in Entries
      <4>1. e \in InQueue(ready) /\ e.task # p
        BY <1>1, <2>1, QueuedIn
      <4> QED
        BY <4>1 DEF Front, QueueOK, InQueue, TypeOK
    <3>2. e.task \in Tasks
      BY <3>1 DEF Entries
    <3>3. pc'[e.task] = pc[e.task]
      BY <3>1, <3>2 DEF Moves, Legitimate
    <3>4. \A t \in Tasks : pc[t] \in {"idle", "done"} =>
             pc'[t] = pc[t] \/ \A c \in Callers : target[c] # t
      <4> SUFFICES ASSUME NEW t \in Tasks, pc[t] \in {"idle", "done"}
                   PROVE  pc'[t] = pc[t] \/ \A c \in Callers : target[c] # t
        OBVIOUS
      <4>1. pc[p] # "done"
        BY DEF Front, KindsOK
      <4> QED
        BY <1>1, <4>1 DEF Moves
    <3> QED
      BY <3>1, <3>3, <3>4, KeepsLegitimate DEF Moves, Others
  <2>2. CASE e \notin InQueue(Rest)
    BY <2>2 DEF Requeues, Legitimate
  <2> QED
    BY <2>1, <2>2
<1>6. \A c \in Callers : pc'[c] = "begin" =>
         c \in Others(p) /\ pc[c] = "begin" /\ Queued(ready', c)
  <2> SUFFICES ASSUME NEW c \in Callers, pc'[c] = "begin"
               PROVE  c \in Others(p) /\ pc[c] = "begin" /\ Queued(ready', c)
    OBVIOUS
  <2>1. c \in Others(p) /\ pc[c] = "begin"
    BY <1>2 DEF Others
  <2>2. PICK e \in InQueue(ready) : e.task = c
    BY <2>1, QueuedIn DEF Front, QueueOK
  <2>3. e \in InQueue(Rest)
    BY <1>1, <2>1, <2>2 DEF Others, Entry
  <2> QED
    BY <2>1, <2>2, <2>3, QueuedIn DEF Requeues
<1>7. \A c \in Callers : pc'[c] = "begin" => ~Starts(c)'
  BY <1>1, <1>6 DEF Moves, Starts
<1>8. QueueOK'
  BY <1>5, <1>6, <1>7, QueueStep DEF Requeues
<1>9. TurnsOK'
  <2>1. ASSUME NEW c \in Hosts, pc'[c] # "idle", NEW d \in Others(c) PROVE pc'[d] = "idle"
    BY <1>1, <1>2, <2>1 DEF Front, TurnsOK, Others, Hosts
  <2>2. ASSUME NEW c \in Callers, Starts(c)', NEW d \in Others(c), pc'[d] # "idle"
        PROVE  Stops(d)' /\ (pc'[d] = "begin" \/ (pc'[d] = "pending" /\ pc'[c] # "begin"))
    <3>0. Starts(c) /\ pc[d] # "idle"
      BY <1>1, <1>2, <2>2 DEF Moves, Starts, Others
    <3>1. Stops(d) /\ (pc[d] = "begin" \/ (pc[d] = "pending" /\ pc[c] # "begin"))
      BY <2>2, <3>0 DEF Front, TurnsOK
    <3>2. Stops(d)'
      BY <3>1 DEF Moves, Stops
    <3>3. pc'[c] # "begin"
      BY <1>7, <2>2
    <3>4. CASE d = p
      BY <2>2, <3>0, <3>2, <3>3, <3>4 DEF Others
    <3>5. CASE d # p
      BY <1>2, <2>2, <3>1, <3>2, <3>3, <3>5 DEF Others
    <3> QED
      BY <3>4, <3>5
  <2> QED
    BY <2>1, <2>2 DEF Front, TurnsOK
<1> QED
  BY <1>3, <1>4, <1>8, <1>9 DEF Front

\* What the end of a call changes: the caller is idle, or it is a coroutine that
\* goes on to its next call.  pcs is where the code before left the tasks.
Ends(p, pcs) ==
    /\ \A t \in Tasks \ {p} : pc'[t] = pcs[t]
    /\ \A c \in Others(p) : op'[c] = op[c] /\ target'[c] = target[c]
    /\ \A t \in Tasks \ {p} : ncOf'[t] = ncOf[t]
    /\ target'[p] = None
    /\ \/ pc'[p] = "idle" /\ op'[p] = None
       \/ p \in Hosts /\ pc'[p] = "begin" /\ op'[p] \in Calls

\* ... and whom it queues behind q.
Returns(p, pcs, q) ==
    /\ Ends(p, pcs)
    /\ pc'[p] = "idle" => Wake(q, AwaitsStart(p))
    /\ pc'[p] = "begin" => ready' = <<Entry(p, "go")>> \o q

LEMMA ReturnEnds ==
    ASSUME LifecycleAssumption, TypeOK, NEW p \in Callers,
           NEW pcs \in [Tasks -> PCs], NEW q, Return(p, pcs, q)
    PROVE  Returns(p, pcs, q) /\ Ends(p, pcs)
<1>1. /\ target' = [target EXCEPT ![p] = None] /\ ncOf' = [ncOf EXCEPT ![p] = None]
      /\ p \in Procs /\ p \in Tasks /\ p \notin Loops
      /\ \A c \in Callers : c \in Procs
  BY Disjoint DEF Return
<1>2. /\ \A c \in Others(p) : target'[c] = target[c]
      /\ \A t \in Tasks \ {p} : ncOf'[t] = ncOf[t]
      /\ target'[p] = None
  BY <1>1 DEF TypeOK, Others
<1>3. CASE /\ pc' = [pcs EXCEPT ![p] = IF p \in Loops THEN "sleep" ELSE "idle"]
           /\ op' = [op EXCEPT ![p] = None]
           /\ Wake(q, AwaitsStart(p))
  BY <1>1, <1>2, <1>3 DEF Returns, Ends, TypeOK, Others
<1>4. CASE /\ pc' = [pcs EXCEPT ![p] = "begin"]
           /\ \E o \in Ops[p] : op' = [op EXCEPT ![p] = o]
           /\ ready' = <<Entry(p, "go")>> \o q
  <2>1. PICK o \in Ops[p] : op' = [op EXCEPT ![p] = o]
    BY <1>4
  <2>2. o \in Calls /\ p \in Hosts
    BY <2>1 DEF LifecycleAssumption, Hosts
  <2>3. pc'[p] = "begin" /\ op'[p] = o
    BY <1>1, <1>4, <2>1 DEF TypeOK
  <2>4. \A t \in Tasks \ {p} : pc'[t] = pcs[t]
    BY <1>4
  <2>5. \A c \in Others(p) : op'[c] = op[c]
    BY <1>1, <2>1 DEF TypeOK, Others
  <2> QED
    BY <1>2, <1>4, <2>2, <2>3, <2>4, <2>5 DEF Returns, Ends
<1> QED
  BY <1>3, <1>4 DEF Return

\* Nothing awaits the start that has ended but the stops it wakes.
LEMMA ReturnFront ==
    ASSUME LifecycleAssumption, TypeOK, TypeOK', Front, NEW p \in Callers, NEW result,
           Resumes(p, result), UNCHANGED startTask,
           NEW pcs \in [Tasks -> PCs], NEW q \in Seq(Entries), Single(q),
           Returns(p, pcs, q),
           \A t \in Tasks :
              \/ pcs[t] = pc[t]
              \/ /\ t \in Loops /\ pc[t] = "done" /\ pcs[t] = "sleep"
                 /\ \A c \in Callers : target[c] # t,
           InQueue(Rest) \subseteq InQueue(q),
           \A e \in InQueue(q) :
              \/ e \in InQueue(Rest)
              \/ e.result = "go" /\ e.task \in Loops /\ pcs[e.task] = "sleep",
           \A c : Leads(Rest, c) => Leads(q, c)
    PROVE  Front' /\ NoNewCancel(q)
<1>1. /\ Rest \in Seq(Entries) /\ Single(Rest) /\ ~Queued(Rest, p)
      /\ InQueue(Rest) = InQueue(ready) \ {Entry(p, result)}
      /\ pc[p] # "idle" /\ Legitimate(Entry(p, result))
      /\ \A c : Leads(ready, c) /\ c # p => Leads(Rest, c)
      /\ \A c \in Others(p) : ~(pc[c] = "begin" /\ Starts(c))
  BY CallerResumes
<1>2. /\ Ends(p, pcs)
      /\ pc'[p] = "idle" => Wake(q, AwaitsStart(p))
      /\ pc'[p] = "begin" => ready' = <<Entry(p, "go")>> \o q
  BY DEF Returns
<1>3. /\ p \in Tasks /\ p \notin Loops /\ p \notin Runs
      /\ \A c \in Callers : c \in Tasks /\ c \notin Loops
      /\ \A c \in Others(p) : c \in Callers /\ c \in Tasks \ {p}
  BY Disjoint DEF Others
<1>4. \A c \in Others(p) : pc'[c] = pc[c] /\ op'[c] = op[c] /\ target'[c] = target[c]
  BY <1>2, <1>3 DEF Ends
<1>5. KindsOK'
  <2>1. \A l \in Loops : pc'[l] \in {"sleep", "done"}
    BY <1>2, <1>3, Disjoint DEF Ends, Front, KindsOK
  <2>2. \A r \in Runs : pc'[r] \in RunPCs
    BY <1>2, <1>3, Disjoint DEF Ends, Front, KindsOK
  <2>3. \A c \in Callers :
           pc'[c] \in {"idle", "begin", "pending", "yield", "health", "run"}
    BY <1>2, <1>4 DEF Ends, Front, KindsOK, Others
  <2> QED
    BY <2>1, <2>2, <2>3 DEF KindsOK
<1>6. CallsOK'
  <2> SUFFICES ASSUME NEW c \in Callers PROVE CallOK(c)'
    BY DEF CallsOK
  <2>1. CASE c = p
    BY <1>2, <2>1, Disjoint DEF Ends, CallOK, Starts, Stops, Calls
  <2>2. CASE c # p
    <3>1. pc'[c] = pc[c] /\ op'[c] = op[c] /\ target'[c] = target[c] /\ CallOK(c)
      BY <1>4, <2>2 DEF Others, Front, CallsOK
    <3> QED
      BY <3>1 DEF CallOK, Starts, Stops
  <2> QED
    BY <2>1, <2>2
\* the entries of q are legitimate
<1>7. \A t \in Tasks : pc[t] \in {"idle", "done"} =>
         pc'[t] = pc[t] \/ \A c \in Callers : target[c] # t
  <2>1. pc[p] # "done"
    BY DEF Front, KindsOK
  <2> QED
    BY <1>1, <1>2, <2>1 DEF Ends
<1>8. \A e \in InQueue(q) : Legitimate(e)' /\ e.task # p
  <2> SUFFICES ASSUME NEW e \in InQueue(q) PROVE Legitimate(e)' /\ e.task # p
    OBVIOUS
  <2>1. CASE e \in InQueue(Rest)
    <3>1. e \in InQueue(ready) /\ e.task # p
      BY <1>1, <2>1, QueuedIn
    <3>2. Legitimate(e) /\ e \in Entries
      BY <3>1 DEF Front, QueueOK, InQueue, TypeOK
    <3>3. e.task \in Tasks
      BY <3>2 DEF Entries
    <3>4. pc'[e.task] = pc[e.task]
      BY <1>2, <3>1, <3>2, <3>3 DEF Ends, Legitimate
    <3>5. e.task \in Callers => target'[e.task] = target[e.task]
      BY <1>4, <3>1 DEF Others
    <3> QED
      BY <1>7, <3>1, <3>4, <3>5, KeepsLegitimate
  <2>2. CASE e.result = "go" /\ e.task \in Loops /\ pcs[e.task] = "sleep"
    <3>1. e.task \in Tasks \ {p}
      BY <1>3, <2>2, Disjoint
    <3> QED
      BY <1>2, <2>2, <3>1 DEF Ends, Legitimate
  <2> QED
    BY <2>1, <2>2
<1>9. \A c \in Callers : pc'[c] = "begin" =>
         c = p \/ (pc[c] = "begin" /\ Queued(q, c))
  <2> SUFFICES ASSUME NEW c \in Others(p), pc'[c] = "begin"
               PROVE  pc[c] = "begin" /\ Queued(q, c)
    BY DEF Others
  <2>1. pc[c] = "begin"
    BY <1>4
  <2>2. PICK e \in InQueue(ready) : e.task = c
    BY <2>1, QueuedIn DEF Front, QueueOK, Others
  <2>3. e \in InQueue(Rest)
    BY <1>1, <2>2 DEF Others, Entry
  <2> QED
    BY <2>1, <2>2, <2>3, QueuedIn
<1>10. CASE pc'[p] = "idle"
  <2> DEFINE W == AwaitsStart(p)
  <2>1. \A w \in W : w \in Others(p) /\ pc'[w] = "pending" /\ target'[w] = p
    <3> SUFFICES ASSUME NEW w \in W
                 PROVE  w \in Others(p) /\ pc'[w] = "pending" /\ target'[w] = p
      OBVIOUS
    <3>1. w \in Callers /\ pc[w] = "pending" /\ target[w] = p
      BY DEF AwaitsStart
    <3>2. w # p
      BY <1>1, <3>1 DEF Legitimate, Entry
    <3> QED
      BY <1>4, <3>1, <3>2 DEF Others
  <2>2. \A w \in W : ~Queued(q, w)
    <3> SUFFICES ASSUME NEW w \in W, NEW e \in InQueue(q), e.task = w PROVE FALSE
      BY QueuedIn
    <3>1. e \in InQueue(Rest)
      BY <1>3, <2>1 DEF Others
    <3>2. Legitimate(e)
      BY <1>1, <3>1 DEF Front, QueueOK
    <3> QED
      BY <1>1, <3>2 DEF AwaitsStart, Legitimate
  <2>3. W \in SUBSET Procs
    BY DEF AwaitsStart, Procs
  <2>4. Wake(q, W)
    BY <1>2, <1>10
  <2> HIDE DEF W
  <2>5. /\ Single(ready')
        /\ InQueue(ready') = InQueue(q) \cup {Entry(w, "go") : w \in W}
        /\ \A c : Leads(q, c) => Leads(ready', c)
    BY <2>2, <2>3, <2>4, WakeQueue
  <2>6. \A e \in InQueue(ready') : Legitimate(e)'
    <3> SUFFICES ASSUME NEW w \in W PROVE Legitimate(Entry(w, "go"))'
      BY <1>8, <2>5
    <3> QED
      BY <1>10, <2>1 DEF Legitimate, Entry
  <2>7. \A c \in Callers : pc'[c] = "begin" => Queued(ready', c)
    BY <1>9, <1>10, <2>5, QueuedIn
  <2>8. \A c \in Callers : pc'[c] = "begin" => ~Starts(c)'
    BY <1>1, <1>4, <1>9, <1>10 DEF Starts, Others
  <2>9. QueueOK'
    BY <2>5, <2>6, <2>7, <2>8, QueueStep
  <2>10. TurnsOK'
    <3>1. ASSUME NEW c \in Hosts, pc'[c] # "idle", NEW d \in Others(c)
          PROVE  pc'[d] = "idle"
      BY <1>1, <1>4, <1>10, <3>1 DEF Front, TurnsOK, Others, Hosts
    <3>2. ASSUME NEW c \in Callers, Starts(c)', NEW d \in Others(c), pc'[d] # "idle"
          PROVE  Stops(d)' /\ (pc'[d] = "begin" \/ (pc'[d] = "pending" /\ pc'[c] # "begin"))
      <4>1. c # p /\ d # p
        <5>1. ~Starts(p)'
          BY <1>2, <1>10, Disjoint DEF Ends, Starts, Calls
        <5> QED
          BY <1>10, <3>2, <5>1
      <4> QED
        BY <1>4, <3>2, <4>1 DEF Front, TurnsOK, Others, Starts, Stops
    <3> QED
      BY <3>1, <3>2 DEF Front, TurnsOK
  <2>11. NoNewCancel(q)
    BY <2>5 DEF NoNewCancel, Entry
  <2> QED
    BY <1>5, <1>6, <2>9, <2>10, <2>11 DEF Front
<1>11. CASE p \in Hosts /\ pc'[p] = "begin"
  <2>1. \A c \in Others(p) : pc[c] = "idle" /\ pc'[c] = "idle"
    BY <1>1, <1>4, <1>11 DEF Front, TurnsOK
  <2>2. \A e \in InQueue(q) : e.task \notin Callers
    <3> SUFFICES ASSUME NEW e \in InQueue(q), e.task \in Callers PROVE FALSE
      OBVIOUS
    <3>1. e.task \in Others(p)
      BY <1>8 DEF Others
    <3> QED
      BY <1>8, <2>1, <3>1 DEF Legitimate
  <2> DEFINE g == Entry(p, "go")
  <2>3. g \in Entries /\ g.task = p /\ Legitimate(g)'
    BY <1>3, <1>11, GoEntry DEF Legitimate, Entry
  <2> HIDE DEF g
  <2>4. <<g>> \in Seq(Entries) /\ Single(<<g>>) /\ InQueue(<<g>>) = {g} /\ Leads(<<g>>, p)
    BY <2>3, OneEntry
  <2>5. \A e \in InQueue(<<g>>), f \in InQueue(q) : e.task # f.task
    BY <1>8, <2>3, <2>4
  <2>6. /\ Single(ready') /\ InQueue(ready') = {g} \cup InQueue(q) /\ Leads(ready', p)
    <3>1. ready' = <<g>> \o q
      BY <1>2, <1>11 DEF g
    <3> DEFINE one == <<g>>
    <3>2. one \in Seq(Entries) /\ Single(one) /\ InQueue(one) = {g} /\ Leads(one, p)
      BY <2>4
    <3>3. \A e \in InQueue(one), f \in InQueue(q) : e.task # f.task
      BY <2>5
    <3>4. ready' = one \o q
      BY <3>1
    <3> HIDE DEF one
    <3>5. /\ Single(one \o q) /\ InQueue(one \o q) = InQueue(one) \cup InQueue(q)
          /\ \A c : Leads(one, c) => Leads(one \o q, c)
      BY <3>2, <3>3, ConcatQueue
    <3> QED
      BY <3>2, <3>4, <3>5
  <2>7. \A c \in Callers : pc'[c] = "begin" => c = p /\ Queued(ready', c)
    BY <2>1, <2>3, <2>6, QueuedIn DEF Others
  <2>8. QueueOK'
    BY <1>8, <2>3, <2>6, <2>7, QueueStep
  <2>9. TurnsOK'
    <3>1. ASSUME NEW c \in Hosts, pc'[c] # "idle", NEW d \in Others(c)
          PROVE  pc'[d] = "idle"
      BY <2>1, <3>1 DEF Others, Hosts
    <3>2. ASSUME NEW c \in Callers, Starts(c)', NEW d \in Others(c), pc'[d] # "idle"
          PROVE  FALSE
      <4>1. c # p
        BY <2>1, <3>2 DEF Others
      <4>2. pc'[c] = "idle"
        BY <2>1, <4>1 DEF Others
      <4> QED
        BY <1>6, <3>2, <4>2, Disjoint DEF CallsOK, CallOK, Starts, Calls
    <3> QED
      BY <3>1, <3>2 DEF Front, TurnsOK
  <2>10. NoNewCancel(q)
    BY <2>6 DEF NoNewCancel, Entry, g
  <2> QED
    BY <1>5, <1>6, <2>8, <2>9, <2>10 DEF Front
<1> QED
  BY <1>2, <1>10, <1>11 DEF Ends

\* A step of a health loop or of a connection loop.
LEMMA TaskFront ==
    ASSUME LifecycleAssumption, TypeOK, Front, NEW t \in Loops \cup Runs, NEW result,
           Resumes(t, result), UNCHANGED <<frame, startTask>>,
           \A u \in Tasks \ {t} : pc'[u] = pc[u],
           pc'[t] \in IF t \in Loops THEN {"sleep", "done"} ELSE RunPCs,
           \/ ready' = Rest
           \/ pc'[t] = "done" /\ Wake(Rest, Waiters(t) \ {t})
    PROVE  Front' /\ NoNewCancel(ready)
<1>1. /\ ready \in Seq(Entries) /\ ready # <<>> /\ Head(ready) = Entry(t, result)
      /\ Single(ready) /\ Entry(t, result).task = t
  BY DEF TypeOK, Resumes, Front, QueueOK, Entry
<1>2. /\ Rest \in Seq(Entries) /\ Single(Rest) /\ ~Queued(Rest, t)
      /\ InQueue(Rest) = InQueue(ready) \ {Entry(t, result)}
      /\ Entry(t, result) \in InQueue(ready)
      /\ \A c : Leads(ready, c) /\ c # t => Leads(Rest, c)
  BY <1>1, RestQueue DEF Rest
<1>3. pc[t] \notin {"idle", "done"}
  BY <1>1, <1>2 DEF Front, QueueOK, Legitimate
<1>4. /\ t \in Tasks /\ t \notin Callers
      /\ \A c \in Callers : pc'[c] = pc[c] /\ op'[c] = op[c] /\ target'[c] = target[c]
  BY Disjoint DEF frame
<1>5. KindsOK'
  BY <1>4, Disjoint DEF Front, KindsOK
<1>6. CallsOK'
  BY <1>4 DEF Front, CallsOK, CallOK, Starts, Stops
<1>7. \A e \in InQueue(Rest) : Legitimate(e)'
  <2> SUFFICES ASSUME NEW e \in InQueue(Rest) PROVE Legitimate(e)'
    OBVIOUS
  <2>1. e \in InQueue(ready) /\ e.task # t
    BY <1>2, QueuedIn
  <2>2. e \in Entries
    BY <2>1 DEF InQueue, TypeOK
  <2>3. pc'[e.task] = pc[e.task]
    BY <2>1, <2>2 DEF Entries
  <2> QED
    BY <1>3, <1>4, <2>1, <2>3, KeepsLegitimate
<1>8. /\ Single(ready') /\ InQueue(Rest) \subseteq InQueue(ready')
      /\ \A c : Leads(Rest, c) => Leads(ready', c)
      /\ \A e \in InQueue(ready') : Legitimate(e)'
      /\ NoNewCancel(Rest)
  <2>1. CASE ready' = Rest
    BY <1>2, <1>7, <2>1 DEF NoNewCancel
  <2>2. CASE pc'[t] = "done" /\ Wake(Rest, Waiters(t) \ {t})
    <3> DEFINE W == Waiters(t) \ {t}
    <3>1. \A w \in W : /\ w \in Callers /\ target[w] = t
                       /\ pc[w] \in {"health", "run"}
      BY DEF Waiters, Procs, Front, KindsOK
    <3>2. \A w \in W : ~Queued(Rest, w)
      <4> SUFFICES ASSUME NEW w \in W, NEW e \in InQueue(Rest), e.task = w PROVE FALSE
        BY QueuedIn
      <4>1. Legitimate(e)
        BY <1>2 DEF Front, QueueOK
      <4> QED
        BY <1>3, <3>1, <4>1 DEF Legitimate
    <3>3. W \in SUBSET Procs /\ Wake(Rest, W)
      BY <2>2 DEF Waiters
    <3> HIDE DEF W
    <3>4. /\ Single(ready')
          /\ InQueue(ready') = InQueue(Rest) \cup {Entry(w, "go") : w \in W}
          /\ \A c : Leads(Rest, c) => Leads(ready', c)
      BY <1>2, <3>2, <3>3, WakeQueue
    <3>5. ASSUME NEW w \in W PROVE Legitimate(Entry(w, "go"))'
      BY <1>4, <2>2, <3>1 DEF Legitimate, Entry
    <3>6. NoNewCancel(Rest)
      BY <3>4 DEF NoNewCancel, Entry
    <3> QED
      BY <1>2, <1>7, <3>4, <3>5, <3>6
  <2> QED
    BY <2>1, <2>2
<1>9. ASSUME NEW c \in Callers, pc'[c] = "begin" PROVE Queued(ready', c)
  <2>1. PICK e \in InQueue(ready) : e.task = c
    BY <1>4, <1>9, QueuedIn DEF Front, QueueOK
  <2>2. e \in InQueue(Rest)
    BY <1>1, <1>2, <1>4, <2>1
  <2> QED
    BY <1>8, <2>1, <2>2, QueuedIn
<1>10. \A c \in Callers : pc'[c] = "begin" /\ Starts(c)' => Leads(ready', c)
  BY <1>2, <1>4, <1>8 DEF Front, QueueOK, Starts
<1>11. QueueOK'
  BY <1>8, <1>9, <1>10, QueueStep
<1>12. TurnsOK'
  BY <1>4 DEF Front, TurnsOK, Others, Starts, Stops, Hosts
<1>13. NoNewCancel(ready)
  BY <1>2, <1>8 DEF NoNewCancel
<1> QED
  BY <1>5, <1>6, <1>11, <1>12, <1>13 DEF Front

LEMMA TransportFront ==
    ASSUME LifecycleAssumption, TypeOK, Front, NEW r \in Runs, TransportEvent(r)
    PROVE  Front' /\ NoNewCancel(ready)
<1>1. PICK result \in {"ok", "error"} :
         pc[r] # "done" /\ ready' = Append(ready, Entry(r, result))
  BY DEF TransportEvent
<1> DEFINE x == Entry(r, result)
<1>2. x \in Entries /\ x.task = r /\ x.result \notin {"tick", "cancel"} /\ ~Queued(ready, r)
  BY Disjoint DEF Entry, Entries, Results, TransportEvent
<1>3. Single(ready) /\ ready \in Seq(Entries)
  BY DEF Front, QueueOK, TypeOK
<1>4. ready' = Append(ready, x)
  BY <1>1
<1> HIDE DEF x
<1>5. /\ Single(ready') /\ InQueue(ready') = InQueue(ready) \cup {x}
      /\ \A c : Leads(ready, c) => Leads(ready', c)
  BY <1>2, <1>3, <1>4, AppendQueue
<1>6. UNCHANGED <<pc, frame, startTask>>
  BY DEF TransportEvent
<1>7. Legitimate(x)'
  BY <1>1, <1>2, <1>6 DEF Legitimate, Front, KindsOK, RunPCs
<1>8. \A e \in InQueue(ready) : Legitimate(e)'
  BY <1>6 DEF Front, QueueOK, Legitimate, frame
<1>9. \A c \in Callers : pc'[c] = "begin" => Queued(ready', c)
  BY <1>5, <1>6, QueuedIn DEF Front, QueueOK
<1>10. \A c \in Callers : pc'[c] = "begin" /\ Starts(c)' => Leads(ready', c)
  BY <1>5, <1>6 DEF Front, QueueOK, Starts, frame
<1>11. QueueOK'
  BY <1>5, <1>7, <1>8, <1>9, <1>10, QueueStep
<1>12. NoNewCancel(ready)
  BY <1>2, <1>5 DEF NoNewCancel
<1> QED
  BY <1>6, <1>11, <1>12 DEF Front, KindsOK, CallsOK, CallOK, TurnsOK, Others, Starts, Stops,
                     Hosts, frame

-----------------------------------------------------------------------------
(* The second half: what the host asked for, and the gateway it gets.      *)

\* A stop that was handed start c has still to wait for it, or does.
Kept(c) ==
    \E d \in Callers :
        Stops(d) /\ target[d] = c /\ pc[d] \in {"begin", "pending"}

\* Whoever acts last acts for the host's latest call: a start of the facade
\* that is still to come either has its stop behind it or is the latest call.
AskedOK ==
    /\ \A c \in Callers : Stops(c) /\ pc[c] # "begin" => asked = "down"
    /\ \A c \in Hosts : Starts(c) /\ pc[c] # "begin" => asked = "up"
    /\ asked = "down" /\ running => \E c \in Callers : Stops(c)
    /\ asked = "up" /\ ~running => \E c \in Callers : pc[c] = "yield"
    /\ \A c \in Callers \ Hosts : Starts(c) =>
          \/ Kept(c)
          \/ /\ startTask = c /\ \A d \in Others(c) : pc[d] = "idle"
             /\ pc[c] = "yield" => asked = "up"

LEMMA IdleOps ==
    ASSUME LifecycleAssumption, Front, NEW c \in Callers
    PROVE  /\ pc[c] = "idle" <=> op[c] = None
           /\ Starts(c) \/ Stops(c) => pc[c] # "idle"
           /\ pc[c] # "idle" /\ ~Starts(c) /\ c \notin Hosts => Stops(c)
BY Disjoint DEF Front, CallsOK, CallOK, Starts, Stops, Calls

LEMMA AskedKept ==
    ASSUME AskedOK, UNCHANGED <<running, asked, startTask>>,
           \A c \in Callers : pc'[c] = pc[c] /\ op'[c] = op[c] /\ target'[c] = target[c]
    PROVE  AskedOK'
BY DEF AskedOK, Kept, Starts, Stops, Others, Hosts

LEMMA AskedSpawn ==
    ASSUME LifecycleAssumption, TypeOK, Front, AskedOK, NEW p \in Callers,
           NEW o \in Calls, NEW t, Idle(p), Spawn(p, o, t),
           o # "stop" => \A c \in Callers : pc[c] = "idle",
           p \notin Hosts /\ o # "stop" => startTask' = p,
           p \notin Hosts => o # "restart",
           o # "stop" \/ p \in Hosts \/ (t = startTask /\ startTask' = None),
           p \in Hosts => UNCHANGED startTask /\ \A c \in Callers : pc[c] = "idle"
    PROVE  AskedOK'
<1>1. /\ pc[p] = "idle" /\ UNCHANGED <<running, asked>>
      /\ pc'[p] = "begin" /\ op'[p] = o /\ target'[p] = t
      /\ \A c \in Others(p) : pc'[c] = pc[c] /\ op'[c] = op[c] /\ target'[c] = target[c]
  BY Disjoint DEF Spawn, TypeOK, Idle, Front, KindsOK, Others, gateway
<1>2. ~Starts(p) /\ ~Stops(p)
  BY <1>1, IdleOps
<1>3. \A c \in Callers : Stops(c)' /\ pc'[c] # "begin" => asked' = "down"
  BY <1>1 DEF AskedOK, Stops, Others
<1>4. \A c \in Hosts : Starts(c)' /\ pc'[c] # "begin" => asked' = "up"
  BY <1>1 DEF AskedOK, Starts, Others, Hosts
<1>5. asked' = "down" /\ running' => \E c \in Callers : Stops(c)'
  BY <1>1, <1>2 DEF AskedOK, Stops, Others
<1>6. asked' = "up" /\ ~running' => \E c \in Callers : pc'[c] = "yield"
  BY <1>1 DEF AskedOK, Others
<1>7. ASSUME NEW c \in Callers \ Hosts, Starts(c)'
      PROVE  \/ Kept(c)'
             \/ /\ startTask' = c /\ \A d \in Others(c) : pc'[d] = "idle"
                /\ pc'[c] = "yield" => asked' = "up"
  <2>1. CASE c = p
    <3>1. o # "stop"
      BY <1>1, <1>7, <2>1 DEF Starts
    <3> QED
      BY <1>1, <1>7, <2>1, <3>1 DEF Others
  <2>2. CASE c # p
    <3>1. Starts(c) /\ pc[c] # "idle" /\ c \in Others(p)
      BY <1>1, <1>7, <2>2, IdleOps DEF Starts, Others
    <3>2. o = "stop" /\ p \notin Hosts /\ t = startTask
      BY <3>1
    <3>3. CASE Kept(c)
      <4>1. PICK d \in Callers :
               Stops(d) /\ target[d] = c /\ pc[d] \in {"begin", "pending"}
        BY <3>3 DEF Kept
      <4>2. d \in Others(p)
        BY <1>2, <4>1 DEF Others
      <4> QED
        BY <1>1, <4>1, <4>2 DEF Kept, Stops
    <3>4. CASE startTask = c
      BY <1>1, <3>2, <3>4 DEF Kept, Stops
    <3> QED
      BY <1>7, <3>1, <3>3, <3>4 DEF AskedOK
  <2> QED
    BY <2>1, <2>2
<1> QED
  BY <1>3, <1>4, <1>5, <1>6, <1>7 DEF AskedOK, Hosts

\* Everyone but p is left as it was.
Alike(p) ==
    \A c \in Others(p) : pc'[c] = pc[c] /\ op'[c] = op[c] /\ target'[c] = target[c]

\* A stop p goes on, waits or returns.
LEMMA AskedStop ==
    ASSUME LifecycleAssumption, TypeOK, Front, AskedOK, NEW p \in Callers, NEW result,
           Resumes(p, result), Stops(p), Alike(p), asked' = "down", UNCHANGED startTask,
           \/ pc'[p] = "pending" /\ target'[p] = target[p]
           \/ pc[p] = "begin" => ~StartPending(p),
           Stops(p)' \/ ~running',
           \/ Stops(p)'
           \/ pc'[p] = "idle" /\ op'[p] = None
           \/ p \in Hosts /\ pc'[p] = "begin"
    PROVE  AskedOK'
<1>1. Legitimate(Entry(p, result)) /\ pc[p] # "idle"
  BY CallerResumes
<1>2. \A c \in Others(p) : c \in Callers /\ c # p
  BY DEF Others
<1>3. ASSUME NEW c \in Hosts, Starts(c)', pc'[c] # "begin" PROVE FALSE
  <2>1. CASE c = p
    BY <1>3, <2>1, Disjoint DEF Starts, Stops, Calls
  <2>2. CASE c # p
    <3>1. c \in Others(p) /\ Starts(c)
      BY <1>3, <2>2 DEF Hosts, Others, Alike, Starts
    <3>2. pc[c] # "idle"
      BY <1>2, <3>1, IdleOps
    <3> QED
      BY <1>1, <1>3, <2>2, <3>2 DEF Front, TurnsOK, Others
  <2> QED
    BY <2>1, <2>2
<1>4. ASSUME NEW c \in Callers \ Hosts, Starts(c)' PROVE Kept(c)'
  <2>1. c # p
    BY <1>4, Disjoint DEF Starts, Stops, Calls
  <2>2. c \in Others(p) /\ Starts(c)
    BY <1>4, <2>1 DEF Others, Alike, Starts
  <2>3. pc[c] # "idle"
    BY <2>2, IdleOps
  <2>4. Kept(c)
    <3>1. p \in Others(c)
      BY <2>1 DEF Others
    <3> QED
      BY <1>1, <1>4, <2>2, <3>1 DEF AskedOK
  <2>5. PICK d \in Callers :
           Stops(d) /\ target[d] = c /\ pc[d] \in {"begin", "pending"}
    BY <2>4 DEF Kept
  <2>6. CASE d # p
    BY <2>5, <2>6 DEF Kept, Alike, Others, Stops
  <2>7. CASE d = p
    <3>1. pc[p] # "pending"
      BY <1>1, <2>3, <2>5, <2>7 DEF Legitimate, Entry
    <3>2. StartPending(p) /\ pc[p] = "begin"
      BY <2>3, <2>5, <2>7, <3>1 DEF StartPending, Idle, Front, KindsOK
    <3>3. pc'[p] = "pending" /\ target'[p] = c
      BY <2>5, <2>7, <3>2
    <3>4. Stops(p)'
      BY <3>3
    <3> QED
      BY <3>3, <3>4 DEF Kept
  <2> QED
    BY <2>6, <2>7
<1> QED
  BY <1>3, <1>4 DEF AskedOK, Hosts

\* A restart of a host coroutine, which is alone.
LEMMA AskedRestart ==
    ASSUME LifecycleAssumption, TypeOK, Front, AskedOK, NEW p \in Hosts,
           op[p] = "restart", Alike(p), asked' = "up",
           op'[p] = op[p], ~running' => pc'[p] = "yield"
    PROVE  AskedOK'
<1>1. p \in Callers /\ pc[p] # "idle"
  BY IdleOps DEF Starts, Hosts
<1>2. \A c \in Others(p) : c \in Callers /\ c # p /\ pc[c] = "idle"
  BY <1>1 DEF Front, TurnsOK, Others
<1>3. \A c \in Others(p) : op'[c] = None
  BY <1>2, IdleOps DEF Alike
<1>4. \A c \in Others(p) : ~Starts(c)' /\ ~Stops(c)'
  BY <1>3, Disjoint DEF Starts, Stops, Calls
<1>5. ~Stops(p)'
  BY DEF Stops
<1> QED
  BY <1>1, <1>2, <1>4, <1>5 DEF AskedOK, Others, Hosts

\* A start begins: the gateway runs already, or sleep(0) is next.
LEMMA AskedStart ==
    ASSUME LifecycleAssumption, TypeOK, Front, AskedOK, NEW p \in Callers, NEW result,
           Resumes(p, result), pc[p] = "begin", op[p] = "start",
           Alike(p), asked' = "up", UNCHANGED <<running, startTask>>,
           \/ pc'[p] = "yield" /\ op'[p] = op[p]
           \/ /\ running
              /\ \/ pc'[p] = "idle" /\ op'[p] = None
                 \/ p \in Hosts /\ pc'[p] = "begin"
    PROVE  AskedOK'
<1>1. Starts(p) /\ pc[p] # "idle"
  BY DEF Starts
<1>2. \A c \in Others(p) : c \in Callers /\ (pc[c] = "idle" \/ (Stops(c) /\ pc[c] = "begin"))
  BY <1>1 DEF Front, TurnsOK, Others
<1>3. \A c \in Others(p) : ~Starts(c)'
  <2> SUFFICES ASSUME NEW c \in Others(p), Starts(c) PROVE FALSE
    BY DEF Alike, Starts
  <2>1. ~Stops(c) /\ pc[c] # "idle"
    BY <1>2, IdleOps DEF Starts, Stops
  <2> QED
    BY <1>2, <2>1
<1>4. ASSUME NEW c \in Callers, Stops(c)', pc'[c] # "begin" PROVE FALSE
  <2>1. CASE c = p
    BY <1>4, <2>1, Disjoint DEF Stops, Calls
  <2>2. CASE c # p
    <3>1. c \in Others(p) /\ Stops(c) /\ pc[c] # "begin"
      BY <1>4, <2>2 DEF Others, Alike, Stops
    <3>2. pc[c] # "idle"
      BY <3>1, IdleOps DEF Others
    <3> QED
      BY <1>2, <3>1, <3>2
  <2> QED
    BY <2>1, <2>2
<1>5. ~running' => \E c \in Callers : pc'[c] = "yield"
  OBVIOUS
<1>6. ASSUME NEW c \in Callers \ Hosts, Starts(c)'
      PROVE  \/ Kept(c)'
             \/ startTask' = c /\ \A d \in Others(c) : pc'[d] = "idle"
  <2>1. c = p
    BY <1>3, <1>6 DEF Others
  <2>2. CASE Kept(p)
    <3>1. PICK d \in Callers :
             Stops(d) /\ target[d] = p /\ pc[d] \in {"begin", "pending"}
      BY <2>2 DEF Kept
    <3>2. d \in Others(p)
      BY <3>1 DEF Others, Stops
    <3> QED
      BY <2>1, <3>1, <3>2 DEF Kept, Alike, Stops
  <2>3. CASE startTask = p /\ \A d \in Others(p) : pc[d] = "idle"
    BY <2>1, <2>3 DEF Alike
  <2> QED
    BY <1>1, <1>6, <2>1, <2>2, <2>3 DEF AskedOK
<1> QED
  BY <1>4, <1>5, <1>6 DEF AskedOK, Hosts

\* A start ends.
LEMMA AskedResume ==
    ASSUME LifecycleAssumption, TypeOK, Front, AskedOK, NEW p \in Callers,
           pc[p] = "yield", Alike(p), running' = TRUE, UNCHANGED <<asked, startTask>>,
           \/ pc'[p] = "idle" /\ op'[p] = None
           \/ p \in Hosts /\ pc'[p] = "begin"
    PROVE  AskedOK'
<1>1. Starts(p) /\ ~Stops(p)
  <2>1. CallOK(p)
    BY DEF Front, CallsOK
  <2>2. op[p] # None /\ ~Stops(p)
    BY <2>1 DEF CallOK, Stops
  <2> QED
    BY <2>2, Disjoint DEF TypeOK, Calls, Starts, Stops
<1>2. \A c \in Others(p) : c \in Callers /\ (pc[c] = "idle" \/ Stops(c))
  BY <1>1 DEF Front, TurnsOK, Others
<1>3. \A c \in Others(p) : ~Starts(c)'
  <2> SUFFICES ASSUME NEW c \in Others(p), Starts(c) PROVE FALSE
    BY DEF Alike, Starts
  <2>1. ~Stops(c) /\ pc[c] # "idle"
    BY <1>2, IdleOps DEF Starts, Stops
  <2> QED
    BY <1>2, <2>1
<1>4. \A c \in Callers : Starts(c)' => c \in Hosts /\ pc'[c] = "begin"
  BY <1>3, Disjoint DEF Others, Starts, Calls
<1>5. \A c \in Callers : Stops(c)' /\ pc'[c] # "begin" => asked' = "down"
  BY <1>1, Disjoint DEF AskedOK, Alike, Others, Stops, Calls
<1>6. asked' = "down" => \E c \in Callers : Stops(c)'
  <2> SUFFICES ASSUME asked = "down" PROVE \E c \in Callers : Stops(c)'
    OBVIOUS
  <2>1. p \notin Hosts
    BY <1>1 DEF AskedOK
  <2>2. Kept(p)
    BY <1>1, <2>1 DEF AskedOK
  <2>3. PICK d \in Callers : Stops(d)
    BY <2>2 DEF Kept
  <2>4. d \in Others(p)
    BY <1>1, <2>3 DEF Others
  <2> QED
    BY <2>3, <2>4 DEF Alike, Stops
<1> QED
  BY <1>4, <1>5, <1>6 DEF AskedOK, Hosts

NoSlots    == \A k \in Components : slot[k] = None
Halting(c) == pc[c] \in {"health", "run"}
NoYield    == \A c \in Callers : pc[c] # "yield"

\* One connection loop, that of the current context, while the gateway runs.
LinkOK ==
    /\ running = nc[context].started
    /\ OneConnection
    /\ ~running /\ NoYield => Live = {}

\* One health loop: it sleeps while the gateway runs and nobody stops it.
WatchOK ==
    /\ \A l \in Loops : pc[l] # "done" => l = healthTask
    /\ ~running => healthTask = None
    /\ running /\ (\A c \in Callers : ~Halting(c)) =>
          /\ healthTask # None /\ pc[healthTask] = "sleep"
          /\ Entry(healthTask, "cancel") \notin InQueue(ready)

BindOK == BoundOnce /\ BoundToCurrent /\ (~running => NoSlots)

\* What the calls suspended inside the gateway know of it.
AwaitOK(c) ==
    /\ pc[c] = "yield" => ~running /\ ncOf[c] = context
    /\ pc[c] = "health" => healthTask \in {None, target[c]}
    /\ pc[c] = "run" => /\ ncOf[c] = context /\ NoSlots /\ healthTask = None
                        /\ running => target[c] = nc[context].runTask

GatewayOK == LinkOK /\ WatchOK /\ BindOK /\ \A c \in Callers : AwaitOK(c)

LEMMA AllDone ==
    ASSUME LifecycleAssumption, GatewayOK, healthTask = None \/ pc[healthTask] = "done"
    PROVE  \A l \in Loops : pc[l] = "done"
BY Disjoint DEF GatewayOK, WatchOK

\* A step that does not touch the gateway.
LEMMA GatewayKept ==
    ASSUME LifecycleAssumption, TypeOK, GatewayOK,
           UNCHANGED <<running, healthTask, context, bound>>,
           \A x \in Contexts : /\ nc'[x].started = nc[x].started
                               /\ nc'[x].runTask = nc[x].runTask,
           \A l \in Loops : pc'[l] = pc[l],
           \A r \in Runs : /\ pc'[r] # "done" => pc[r] # "done"
                           /\ ncOf'[r] = ncOf[r],
           \A c \in Callers :
              \/ pc[c] \notin {"yield", "health", "run"}
                 /\ pc'[c] \notin {"yield", "health", "run"}
              \/ pc'[c] = pc[c] /\ target'[c] = target[c] /\ ncOf'[c] = ncOf[c],
           NoNewCancel(ready)
    PROVE  GatewayOK'
<1>1. context \in Contexts /\ context' = context
  BY DEF TypeOK
<1>2. LinkOK'
  BY <1>1 DEF GatewayOK, LinkOK, OneConnection, Live, NoYield
<1>3. WatchOK'
  <2>1. (\A c \in Callers : ~Halting(c)') => \A c \in Callers : ~Halting(c)
    BY DEF Halting
  <2>2. healthTask # None => healthTask \in Loops
    BY DEF TypeOK
  <2>3. Entry(healthTask, "cancel") \in InQueue(ready') =>
           Entry(healthTask, "cancel") \in InQueue(ready)
    BY DEF NoNewCancel, Entry
  <2> QED
    BY <2>1, <2>2, <2>3 DEF GatewayOK, WatchOK
<1>4. BindOK'
  BY DEF GatewayOK, BindOK, BoundOnce, BoundToCurrent, NoSlots, bound
<1>5. ASSUME NEW c \in Callers PROVE AwaitOK(c)'
  <2>1. NoSlots' <=> NoSlots
    BY DEF NoSlots, bound
  <2> QED
    BY <1>1, <2>1 DEF GatewayOK, AwaitOK
<1> QED
  BY <1>2, <1>3, <1>4, <1>5 DEF GatewayOK

\* The gateway is down and nothing of it is left.
LEMMA GatewayDown ==
    ASSUME LifecycleAssumption, TypeOK', running' = FALSE, healthTask' = None, NoSlots',
           \A k \in Components, x \in Contexts : reg'[k][x] = 0,
           \A l \in Loops : pc'[l] = "done", \A r \in Runs : pc'[r] = "done",
           nc'[context'].started = FALSE,
           \A c \in Callers :
              pc'[c] # "yield" /\ (pc'[c] = "run" => ncOf'[c] = context')
    PROVE  GatewayOK'
<1>1. LinkOK'
  BY DEF LinkOK, OneConnection, Live
<1>2. WatchOK'
  BY DEF WatchOK
<1>3. BindOK'
  <2>1. \A k \in Components : slot'[k] = None
    BY DEF NoSlots
  <2>2. \A x \in Contexts : x # None
    BY DEF LifecycleAssumption
  <2> QED
    BY <2>1, <2>2 DEF BindOK, BoundOnce, BoundToCurrent, NoSlots
<1>4. \A c \in Callers : AwaitOK(c)'
  BY DEF AwaitOK
<1> QED
  BY <1>1, <1>2, <1>3, <1>4 DEF GatewayOK

\* A caller starts the only connection loop there is.
LEMMA GatewayLaunched ==
    ASSUME LifecycleAssumption, TypeOK, TypeOK', NEW p \in Callers, NEW r \in Runs,
           running' = FALSE, healthTask' = None, NoSlots',
           \A k \in Components, x \in Contexts : reg'[k][x] = 0,
           \A l \in Loops : pc'[l] = "done",
           \A u \in Runs \ {r} : pc'[u] = "done",
           ncOf'[r] = context', ncOf'[p] = context',
           nc'[context'].runTask = r, nc'[context'].started = FALSE,
           pc'[p] = "yield",
           \A c \in Others(p) : pc'[c] \notin {"yield", "health", "run"}
    PROVE  GatewayOK'
<1>1. LinkOK'
  <2>1. ~NoYield'
    BY DEF NoYield
  <2>2. OneConnection'
    BY DEF OneConnection, Live
  <2> QED
    BY <2>1, <2>2 DEF LinkOK
<1>2. WatchOK'
  BY DEF WatchOK
<1>3. BindOK'
  <2>1. \A k \in Components : slot'[k] = None
    BY DEF NoSlots
  <2>2. \A x \in Contexts : x # None
    BY DEF LifecycleAssumption
  <2> QED
    BY <2>1, <2>2 DEF BindOK, BoundOnce, BoundToCurrent, NoSlots
<1>4. \A c \in Callers : AwaitOK(c)'
  BY DEF AwaitOK, Others
<1> QED
  BY <1>1, <1>2, <1>3, <1>4 DEF GatewayOK

\* The gateway comes up: sleep(0) is over.
LEMMA GatewayUp ==
    ASSUME LifecycleAssumption, TypeOK, TypeOK', Front, GatewayOK, NEW p \in Callers,
           pc[p] = "yield", pc'[p] \notin {"yield", "health", "run"},
           \A c \in Others(p) :
              pc[c] \notin {"yield", "health", "run"} /\ pc'[c] = pc[c],
           NEW l \in Loops, healthTask' = l, pc'[l] = "sleep",
           \A m \in Loops \ {l} : pc'[m] = pc[m],
           Entry(l, "cancel") \notin InQueue(ready'),
           \A r \in Runs : pc'[r] = pc[r] /\ ncOf'[r] = ncOf[r],
           nc' = [nc EXCEPT ![ncOf[p]].started = TRUE],
           running' = TRUE, UNCHANGED context,
           NEW started \in SUBSET Components,
           slot' = [k \in Components |-> IF k \in started THEN context ELSE slot[k]],
           reg' = [k \in Components |-> [x \in Contexts |->
                     IF k \in started /\ x = context THEN reg[k][x] + 1 ELSE reg[k][x]]]
    PROVE  GatewayOK'
<1>1. /\ context \in Contexts /\ context # None /\ ncOf[p] = context /\ ~running
      /\ nc \in [Contexts -> NodeTypes]
      /\ healthTask = None /\ l # None /\ l \in Tasks
      /\ \A k \in Components : slot[k] = None
  BY Disjoint DEF TypeOK, LifecycleAssumption, GatewayOK, AwaitOK, WatchOK, BindOK, NoSlots
<1>2. nc'[context].started = TRUE /\ nc'[context].runTask = nc[context].runTask
  BY <1>1 DEF NodeTypes
<1>3. LinkOK'
  BY <1>2 DEF GatewayOK, LinkOK, OneConnection, Live
<1>4. WatchOK'
  BY <1>1, Disjoint DEF GatewayOK, WatchOK
<1>5. BindOK'
  <2>1. \A k \in Components, x \in Contexts : reg[k][x] = 0
    BY <1>1 DEF GatewayOK, BindOK, BoundOnce, LifecycleAssumption
  <2>2. \A k \in Components :
           slot'[k] = IF k \in started THEN context ELSE None
    BY <1>1
  <2>3. \A k \in Components, x \in Contexts :
           reg'[k][x] = IF k \in started /\ x = context THEN 1 ELSE 0
    BY <2>1
  <2>4. BoundOnce'
    BY <1>1, <2>2, <2>3 DEF BoundOnce, LifecycleAssumption
  <2>5. BoundToCurrent'
    BY <2>2 DEF BoundToCurrent
  <2> QED
    BY <2>4, <2>5 DEF BindOK
<1>6. \A c \in Callers : AwaitOK(c)'
  BY DEF AwaitOK, Others
<1> QED
  BY <1>3, <1>4, <1>5, <1>6 DEF GatewayOK

\* A stop cancels the health task and awaits it.
LEMMA GatewayHalts ==
    ASSUME LifecycleAssumption, TypeOK, Front, GatewayOK, NEW p \in Callers,
           running, healthTask # None, pc'[p] = "health", target'[p] = healthTask,
           UNCHANGED <<running, healthTask, context, bound, nc, ncOf>>,
           \A t \in Tasks \ {p} : pc'[t] = pc[t],
           \A c \in Others(p) : target'[c] = target[c]
    PROVE  GatewayOK'
<1>1. /\ \A c \in Others(p) : pc'[c] = pc[c]
      /\ \A l \in Loops : pc'[l] = pc[l]
      /\ \A r \in Runs : pc'[r] = pc[r]
  BY Disjoint DEF Others
<1>2. LinkOK'
  BY <1>1 DEF GatewayOK, LinkOK, OneConnection, Live
<1>3. WatchOK'
  BY <1>1 DEF GatewayOK, WatchOK, Halting
<1>4. BindOK'
  BY DEF GatewayOK, BindOK, BoundOnce, BoundToCurrent, NoSlots, bound
<1>5. ASSUME NEW c \in Callers PROVE AwaitOK(c)'
  <2>1. NoSlots' <=> NoSlots
    BY DEF NoSlots, bound
  <2>2. CASE c = p
    BY <2>2 DEF AwaitOK
  <2>3. CASE c # p
    BY <1>1, <2>1, <2>3 DEF GatewayOK, AwaitOK, Others
  <2> QED
    BY <2>2, <2>3
<1> QED
  BY <1>2, <1>3, <1>4, <1>5 DEF GatewayOK

\* A stop cancels the connection loop and awaits it.
LEMMA GatewayLeaves ==
    ASSUME LifecycleAssumption, TypeOK, Front, GatewayOK, NEW p \in Callers,
           \A c \in Callers : pc[c] # "yield",
           \A l \in Loops : pc'[l] = "done",
           pc'[p] = "run", target'[p] = nc[context].runTask, ncOf'[p] = context,
           \A t \in Tasks \ {p} : pc'[t] = pc[t] /\ ncOf'[t] = ncOf[t],
           \A c \in Others(p) : target'[c] = target[c],
           nc' = Flagged(context), UNCHANGED <<running, context>>,
           healthTask' = None, NoSlots',
           \A k \in Components, x \in Contexts : reg'[k][x] = 0
    PROVE  GatewayOK'
<1>1. /\ \A c \in Others(p) : c \in Callers /\ pc'[c] = pc[c] /\ ncOf'[c] = ncOf[c]
      /\ \A r \in Runs : pc'[r] = pc[r] /\ ncOf'[r] = ncOf[r]
  BY Disjoint DEF Others
<1>2. /\ nc'[context].started = nc[context].started
      /\ nc'[context].runTask = nc[context].runTask
  BY DEF Flagged, TypeOK, NodeTypes
<1>3. LinkOK'
  <2>1. NoYield
    BY DEF NoYield
  <2> QED
    BY <1>1, <1>2, <2>1 DEF GatewayOK, LinkOK, OneConnection, Live
<1>4. WatchOK'
  BY DEF WatchOK, Halting
<1>5. BindOK'
  <2>1. \A k \in Components : slot'[k] = None
    BY DEF NoSlots
  <2>2. \A x \in Contexts : x # None
    BY DEF LifecycleAssumption
  <2> QED
    BY <2>1, <2>2 DEF BindOK, BoundOnce, BoundToCurrent, NoSlots
<1>6. ASSUME NEW c \in Callers PROVE AwaitOK(c)'
  <2>1. CASE c = p
    BY <1>2, <2>1 DEF AwaitOK
  <2>2. CASE c # p
    <3>1. c \in Others(p)
      BY <2>2 DEF Others
    <3> QED
      BY <1>1, <1>2, <3>1 DEF GatewayOK, AwaitOK
  <2> QED
    BY <2>1, <2>2
<1> QED
  BY <1>3, <1>4, <1>5, <1>6 DEF GatewayOK

\* A health loop ends.
LEMMA GatewayLoopEnds ==
    ASSUME LifecycleAssumption, TypeOK, GatewayOK, NEW l \in Loops,
           pc[l] # "done", Entry(l, "cancel") \in InQueue(ready),
           pc' = [pc EXCEPT ![l] = "done"],
           UNCHANGED <<gateway, bound, nc, target, ncOf>>
    PROVE  GatewayOK'
<1>1. /\ \A c \in Callers : pc'[c] = pc[c]
      /\ \A r \in Runs : pc'[r] = pc[r]
      /\ \A m \in Loops : pc'[m] # "done" => pc[m] # "done"
  BY Disjoint DEF TypeOK
<1>2. l = healthTask
  BY DEF GatewayOK, WatchOK
<1>3. running => ~ \A c \in Callers : ~Halting(c)
  BY <1>2 DEF GatewayOK, WatchOK
<1>4. LinkOK'
  BY <1>1 DEF GatewayOK, LinkOK, OneConnection, Live, NoYield, gateway
<1>5. WatchOK'
  BY <1>1, <1>3 DEF GatewayOK, WatchOK, Halting, gateway
<1>6. BindOK'
  BY DEF GatewayOK, BindOK, BoundOnce, BoundToCurrent, NoSlots, bound, gateway
<1>7. ASSUME NEW c \in Callers PROVE AwaitOK(c)'
  <2>1. NoSlots' <=> NoSlots
    BY DEF NoSlots, bound
  <2> QED
    BY <1>1, <2>1 DEF GatewayOK, AwaitOK, gateway
<1> QED
  BY <1>4, <1>5, <1>6, <1>7 DEF GatewayOK

-----------------------------------------------------------------------------
(* The pieces of code that move the gateway.                               *)

\* A task that runs gateway code is a caller: the health loops only sleep.
LEMMA OnlyCallers ==
    ASSUME LifecycleAssumption, Front, NEW p \in Procs, GatewayStep(p)
    PROVE  p \in Callers
<1>1. pc[p] \in {"begin", "pending", "yield", "health", "run"}
  BY DEF GatewayStep, AwaitStart, BeginStart, BeginStop, ResumeStart,
         ResumeStopAfterHealth, ResumeStopAfterRun
<1>2. p \notin Loops
  BY <1>1 DEF Front, KindsOK
<1> QED
  BY <1>2 DEF Procs

\* Nothing is bound once the components have stopped.
LEMMA Unbound ==
    ASSUME LifecycleAssumption, TypeOK, BindOK
    PROVE  /\ NoSlots => \A k \in Components, x \in Contexts : reg[k][x] = 0
           /\ StopComponents =>
                 NoSlots' /\ \A k \in Components, x \in Contexts : reg'[k][x] = 0
<1>1. \A x \in Contexts : x # None
  BY DEF LifecycleAssumption
<1>2. NoSlots => \A k \in Components, x \in Contexts : reg[k][x] = 0
  BY <1>1 DEF BindOK, BoundOnce, NoSlots
<1>3. ASSUME StopComponents
      PROVE  NoSlots' /\ \A k \in Components, x \in Contexts : reg'[k][x] = 0
  <2>1. NoSlots'
    BY <1>3 DEF StopComponents, NoSlots
  <2>2. ASSUME NEW k \in Components, NEW x \in Contexts PROVE reg'[k][x] = 0
    <3>1. reg'[k][x] = IF slot[k] = x THEN reg[k][x] - 1 ELSE reg[k][x]
      BY <1>3 DEF StopComponents
    <3>2. reg[k][x] = IF slot[k] = x THEN 1 ELSE 0
      BY DEF BindOK, BoundOnce
    <3> QED
      BY <3>1, <3>2
  <2> QED
    BY <2>1, <2>2
<1> QED
  BY <1>2, <1>3

\* A task with nothing in the queue is done, and the other way round.
LEMMA DoneNotQueued ==
    ASSUME LifecycleAssumption, TypeOK, Front, NEW p \in Callers, NEW result,
           Resumes(p, result), NEW t \in Tasks, pc[t] = "done"
    PROVE  ~Queued(Rest, t)
<1>1. InQueue(Rest) = InQueue(ready) \ {Entry(p, result)}
  BY CallerResumes
<1>2. \A e \in InQueue(Rest) : e.task # t
  BY <1>1 DEF Front, QueueOK, Legitimate
<1> QED
  BY <1>2, QueuedIn

\* NodeContext.start() on a gateway of which nothing is left.
LEMMA LaunchStep ==
    ASSUME LifecycleAssumption, TypeOK, TypeOK', Front, NEW p \in Callers, NEW result,
           Resumes(p, result), Starts(p), UNCHANGED startTask,
           NEW x \in Contexts, NEW ncs \in [Contexts -> NodeTypes],
           ncs[x].started = FALSE, LaunchNode(p, op[p], x, ncs), context' = x,
           running' = FALSE, healthTask' = None, NoSlots',
           \A k \in Components, y \in Contexts : reg'[k][y] = 0,
           \A l \in Loops : pc[l] = "done", Live = {}
    PROVE  Front' /\ GatewayOK' /\ Alike(p) /\ pc'[p] = "yield" /\ op' = op
<1> DEFINE r == CHOOSE y \in FreeRuns : TRUE
<1>1. r \in Runs /\ pc[r] = "done" /\ \A q \in Procs : target[q] # r
  BY DEF LaunchNode, FreeRuns
<1>2. /\ nc' = [ncs EXCEPT ![x].stopped = FALSE, ![x].runTask = r]
      /\ pc' = [pc EXCEPT ![p] = "yield", ![r] = "new"]
      /\ ncOf' = [ncOf EXCEPT ![p] = x, ![r] = x]
      /\ op' = [op EXCEPT ![p] = op[p]]
      /\ target' = [target EXCEPT ![p] = None]
      /\ ready' = Rest \o <<Entry(r, "go"), Entry(p, "go")>>
  BY DEF LaunchNode
<1> HIDE DEF r
<1>3. /\ p \in Procs /\ p \in Tasks /\ r \in Tasks /\ r # p /\ r \notin Callers
      /\ p \notin Loops /\ p \notin Runs
      /\ \A c \in Callers : c \in Procs /\ c \in Tasks /\ c # r
      /\ \A l \in Loops : l \in Tasks /\ l # r
      /\ \A u \in Runs : u \in Tasks /\ u # p
  BY <1>1, Disjoint
<1>4. /\ op' = op /\ pc'[p] = "yield" /\ pc'[r] = "new"
      /\ \A t \in Tasks \ {p, r} : pc'[t] = pc[t]
      /\ \A c \in Others(p) : target'[c] = target[c] /\ pc'[c] = pc[c]
      /\ ncOf'[r] = x /\ ncOf'[p] = x
  BY <1>2, <1>3 DEF TypeOK, Others
<1>5. Alike(p)
  BY <1>4 DEF Alike
<1>6. /\ Rest \in Seq(Entries) /\ Single(Rest) /\ ~Queued(Rest, p)
  BY CallerResumes
<1>7. ~Queued(Rest, r)
  BY <1>1, <1>3, DoneNotQueued
<1> DEFINE a == Entry(r, "go")
           b == Entry(p, "go")
           q == Append(Rest, a)
<1>8. a \in Entries /\ b \in Entries /\ a.task = r /\ b.task = p /\ a.result = "go"
      /\ b.result = "go"
  BY <1>3, GoEntry DEF Entry
<1>9. ready' = Append(q, b)
  BY <1>2, <1>6, <1>8
<1> HIDE DEF a, b
<1>10. /\ q \in Seq(Entries) /\ Single(q) /\ InQueue(q) = InQueue(Rest) \cup {a}
       /\ \A c : Leads(Rest, c) => Leads(q, c)
  BY <1>6, <1>7, <1>8, AppendQueue
<1> HIDE DEF q
<1>11. ~Queued(q, p)
  BY <1>3, <1>6, <1>8, <1>10, QueuedIn
<1>12. /\ Single(ready') /\ InQueue(ready') = InQueue(Rest) \cup {a, b}
       /\ \A c : Leads(Rest, c) => Leads(ready', c)
  BY <1>8, <1>9, <1>10, <1>11, AppendQueue
<1>13. Moves(p)
  BY <1>1, <1>3, <1>4 DEF Moves
<1>14. Requeues
  <2>1. \A c \in Callers : Queued(Rest, c) => Queued(ready', c)
    BY <1>12, QueuedIn
  <2>2. \A e \in {a, b} : e.result # "tick"
           /\ pc'[e.task] \notin {"idle", "done", "pending", "health", "run"}
    BY <1>4, <1>8
  <2> QED
    BY <1>12, <2>1, <2>2 DEF Requeues
<1>15. /\ Starts(p)' /\ ~Stops(p)'
       /\ \A c \in Others(p) : pc[c] = "idle" \/ (Stops(c) /\ pc[c] \in {"begin", "pending"})
  BY <1>4 DEF Starts, Stops, Front, TurnsOK
<1>16. CallOK(p)'
  <2>1. CallOK(p) /\ pc[p] # "idle"
    BY CallerResumes DEF Front, CallsOK
  <2> QED
    BY <1>4, <1>15, <2>1 DEF CallOK, Starts, Stops
<1>17. \A c \in Others(p) : ~Starts(c)
  <2> SUFFICES ASSUME NEW c \in Others(p), Starts(c) PROVE FALSE
    OBVIOUS
  <2>1. pc[c] # "idle"
    BY IdleOps DEF Others
  <2> QED
    BY <1>15, <2>1 DEF Starts, Stops
<1>18. Front'
  BY <1>4, <1>13, <1>14, <1>16, <1>17, MoveFront
<1>19. nc'[x].runTask = r /\ nc'[x].started = FALSE
  BY <1>2 DEF NodeTypes
<1>20. GatewayOK'
  <2>1. \A l \in Loops : pc'[l] = "done"
    BY <1>3, <1>4
  <2>2. \A u \in Runs \ {r} : pc'[u] = "done"
    BY <1>3, <1>4 DEF Live
  <2>3. \A c \in Others(p) : pc'[c] \notin {"yield", "health", "run"}
    BY <1>4, <1>15
  <2> QED
    BY <1>1, <1>4, <1>19, <2>1, <2>2, <2>3, GatewayLaunched
<1> QED
  BY <1>4, <1>5, <1>18, <1>20

\* How a stop or restart p leaves the gateway: down, or restarting.
Finished(p) ==
    /\ running' = FALSE
    /\ \/ op[p] = "stop" /\ Ends(p, pc)
       \/ op[p] = "restart" /\ pc'[p] = "yield" /\ op' = op

\* The end of stop() and restart() of a gateway of which nothing is left.
LEMMA FinishStopStep ==
    ASSUME LifecycleAssumption, TypeOK, TypeOK', Front, NEW p \in Callers, NEW result,
           Resumes(p, result), UNCHANGED startTask,
           NEW ncs \in [Contexts -> NodeTypes], ncs[context].started = FALSE,
           FinishStop(p, op[p], ncs), healthTask' = None, NoSlots',
           \A k \in Components, y \in Contexts : reg'[k][y] = 0,
           \A l \in Loops : pc[l] = "done", Live = {}, NoYield,
           \A c \in Callers : pc[c] = "run" => ncOf[c] = context
    PROVE  Front' /\ GatewayOK' /\ Alike(p) /\ Finished(p)
<1>1. context \in Contexts /\ running' = FALSE
  BY DEF TypeOK, FinishStop
<1>2. CASE op[p] = "stop" /\ Return(p, pc, Rest) /\ nc' = ncs /\ UNCHANGED context
  <2>1. Ends(p, pc) /\ Returns(p, pc, Rest)
    BY <1>2, ReturnEnds DEF TypeOK
  <2>2. Rest \in Seq(Entries) /\ Single(Rest)
    BY CallerResumes
  <2>3. Front'
    BY <1>2, <2>1, <2>2, ReturnFront DEF TypeOK
  <2>4. /\ \A c \in Others(p) : pc'[c] = pc[c] /\ ncOf'[c] = ncOf[c] /\ c \in Callers
        /\ \A t \in Loops \cup Runs : pc'[t] = pc[t]
    BY <2>1, Disjoint DEF Ends, Others
  <2>5. Alike(p)
    BY <2>1, <2>4 DEF Ends, Alike
  <2>6. \A c \in Callers :
           pc'[c] # "yield" /\ (pc'[c] = "run" => ncOf'[c] = context')
    BY <1>2, <2>1, <2>4 DEF Ends, Others, NoYield
  <2>7. GatewayOK'
    BY <1>1, <1>2, <2>4, <2>6, GatewayDown DEF Live
  <2> QED
    BY <1>1, <1>2, <2>1, <2>3, <2>5, <2>7 DEF Finished
<1>3. CASE /\ op[p] = "restart"
           /\ FreeContexts # {}
           /\ LET x == CHOOSE y \in FreeContexts : TRUE
              IN  /\ context' = x
                  /\ LaunchNode(p, op[p], x, [ncs EXCEPT ![x] = NewContext])
  <2> DEFINE x == CHOOSE y \in FreeContexts : TRUE
             ncx == [ncs EXCEPT ![x] = NewContext]
  <2>1. x \in Contexts
    BY <1>3 DEF FreeContexts
  <2>2. context' = x /\ LaunchNode(p, op[p], x, ncx)
    BY <1>3
  <2> HIDE DEF x
  <2>3. ncx \in [Contexts -> NodeTypes]
    BY DEF NewContext, NodeTypes
  <2>4. ncx[x].started = FALSE
    BY <2>1 DEF NewContext
  <2> HIDE DEF ncx
  <2>5. Starts(p)
    BY <1>3 DEF Starts
  <2> QED
    BY <1>1, <1>3, <2>1, <2>2, <2>3, <2>4, <2>5, LaunchStep DEF Finished
<1> QED
  BY <1>2, <1>3 DEF FinishStop

\* A caller that cancels a task.
LEMMA CancelRequeues ==
    ASSUME LifecycleAssumption, TypeOK, Front, NEW p \in Callers, NEW result,
           Resumes(p, result), NEW t \in Loops \cup Runs, ready' = Cancel(Rest, t),
           pc'[t] \notin {"idle", "done", "pending", "health", "run"}
    PROVE  Requeues
<1>1. t \in Tasks /\ t \notin Callers
  BY Disjoint
<1>2. Rest \in Seq(Entries) /\ Single(Rest)
  BY CallerResumes
<1> DEFINE x == Entry(t, "cancel")
<1>3. x.task = t /\ x.result = "cancel"
  BY DEF Entry
<1>4. /\ Single(ready')
      /\ InQueue(ready') = {e \in InQueue(Rest) : e.task # t} \cup {x}
      /\ \A c : Leads(Rest, c) => Leads(ready', c)
  BY <1>1, <1>2, CancelQueue
<1> HIDE DEF x
<1>5. ASSUME NEW c \in Callers, Queued(Rest, c) PROVE Queued(ready', c)
  <2>1. PICK e \in InQueue(Rest) : e.task = c
    BY <1>5, QueuedIn
  <2>2. e \in InQueue(ready')
    BY <1>1, <1>4, <2>1
  <2> QED
    BY <2>1, <2>2, QueuedIn
<1> QED
  BY <1>3, <1>4, <1>5 DEF Requeues

\* stop() once the health task is out of the way.
LEMMA StopNodeStep ==
    ASSUME LifecycleAssumption, TypeOK, TypeOK', Front, GatewayOK, NEW p \in Callers,
           NEW result, Resumes(p, result), UNCHANGED startTask,
           op[p] \in {"stop", "restart"}, StopNode(p, op[p]),
           healthTask = None \/ pc[healthTask] = "done", NoYield,
           \A c \in Others(p) : ~Starts(c)
    PROVE  /\ Front' /\ GatewayOK' /\ Alike(p)
           /\ \/ Finished(p)
              \/ pc'[p] = "run" /\ op' = op /\ UNCHANGED running
<1>1. \A l \in Loops : pc[l] = "done"
  BY AllDone
<1>2. /\ healthTask' = None /\ NoSlots'
      /\ \A k \in Components, x \in Contexts : reg'[k][x] = 0
  BY Unbound DEF StopNode, ForgetHealthTask, GatewayOK
<1>3. /\ context \in Contexts /\ nc \in [Contexts -> NodeTypes]
      /\ running = nc[context].started /\ OneConnection
      /\ \A c \in Callers : pc[c] = "run" => ncOf[c] = context
  BY DEF TypeOK, GatewayOK, LinkOK, AwaitOK
<1>4. CASE ~nc[context].started /\ FinishStop(p, op[p], nc)
  <2>1. Live = {} /\ nc[context].started = FALSE
    BY <1>3, <1>4 DEF GatewayOK, LinkOK, TypeOK
  <2> QED
    BY <1>1, <1>2, <1>3, <1>4, <2>1, FinishStopStep
<1>5. CASE /\ nc[context].started /\ ~RunToCancel(context)
           /\ FinishStop(p, op[p], Down(context, Flagged(context)))
  <2> DEFINE ncs == Down(context, Flagged(context))
  <2>1. Live = {}
    <3> SUFFICES ASSUME NEW r \in Live PROVE FALSE
      OBVIOUS
    <3>1. r \in Runs /\ pc[r] # "done" /\ nc[context].runTask = r /\ r # None
      BY <1>3, Disjoint DEF OneConnection, Live
    <3> QED
      BY <1>5, <3>1 DEF RunToCancel
  <2>2. Flagged(context) \in [Contexts -> NodeTypes]
    BY <1>3, FlaggedType
  <2>3. ncs \in [Contexts -> NodeTypes]
    BY <2>2, DownType
  <2>4. ncs[context].started = FALSE
    BY <1>3, <2>2 DEF Down, NodeTypes
  <2> HIDE DEF ncs
  <2>5. FinishStop(p, op[p], ncs)
    BY <1>5 DEF ncs
  <2> QED
    BY <1>1, <1>2, <1>3, <2>1, <2>3, <2>4, <2>5, FinishStopStep
<1>6. CASE /\ RunToCancel(context)
           /\ nc' = Flagged(context)
           /\ pc' = [pc EXCEPT ![p] = "run"]
           /\ op' = [op EXCEPT ![p] = op[p]]
           /\ target' = [target EXCEPT ![p] = nc[context].runTask]
           /\ ncOf' = [ncOf EXCEPT ![p] = context]
           /\ ready' = Cancel(Rest, nc[context].runTask)
           /\ UNCHANGED <<running, context>>
  <2> DEFINE r == nc[context].runTask
  <2>1. r \in Runs /\ pc[r] # "done"
    BY <1>3, <1>6 DEF RunToCancel, NodeTypes
  <2>2. /\ p \in Procs /\ p \in Tasks /\ r \in Tasks /\ r # p /\ r \notin Callers
        /\ \A l \in Loops : l \in Tasks /\ l # p
        /\ \A c \in Callers : c \in Procs /\ c \in Tasks
    BY <2>1, Disjoint
  <2>3. /\ op' = op /\ pc'[p] = "run" /\ target'[p] = r /\ ncOf'[p] = context
        /\ \A t \in Tasks \ {p} : pc'[t] = pc[t] /\ ncOf'[t] = ncOf[t]
        /\ \A c \in Others(p) : target'[c] = target[c] /\ pc'[c] = pc[c]
    BY <1>6, <2>2 DEF TypeOK, Others
  <2>4. /\ Rest \in Seq(Entries) /\ Single(Rest) /\ pc[p] # "idle"
    BY CallerResumes
  <2>5. ready' = Cancel(Rest, r)
    BY <1>6
  <2> HIDE DEF r
  <2>6. Moves(p)
    BY <2>3 DEF Moves
  <2>7. Requeues
    <3>1. pc'[r] \in RunPCs \ {"done"}
      BY <2>1, <2>2, <2>3 DEF Front, KindsOK
    <3>2. pc'[r] \notin {"idle", "done", "pending", "health", "run"}
      BY <3>1 DEF RunPCs
    <3> QED
      BY <2>1, <2>5, <3>2, CancelRequeues
  <2>8. CallOK(p)'
    <3>1. CallOK(p)
      BY DEF Front, CallsOK
    <3> QED
      BY <2>1, <2>3, <2>4, <3>1 DEF CallOK, Starts, Stops
  <2>9. Front'
    BY <2>3, <2>6, <2>7, <2>8, MoveFront
  <2>10. GatewayOK'
    <3>1. \A l \in Loops : pc'[l] = "done"
      BY <1>1, <2>2, <2>3
    <3> QED
      BY <1>2, <1>6, <2>3, <3>1, GatewayLeaves DEF NoYield, r
  <2> QED
    BY <1>6, <2>3, <2>9, <2>10 DEF Alike
<1> QED
  BY <1>4, <1>5, <1>6 DEF StopNode

-----------------------------------------------------------------------------
(* One step per action of the callers.                                     *)

SeqInv == Front /\ GatewayOK /\ AskedOK

\* Whoever stops a gateway that runs, or has begun to stop it, does so with no
\* start in progress.
LEMMA NoStarter ==
    ASSUME LifecycleAssumption, TypeOK, Front, GatewayOK, NEW p \in Callers, NEW result,
           Resumes(p, result), running \/ Halting(p)
    PROVE  NoYield /\ \A c \in Others(p) : ~Starts(c)
<1>1. pc[p] # "idle" /\ \A c \in Others(p) : ~(pc[c] = "begin" /\ Starts(c))
  BY CallerResumes
<1>2. \A c \in Callers : pc[c] = "yield" => Starts(c) /\ ~running
  <2> SUFFICES ASSUME NEW c \in Callers, pc[c] = "yield" PROVE Starts(c) /\ ~running
    OBVIOUS
  <2>1. CallOK(c) /\ AwaitOK(c)
    BY DEF Front, CallsOK, GatewayOK
  <2>2. op[c] \in {"start", "restart"}
    BY <2>1, Disjoint DEF CallOK, Stops, TypeOK, Calls
  <2> QED
    BY <2>1, <2>2 DEF Starts, AwaitOK
<1>3. ASSUME NEW c \in Others(p), Starts(c) PROVE FALSE
  <2>1. c \in Callers /\ p \in Others(c)
    BY DEF Others
  <2>2. pc[p] \in {"begin", "pending"}
    BY <1>1, <1>3, <2>1 DEF Front, TurnsOK
  <2>3. running
    BY <2>2 DEF Halting
  <2>4. pc[c] \notin {"begin", "yield"} /\ CallOK(c)
    BY <1>1, <1>2, <1>3, <2>1, <2>3 DEF Front, CallsOK
  <2>5. c \in Hosts /\ pc[c] # "idle"
    BY <1>3, <2>1, <2>4, IdleOps DEF CallOK, Starts
  <2> QED
    BY <1>1, <2>1, <2>5 DEF Front, TurnsOK
<1>4. NoYield
  <2> SUFFICES ASSUME NEW c \in Callers, pc[c] = "yield" PROVE FALSE
    BY DEF NoYield
  <2>1. c # p
    BY <1>2 DEF Halting
  <2> QED
    BY <1>2, <1>3, <2>1 DEF Others
<1> QED
  BY <1>3, <1>4

\* What the host asked for when a stop or restart p has moved the gateway.
LEMMA AskedFinish ==
    ASSUME LifecycleAssumption, TypeOK, Front, AskedOK, NEW p \in Callers, NEW result,
           Resumes(p, result), op[p] \in {"stop", "restart"}, Alike(p),
           UNCHANGED startTask, asked' = IF op[p] = "stop" THEN "down" ELSE "up",
           pc[p] = "begin" => ~StartPending(p),
           \/ Finished(p)
           \/ op' = op /\ (op[p] = "stop" \/ running')
    PROVE  AskedOK'
<1>1. CASE op[p] = "stop"
  <2>1. Stops(p)
    BY <1>1 DEF Stops
  <2>2. CASE Finished(p)
    BY <1>1, <2>1, <2>2, AskedStop DEF Finished, Ends
  <2>3. CASE op' = op
    <3>1. Stops(p)'
      BY <2>1, <2>3 DEF Stops
    <3> QED
      BY <1>1, <2>1, <3>1, AskedStop
  <2> QED
    BY <2>2, <2>3
<1>2. CASE op[p] = "restart"
  <2>1. p \in Hosts
    BY <1>2, Disjoint DEF Front, CallsOK, CallOK, Calls
  <2>2. op'[p] = op[p] /\ (~running' => pc'[p] = "yield")
    BY <1>2 DEF Finished
  <2> QED
    BY <1>2, <2>1, <2>2, AskedRestart
<1> QED
  BY <1>1, <1>2

LEMMA AwaitStartStep ==
    ASSUME LifecycleAssumption, TypeOK, TypeOK', SeqInv, NEW p \in Callers,
           AwaitStart(p), UNCHANGED startTask
    PROVE  SeqInv'
<1> USE DEF SeqInv
<1>1. /\ Resumes(p, "go") /\ pc[p] = "begin" /\ target[p] \in Callers
      /\ pc' = [pc EXCEPT ![p] = "pending"] /\ ready' = Rest /\ asked' = "down"
      /\ UNCHANGED <<gateway, bound, nc, frame, ncOf>>
  BY DEF AwaitStart, StartPending
<1>2. p \in Tasks /\ p \notin Loops /\ p \notin Runs /\ None \notin Callers
      /\ \A c \in Callers : c \in Tasks
      /\ \A t \in Loops \cup Runs : t \in Tasks
  BY Disjoint
<1>3. /\ op' = op /\ target' = target /\ pc'[p] = "pending"
      /\ \A t \in Tasks \ {p} : pc'[t] = pc[t]
  BY <1>1, <1>2 DEF frame, TypeOK
<1>4. CallOK(p) /\ p \notin Hosts /\ Stops(p) /\ target[p] \in Callers \ Hosts
  <2>1. CallOK(p)
    BY DEF Front, CallsOK
  <2>2. p \notin Hosts /\ ~Starts(p)
    BY <1>1, <1>2, <2>1 DEF CallOK
  <2> QED
    BY <1>1, <1>2, <2>1, <2>2, IdleOps DEF CallOK
<1>5. CallOK(p)'
  BY <1>3, <1>4, Disjoint DEF CallOK, Starts, Stops, Calls
<1>6. Moves(p) /\ Alike(p)
  BY <1>2, <1>3 DEF Moves, Alike, Others
<1>7. Requeues
  <2>1. Rest \in Seq(Entries) /\ Single(Rest)
    BY <1>1, CallerResumes
  <2> QED
    BY <1>1, <2>1 DEF Requeues
<1>8. Front'
  BY <1>1, <1>3, <1>5, <1>6, <1>7, MoveFront
<1>9. GatewayOK'
  <2>1. NoNewCancel(ready)
    <3>1. InQueue(Rest) = InQueue(ready) \ {Entry(p, "go")}
      BY <1>1, CallerResumes
    <3> QED
      BY <1>1, <3>1 DEF NoNewCancel
  <2>2. UNCHANGED <<running, healthTask, context, bound, nc, ncOf>>
    BY <1>1 DEF gateway
  <2>3. \A c \in Callers :
           \/ pc[c] \notin {"yield", "health", "run"}
              /\ pc'[c] \notin {"yield", "health", "run"}
           \/ pc'[c] = pc[c] /\ target'[c] = target[c] /\ ncOf'[c] = ncOf[c]
    BY <1>1, <1>2, <1>3
  <2> QED
    BY <1>2, <1>3, <2>1, <2>2, <2>3, GatewayKept
<1>10. AskedOK'
  <2>1. Stops(p)'
    BY <1>3, <1>4 DEF Stops
  <2> QED
    BY <1>1, <1>3, <1>4, <1>6, <2>1, AskedStop
<1> QED
  BY <1>8, <1>9, <1>10

\* A call that returns without having touched the gateway.
LEMMA ReturnStep ==
    ASSUME LifecycleAssumption, TypeOK, TypeOK', Front, GatewayOK, NEW p \in Callers,
           Resumes(p, "go"), UNCHANGED startTask, Return(p, pc, Rest),
           pc[p] \notin {"yield", "health", "run"},
           UNCHANGED <<running, healthTask, context, bound, nc>>
    PROVE  Front' /\ GatewayOK' /\ Alike(p) /\ Ends(p, pc)
<1>1. /\ Rest \in Seq(Entries) /\ Single(Rest)
      /\ InQueue(Rest) = InQueue(ready) \ {Entry(p, "go")}
  BY CallerResumes
<1>2. pc \in [Tasks -> PCs]
  BY DEF TypeOK
<1>3. Ends(p, pc) /\ Returns(p, pc, Rest)
  BY <1>2, ReturnEnds
<1>4. Front' /\ NoNewCancel(Rest)
  BY <1>1, <1>2, <1>3, ReturnFront
<1>5. NoNewCancel(ready)
  BY <1>1, <1>4 DEF NoNewCancel
<1>6. /\ \A c \in Others(p) :
            pc'[c] = pc[c] /\ op'[c] = op[c] /\ target'[c] = target[c] /\ ncOf'[c] = ncOf[c]
      /\ \A t \in Loops \cup Runs : pc'[t] = pc[t] /\ ncOf'[t] = ncOf[t]
      /\ pc'[p] \in {"idle", "begin"}
  BY <1>3, Disjoint DEF Ends, Others
<1>7. \A c \in Callers :
         \/ pc[c] \notin {"yield", "health", "run"}
            /\ pc'[c] \notin {"yield", "health", "run"}
         \/ pc'[c] = pc[c] /\ target'[c] = target[c] /\ ncOf'[c] = ncOf[c]
  BY <1>6 DEF Others
<1>8. GatewayOK'
  BY <1>5, <1>6, <1>7, GatewayKept
<1> QED
  BY <1>3, <1>4, <1>6, <1>8 DEF Alike

LEMMA BeginStartStep ==
    ASSUME LifecycleAssumption, TypeOK, TypeOK', SeqInv, NEW p \in Callers,
           BeginStart(p), UNCHANGED startTask
    PROVE  SeqInv'
<1> USE DEF SeqInv
<1>1. Resumes(p, "go") /\ pc[p] = "begin" /\ op[p] = "start" /\ asked' = "up" /\ Starts(p)
  BY DEF BeginStart, Starts
<1>2. CASE /\ running
           /\ Return(p, pc, Rest)
           /\ UNCHANGED <<gateway, bound, nc>>
  <2>1. UNCHANGED <<running, healthTask, context, bound, nc>>
    BY <1>2 DEF gateway
  <2>2. Front' /\ GatewayOK' /\ Alike(p) /\ Ends(p, pc)
    BY <1>1, <1>2, <2>1, ReturnStep
  <2>3. AskedOK'
    BY <1>1, <1>2, <2>1, <2>2, AskedStart DEF Ends
  <2> QED
    BY <2>2, <2>3
<1>3. CASE ~running /\ nc[context].started
  BY <1>3 DEF GatewayOK, LinkOK
<1>4. CASE /\ ~running /\ ~nc[context].started
           /\ LaunchNode(p, "start", context, nc)
           /\ UNCHANGED <<gateway, bound>>
  <2>1. NoYield
    <3> SUFFICES ASSUME NEW c \in Callers, pc[c] = "yield" PROVE FALSE
      BY DEF NoYield
    <3>1. c \in Others(p)
      BY <1>1 DEF Others
    <3> QED
      BY <1>1, <3>1 DEF Front, TurnsOK
  <2>2. /\ Live = {} /\ healthTask = None /\ NoSlots /\ BindOK
        /\ running = FALSE /\ nc[context].started = FALSE
        /\ context \in Contexts /\ nc \in [Contexts -> NodeTypes]
    BY <1>4, <2>1 DEF GatewayOK, LinkOK, WatchOK, BindOK, TypeOK, NodeTypes
  <2>3. \A l \in Loops : pc[l] = "done"
    BY <2>2, AllDone
  <2>4. \A k \in Components, x \in Contexts : reg[k][x] = 0
    BY <2>2, Unbound
  <2>5. /\ NoSlots' /\ healthTask' = None /\ running' = FALSE /\ context' = context
        /\ \A k \in Components, x \in Contexts : reg'[k][x] = 0
    BY <1>4, <2>2, <2>4 DEF NoSlots, gateway, bound
  <2>6. Front' /\ GatewayOK' /\ Alike(p) /\ pc'[p] = "yield" /\ op' = op
    BY <1>1, <1>4, <2>2, <2>3, <2>5, LaunchStep
  <2>7. AskedOK'
    BY <1>1, <2>2, <2>5, <2>6, AskedStart
  <2> QED
    BY <2>6, <2>7
<1> QED
  BY <1>2, <1>3, <1>4 DEF BeginStart

LEMMA BeginStopStep ==
    ASSUME LifecycleAssumption, TypeOK, TypeOK', SeqInv, NEW p \in Callers,
           BeginStop(p), UNCHANGED startTask
    PROVE  SeqInv'
<1> USE DEF SeqInv
<1>1. /\ Resumes(p, "go") /\ op[p] # "start" /\ pc[p] \in {"begin", "pending"}
      /\ StopGateway(p, op[p]) /\ (pc[p] = "begin" => ~StartPending(p))
      /\ pc[p] = "begin" => asked' = IF op[p] = "stop" THEN "down" ELSE "up"
      /\ pc[p] = "pending" => asked' = asked
  BY DEF BeginStop
<1>2. CallOK(p) /\ pc[p] # "idle"
  BY <1>1 DEF Front, CallsOK
<1>3. op[p] \in {"stop", "restart"} /\ (pc[p] = "pending" => Stops(p))
  BY <1>1, <1>2, IdleOps, Disjoint DEF TypeOK, Calls, CallOK, Starts, Stops
<1>4. asked' = IF op[p] = "stop" THEN "down" ELSE "up"
  BY <1>1, <1>3 DEF AskedOK, Stops
<1>5. /\ context \in Contexts /\ nc \in [Contexts -> NodeTypes] /\ BindOK
      /\ running = nc[context].started /\ running \in BOOLEAN
      /\ \A c \in Callers : pc[c] = "run" => ncOf[c] = context
  BY DEF TypeOK, GatewayOK, LinkOK, AwaitOK
<1>6. CASE /\ ~running
           /\ FinishStop(p, op[p], nc)
           /\ UNCHANGED <<healthTask, bound>>
  <2>1. /\ running = FALSE /\ healthTask = None /\ NoSlots
        /\ running' = FALSE /\ nc[context].started = FALSE
    BY <1>5, <1>6 DEF GatewayOK, WatchOK, BindOK, FinishStop
  <2>2. CASE op[p] = "stop"
    <3>1. Return(p, pc, Rest) /\ UNCHANGED <<nc, context>>
      BY <1>6, <2>2 DEF FinishStop
    <3>2. Front' /\ GatewayOK' /\ Alike(p) /\ Ends(p, pc)
      BY <1>1, <1>6, <2>1, <3>1, ReturnStep
    <3>3. Finished(p)
      BY <2>1, <2>2, <3>2 DEF Finished
    <3>4. AskedOK'
      BY <1>1, <1>3, <1>4, <3>2, <3>3, AskedFinish
    <3> QED
      BY <3>2, <3>4
  <2>3. CASE op[p] = "restart"
    <3>1. p \in Hosts
      BY <1>2, <2>3, Disjoint DEF CallOK, Calls
    <3>2. NoYield
      BY <1>1, <1>2, <3>1 DEF Front, TurnsOK, NoYield, Others
    <3>3. Live = {} /\ \A l \in Loops : pc[l] = "done"
      BY <2>1, <3>2, AllDone DEF GatewayOK, LinkOK
    <3>4. /\ NoSlots' /\ healthTask' = None
          /\ \A k \in Components, x \in Contexts : reg'[k][x] = 0
      BY <1>5, <1>6, <2>1, Unbound DEF NoSlots, bound
    <3>5. Front' /\ GatewayOK' /\ Alike(p) /\ Finished(p)
      BY <1>1, <1>5, <1>6, <2>1, <3>2, <3>3, <3>4, FinishStopStep
    <3>6. AskedOK'
      BY <1>1, <1>3, <1>4, <3>5, AskedFinish
    <3> QED
      BY <3>5, <3>6
  <2> QED
    BY <1>3, <2>2, <2>3
<1>7. CASE running /\ HealthTaskLive /\ SelfAwaiting(healthTask)
  BY <1>7 DEF HealthTaskLive, SelfAwaiting, TypeOK, Front, KindsOK
<1>8. CASE /\ running /\ HealthTaskLive
           /\ pc' = [pc EXCEPT ![p] = "health"]
           /\ op' = [op EXCEPT ![p] = op[p]]
           /\ target' = [target EXCEPT ![p] = healthTask]
           /\ ready' = Cancel(Rest, healthTask)
           /\ UNCHANGED <<running, healthTask, context, bound, nc, ncOf>>
  <2>1. healthTask \in Loops /\ healthTask # None /\ pc[healthTask] = "sleep"
    BY <1>8 DEF HealthTaskLive, TypeOK, Front, KindsOK
  <2>2. /\ p \in Procs /\ p \in Tasks /\ healthTask # p /\ healthTask \in Tasks
        /\ \A c \in Callers : c \in Procs /\ c \in Tasks
    BY <2>1, Disjoint
  <2>3. /\ op' = op /\ pc'[p] = "health" /\ target'[p] = healthTask
        /\ \A t \in Tasks \ {p} : pc'[t] = pc[t]
        /\ \A c \in Others(p) : target'[c] = target[c] /\ pc'[c] = pc[c]
    BY <1>8, <2>2 DEF TypeOK, Others
  <2>4. Moves(p) /\ Alike(p)
    BY <2>3 DEF Moves, Alike
  <2>5. Requeues
    BY <1>1, <1>8, <2>1, <2>2, <2>3, CancelRequeues
  <2>6. CallOK(p)'
    BY <1>2, <1>3, <2>1, <2>3 DEF CallOK, Starts, Stops
  <2>7. \A c \in Others(p) : ~Starts(c)
    BY <1>1, <1>8, NoStarter
  <2>8. Front'
    BY <1>1, <2>3, <2>4, <2>5, <2>6, <2>7, MoveFront
  <2>9. GatewayOK'
    BY <1>8, <2>1, <2>3, GatewayHalts
  <2>10. AskedOK'
    BY <1>1, <1>3, <1>4, <1>8, <2>3, <2>4, AskedFinish
  <2> QED
    BY <2>8, <2>9, <2>10
<1>9. CASE running /\ ~HealthTaskLive /\ StopNode(p, op[p])
  <2>1. healthTask = None \/ pc[healthTask] = "done"
    BY <1>9 DEF HealthTaskLive
  <2>2. NoYield /\ \A c \in Others(p) : ~Starts(c)
    BY <1>1, <1>9, NoStarter
  <2>3. /\ Front' /\ GatewayOK' /\ Alike(p)
        /\ \/ Finished(p)
           \/ pc'[p] = "run" /\ op' = op /\ UNCHANGED running
    BY <1>1, <1>3, <1>9, <2>1, <2>2, StopNodeStep
  <2>4. AskedOK'
    BY <1>1, <1>3, <1>4, <1>9, <2>3, AskedFinish
  <2> QED
    BY <2>3, <2>4
<1> QED
  BY <1>1, <1>6, <1>7, <1>8, <1>9 DEF StopGateway

LEMMA ResumeStartStep ==
    ASSUME LifecycleAssumption, TypeOK, TypeOK', SeqInv, NEW p \in Callers,
           ResumeStart(p), UNCHANGED startTask
    PROVE  SeqInv'
<1> USE DEF SeqInv
<1> DEFINE l == CHOOSE y \in FreeLoops : TRUE
           q == Append(Rest, Entry(l, "go"))
           pcs == [pc EXCEPT ![l] = "sleep"]
<1>1. /\ Resumes(p, "go") /\ pc[p] = "yield" /\ running' = TRUE
      /\ nc' = [nc EXCEPT ![ncOf[p]].started = TRUE]
      /\ healthTask' = l /\ Return(p, pcs, q)
      /\ UNCHANGED <<context, asked>>
  BY DEF ResumeStart, FinishStart
<1>2. PICK started \in SUBSET Components :
         /\ slot' = [k \in Components |-> IF k \in started THEN context ELSE slot[k]]
         /\ reg' = [k \in Components |-> [x \in Contexts |->
                      IF k \in started /\ x = context
                      THEN reg[k][x] + 1 ELSE reg[k][x]]]
  BY DEF ResumeStart, FinishStart
<1>3. l \in Loops /\ pc[l] = "done" /\ \A c \in Procs : target[c] # l
  BY DEF ResumeStart, FinishStart, FreeLoops
<1> HIDE DEF l
<1>4. /\ p \in Tasks /\ l \in Tasks /\ p # l /\ p \notin Loops /\ p \notin Runs
      /\ \A c \in Callers : c \in Tasks /\ c \in Procs /\ c # l
      /\ \A r \in Runs : r \in Tasks /\ r # l
      /\ \A m \in Loops : m \in Tasks
  BY <1>3, Disjoint
<1>5. /\ pcs \in [Tasks -> PCs] /\ pcs[l] = "sleep"
      /\ \A t \in Tasks \ {l} : pcs[t] = pc[t]
  BY <1>4 DEF TypeOK, PCs, LoopPCs
<1>6. Returns(p, pcs, q) /\ Ends(p, pcs) /\ Rest \in Seq(Entries) /\ Single(Rest)
      /\ InQueue(Rest) = InQueue(ready) \ {Entry(p, "go")}
  BY <1>1, <1>5, ReturnEnds, CallerResumes
<1>7. ~Queued(Rest, l)
  BY <1>1, <1>3, <1>4, DoneNotQueued
<1> DEFINE x == Entry(l, "go")
<1>8. x \in Entries /\ x.task = l /\ x.result = "go"
  BY <1>4, GoEntry DEF Entry
<1>9. q = Append(Rest, x)
  OBVIOUS
<1> HIDE DEF x, q, pcs
<1>10. /\ q \in Seq(Entries) /\ Single(q) /\ InQueue(q) = InQueue(Rest) \cup {x}
       /\ \A c : Leads(Rest, c) => Leads(q, c)
  BY <1>6, <1>7, <1>8, <1>9, AppendQueue
<1>11. Front' /\ NoNewCancel(q)
  <2>1. \A t \in Tasks :
           \/ pcs[t] = pc[t]
           \/ /\ t \in Loops /\ pc[t] = "done" /\ pcs[t] = "sleep"
              /\ \A c \in Callers : target[c] # t
    BY <1>3, <1>4, <1>5
  <2>2. \A e \in InQueue(q) :
           \/ e \in InQueue(Rest)
           \/ e.result = "go" /\ e.task \in Loops /\ pcs[e.task] = "sleep"
    BY <1>3, <1>5, <1>8, <1>10
  <2> QED
    BY <1>1, <1>5, <1>6, <1>10, <2>1, <2>2, ReturnFront
<1>12. /\ pc'[p] \in {"idle", "begin"} /\ pc'[l] = "sleep"
       /\ \A t \in Tasks \ {p, l} : pc'[t] = pc[t] /\ ncOf'[t] = ncOf[t]
       /\ \A c \in Others(p) : op'[c] = op[c] /\ target'[c] = target[c]
  BY <1>4, <1>5, <1>6 DEF Ends
<1>13. Alike(p)
  BY <1>4, <1>12 DEF Alike, Others
<1>14. \A c \in Others(p) : pc[c] \notin {"yield", "health", "run"} /\ pc'[c] = pc[c]
  <2>1. Starts(p)
    BY <1>1, Disjoint DEF Front, CallsOK, CallOK, Stops, Starts, TypeOK, Calls
  <2> QED
    BY <1>4, <1>12, <2>1 DEF Front, TurnsOK, Others
<1>15. Entry(l, "cancel") \notin InQueue(ready')
  <2>1. Entry(l, "cancel").result = "cancel" /\ Entry(l, "cancel").task = l
    BY DEF Entry
  <2>2. Entry(l, "cancel") \notin InQueue(q)
    BY <1>7, <1>8, <1>10, <2>1, QueuedIn
  <2> QED
    BY <1>11, <2>1, <2>2 DEF NoNewCancel
<1>16. GatewayOK'
  <2>1. \A m \in Loops \ {l} : pc'[m] = pc[m]
    BY <1>4, <1>12
  <2>2. \A r \in Runs : pc'[r] = pc[r] /\ ncOf'[r] = ncOf[r]
    BY <1>4, <1>12
  <2> QED
    BY <1>1, <1>2, <1>3, <1>12, <1>14, <1>15, <2>1, <2>2, GatewayUp
<1>17. AskedOK'
  BY <1>1, <1>6, <1>13, AskedResume DEF Ends
<1> QED
  BY <1>11, <1>16, <1>17

LEMMA ResumeStopStep ==
    ASSUME LifecycleAssumption, TypeOK, TypeOK', SeqInv, NEW p \in Callers,
           ResumeStopAfterHealth(p) \/ ResumeStopAfterRun(p), UNCHANGED startTask
    PROVE  SeqInv'
<1> USE DEF SeqInv
<1>1. PICK result : Resumes(p, result)
  BY DEF ResumeStopAfterHealth, ResumeStopAfterRun
<1>2. /\ Halting(p) /\ asked' = asked /\ pc[p] \in {"health", "run"}
  BY DEF Halting, ResumeStopAfterHealth, ResumeStopAfterRun
<1>3. CallOK(p) /\ AwaitOK(p) /\ Legitimate(Entry(p, result))
  BY <1>1, CallerResumes DEF Front, CallsOK, GatewayOK
<1>4. op[p] \in {"stop", "restart"}
  BY <1>2, <1>3, Disjoint DEF CallOK, TypeOK, Calls
<1>5. asked' = IF op[p] = "stop" THEN "down" ELSE "up"
  <2>1. op[p] = "restart" => p \in Hosts
    BY <1>3, Disjoint DEF CallOK, Calls
  <2> QED
    BY <1>2, <1>4, <2>1 DEF AskedOK, Starts, Stops
<1>6. NoYield /\ \A c \in Others(p) : ~Starts(c)
  BY <1>1, <1>2, NoStarter
<1>7. pc[target[p]] = "done"
  BY <1>2, <1>3 DEF Legitimate, Entry
<1>8. CASE ResumeStopAfterHealth(p)
  <2>1. pc[p] = "health" /\ StopNode(p, op[p])
    BY <1>8 DEF ResumeStopAfterHealth
  <2>2. healthTask = None \/ pc[healthTask] = "done"
    BY <1>3, <1>7, <2>1 DEF AwaitOK
  <2>3. /\ Front' /\ GatewayOK' /\ Alike(p)
        /\ \/ Finished(p)
           \/ pc'[p] = "run" /\ op' = op /\ UNCHANGED running
    BY <1>1, <1>4, <1>6, <2>1, <2>2, StopNodeStep
  <2>4. op[p] = "restart" => running
    BY <1>2, <1>5, <1>6 DEF AskedOK, NoYield
  <2>5. AskedOK'
    BY <1>1, <1>2, <1>4, <1>5, <2>3, <2>4, AskedFinish
  <2> QED
    BY <2>3, <2>5
<1>9. CASE ResumeStopAfterRun(p)
  <2> DEFINE ncs == Down(ncOf[p], nc)
  <2>1. /\ pc[p] = "run" /\ FinishStop(p, op[p], ncs)
        /\ UNCHANGED <<healthTask, failures, bound>>
    BY <1>9 DEF ResumeStopAfterRun
  <2>2. /\ ncOf[p] = context /\ context \in Contexts /\ nc \in [Contexts -> NodeTypes]
        /\ NoSlots /\ healthTask = None /\ BindOK /\ running \in BOOLEAN
        /\ \A c \in Callers : pc[c] = "run" => ncOf[c] = context
    BY <1>3, <2>1 DEF AwaitOK, TypeOK, GatewayOK
  <2>3. ncs \in [Contexts -> NodeTypes]
    BY <2>2, DownType
  <2>4. ncs[context].started = FALSE
    BY <2>2 DEF Down, NodeTypes
  <2>5. /\ NoSlots' /\ healthTask' = None
        /\ \A k \in Components, x \in Contexts : reg'[k][x] = 0
    BY <2>1, <2>2, Unbound DEF NoSlots, bound
  <2>6. Live = {}
    <3>1. CASE running
      <4> SUFFICES ASSUME NEW r \in Live PROVE FALSE
        OBVIOUS
      <4>1. r \in Runs /\ pc[r] # "done" /\ nc[context].runTask = r
        BY DEF GatewayOK, LinkOK, OneConnection, Live
      <4> QED
        BY <1>3, <1>7, <2>1, <3>1, <4>1 DEF AwaitOK
    <3>2. CASE ~running
      BY <1>6, <3>2 DEF GatewayOK, LinkOK
    <3> QED
      BY <3>1, <3>2
  <2>7. \A l \in Loops : pc[l] = "done"
    BY <2>2, AllDone
  <2> HIDE DEF ncs
  <2>8. Front' /\ GatewayOK' /\ Alike(p) /\ Finished(p)
    BY <1>1, <1>6, <2>1, <2>2, <2>3, <2>4, <2>5, <2>6, <2>7, FinishStopStep
  <2>9. AskedOK'
    BY <1>1, <1>2, <1>4, <1>5, <2>8, AskedFinish
  <2> QED
    BY <2>8, <2>9
<1> QED
  BY <1>8, <1>9

-----------------------------------------------------------------------------
(* The host, the health loops and the connection loops.                    *)

LEMMA HostCallStep ==
    ASSUME LifecycleAssumption, Patient, TypeOK, TypeOK', SeqInv, NEW p \in Callers,
           HostCall(p)
    PROVE  SeqInv'
<1> USE DEF SeqInv
<1>1. \A c \in Callers : Idle(c) <=> pc[c] = "idle"
  BY DEF Idle, Front, KindsOK
<1>2. startTask \in (Callers \ Hosts) \cup {None}
  BY DEF Front, TurnsOK
<1>3. ASSUME NEW o \in Calls, NEW t, Spawn(p, o, t), Idle(p), NoNewCancel(ready)
      PROVE  GatewayOK'
  <2>1. /\ pc' = [pc EXCEPT ![p] = "begin"] /\ target' = [target EXCEPT ![p] = t]
        /\ UNCHANGED <<gateway, bound, nc, ncOf>>
    BY <1>3 DEF Spawn
  <2>2. /\ p \in Tasks /\ p \in Procs /\ p \notin Loops /\ p \notin Runs
        /\ \A c \in Callers : c \in Tasks /\ c \in Procs
        /\ \A u \in Loops \cup Runs : u \in Tasks
    BY Disjoint
  <2>3. /\ pc'[p] = "begin" /\ pc[p] = "idle"
        /\ \A u \in Tasks \ {p} : pc'[u] = pc[u]
        /\ \A c \in Callers \ {p} : target'[c] = target[c]
    BY <1>1, <1>3, <2>1, <2>2 DEF TypeOK
  <2>4. \A c \in Callers :
           \/ pc[c] \notin {"yield", "health", "run"}
              /\ pc'[c] \notin {"yield", "health", "run"}
           \/ pc'[c] = pc[c] /\ target'[c] = target[c] /\ ncOf'[c] = ncOf[c]
    BY <2>1, <2>2, <2>3
  <2>5. UNCHANGED <<running, healthTask, context, bound, nc, ncOf>>
    BY <2>1 DEF gateway
  <2> QED
    BY <1>3, <2>2, <2>3, <2>4, <2>5, GatewayKept
<1>4. CASE Call(p)
  <2>1. PICK o \in Ops[p] : Spawn(p, o, None)
    BY <1>4 DEF Call
  <2>2. o \in Calls /\ p \in Hosts /\ UNCHANGED startTask /\ Idle(p)
    BY <1>4, <2>1 DEF Call, LifecycleAssumption, Hosts
  <2>3. \A c \in Callers : pc[c] = "idle"
    BY <1>1, <1>4 DEF Call, Quiet
  <2>4. Front' /\ NoNewCancel(ready)
    BY <1>2, <2>1, <2>2, <2>3, SpawnFront DEF Hosts
  <2>5. AskedOK'
    BY <2>1, <2>2, <2>3, AskedSpawn
  <2> QED
    BY <1>3, <2>1, <2>2, <2>4, <2>5
<1>5. ASSUME p \in FreeTasks
      PROVE  /\ p \notin Hosts /\ Idle(p)
             /\ \A c \in Callers : pc[c] = "pending" => target[c] # p
  BY <1>5, Disjoint DEF FreeTasks, Hosts
<1>6. CASE FacadeStart(p)
  <2>1. /\ p \in FreeTasks /\ Spawn(p, "start", None) /\ startTask' = p /\ Quiet
        /\ "start" \in Calls
    BY <1>6 DEF FacadeStart, Calls
  <2>2. p \notin Hosts /\ Idle(p) /\ \A c \in Callers : pc[c] = "pending" => target[c] # p
    BY <1>5, <2>1
  <2>3. \A c \in Callers : pc[c] = "idle"
    BY <1>1, <2>1 DEF Quiet
  <2>4. Front' /\ NoNewCancel(ready)
    BY <2>1, <2>2, <2>3, SpawnFront DEF Hosts
  <2>5. AskedOK'
    BY <2>1, <2>2, <2>3, AskedSpawn
  <2> QED
    BY <1>3, <2>1, <2>2, <2>4, <2>5
<1>7. CASE FacadeStop(p)
  <2>1. /\ p \in FreeTasks /\ Spawn(p, "stop", startTask) /\ startTask' = None
        /\ \A c \in Callers : Ops[c] # {} => Idle(c)
        /\ "stop" \in Calls
    BY <1>7 DEF FacadeStop, Calls
  <2>2. p \notin Hosts /\ Idle(p) /\ \A c \in Callers : pc[c] = "pending" => target[c] # p
    BY <1>5, <2>1
  <2>3. \A c \in Hosts : pc[c] = "idle"
    BY <1>1, <2>1 DEF Hosts
  <2>4. Front' /\ NoNewCancel(ready)
    BY <1>2, <2>1, <2>2, <2>3, SpawnFront
  <2>5. AskedOK'
    BY <2>1, <2>2, AskedSpawn
  <2> QED
    BY <1>3, <2>1, <2>2, <2>4, <2>5
<1> QED
  BY <1>4, <1>6, <1>7 DEF HostCall

\* Health loops start to sleep and are cancelled; with no tick none checks.
LEMMA HealthSequential ==
    ASSUME LifecycleAssumption, TypeOK, TypeOK', SeqInv, NEW l \in Loops,
           HealthStep(l), UNCHANGED startTask
    PROVE  SeqInv'
<1> USE DEF SeqInv
<1>1. l \in Tasks /\ l \notin Callers
      /\ \A c \in Callers : c \in Tasks /\ c # l
  BY Disjoint
<1>2. ASSUME NEW result, Resumes(l, result)
      PROVE  Entry(l, result) \in InQueue(ready) /\ result # "tick"
  <2>1. ready \in Seq(Entries) /\ ready # <<>> /\ Head(ready) = Entry(l, result)
        /\ Single(ready)
    BY <1>2 DEF TypeOK, Resumes, Front, QueueOK
  <2>2. Entry(l, result) \in InQueue(ready)
    BY <2>1, RestQueue
  <2> QED
    BY <2>2 DEF Front, QueueOK, Legitimate, Entry
<1>3. CASE LoopStarts(l)
  <2>1. Resumes(l, "go") /\ ready' = Rest /\ pc[l] = "sleep"
        /\ UNCHANGED <<gateway, bound, nc, pc, frame, ncOf, asked>>
    BY <1>3 DEF LoopStarts
  <2>2. Front' /\ NoNewCancel(ready)
    BY <2>1, TaskFront
  <2>3. /\ UNCHANGED <<running, healthTask, context, bound, nc, asked>>
        /\ \A c \in Callers : /\ pc'[c] = pc[c] /\ op'[c] = op[c]
                              /\ target'[c] = target[c] /\ ncOf'[c] = ncOf[c]
    BY <2>1 DEF gateway, frame
  <2>4. GatewayOK'
    BY <2>1, <2>2, <2>3, GatewayKept
  <2>5. AskedOK'
    BY <2>3, AskedKept
  <2> QED
    BY <2>2, <2>4, <2>5
<1>4. CASE LoopCancelled(l)
  <2>1. /\ Resumes(l, "cancel") /\ pc[l] = "sleep" /\ End(l)
        /\ UNCHANGED <<gateway, bound, nc, frame, ncOf, asked>>
    BY <1>4 DEF LoopCancelled
  <2>2. /\ pc' = [pc EXCEPT ![l] = "done"] /\ pc'[l] = "done"
        /\ Wake(Rest, Waiters(l) \ {l})
        /\ \A t \in Tasks \ {l} : pc'[t] = pc[t]
    BY <1>1, <2>1 DEF End, TypeOK
  <2>3. Front'
    BY <2>1, <2>2, TaskFront
  <2>4. /\ UNCHANGED <<gateway, bound, nc, target, ncOf, asked, running>>
        /\ \A c \in Callers : /\ pc'[c] = pc[c] /\ op'[c] = op[c]
                              /\ target'[c] = target[c]
    BY <1>1, <2>1, <2>2 DEF gateway, frame
  <2>5. GatewayOK'
    BY <1>2, <2>1, <2>2, <2>4, GatewayLoopEnds
  <2>6. AskedOK'
    BY <2>4, AskedKept
  <2> QED
    BY <2>3, <2>5, <2>6
<1>5. CASE CheckHealth(l)
  BY <1>2, <1>5 DEF CheckHealth
<1> QED
  BY <1>3, <1>4, <1>5 DEF HealthStep

\* A connection loop connects, serves and ends by itself: it only ever changes
\* the flag of its own context.
LEMMA RunSequential ==
    ASSUME LifecycleAssumption, TypeOK, TypeOK', SeqInv, NEW r \in Runs,
           RunTask(r), UNCHANGED startTask
    PROVE  SeqInv'
<1> USE DEF SeqInv
<1>1. /\ r \in Tasks /\ r \notin Callers /\ r \notin Loops
      /\ \A c \in Callers \cup Loops : c \in Tasks /\ c # r
      /\ \A u \in Runs : u \in Tasks
  BY Disjoint
<1>2. PICK result : Resumes(r, result)
  BY DEF RunTask, RunStep, RunCancelled
<1>3. UNCHANGED <<gateway, bound, frame, ncOf, asked>>
  BY DEF RunTask
<1>4. \/ End(r)
      \/ \E next \in RunPCs : RunGoes(r, next)
  BY DEF RunTask, RunStep, RunCancelled, LoopHead, NextAttempt, RunPCs
<1>5. PICK next \in RunPCs :
         /\ pc' = [pc EXCEPT ![r] = next]
         /\ \/ ready' = Rest
            \/ next = "done" /\ Wake(Rest, Waiters(r) \ {r})
  BY <1>4 DEF End, RunGoes, RunPCs
<1>6. pc'[r] = next /\ \A t \in Tasks \ {r} : pc'[t] = pc[t]
  BY <1>1, <1>5 DEF TypeOK
<1>7. UNCHANGED nc \/ \E b \in BOOLEAN : SetConnected(r, b)
  BY DEF RunTask, RunStep, RunCancelled
<1>8. \A x \in Contexts : nc'[x].started = nc[x].started /\ nc'[x].runTask = nc[x].runTask
  <2> SUFFICES ASSUME NEW x \in Contexts, NEW b \in BOOLEAN, SetConnected(r, b)
               PROVE  nc'[x].started = nc[x].started /\ nc'[x].runTask = nc[x].runTask
    BY <1>7
  <2>1. nc' = [nc EXCEPT ![ncOf[r]].connected = b] /\ nc \in [Contexts -> NodeTypes]
    BY DEF SetConnected, TypeOK
  <2>2. CASE ncOf[r] = x
    BY <2>1, <2>2 DEF NodeTypes
  <2>3. CASE ncOf[r] # x
    BY <2>1, <2>3
  <2> QED
    BY <2>2, <2>3
<1>9. Front' /\ NoNewCancel(ready)
  BY <1>1, <1>2, <1>3, <1>5, <1>6, TaskFront
<1>10. /\ UNCHANGED <<running, healthTask, context, bound, asked>>
       /\ \A c \in Callers : /\ pc'[c] = pc[c] /\ op'[c] = op[c]
                             /\ target'[c] = target[c] /\ ncOf'[c] = ncOf[c]
       /\ \A l \in Loops : pc'[l] = pc[l]
       /\ \A u \in Runs : ncOf'[u] = ncOf[u] /\ (u # r => pc'[u] = pc[u])
  <2>1. /\ UNCHANGED <<running, healthTask, context, bound, asked>>
        /\ op' = op /\ target' = target /\ ncOf' = ncOf
    BY <1>3 DEF gateway, frame
  <2>2. \A t \in Callers \cup Loops \cup (Runs \ {r}) : pc'[t] = pc[t]
    BY <1>1, <1>6
  <2> QED
    BY <2>1, <2>2
<1>11. pc[r] # "done"
  <2>1. ready \in Seq(Entries) /\ ready # <<>> /\ Head(ready) = Entry(r, result)
        /\ Single(ready)
    BY <1>2 DEF TypeOK, Resumes, Front, QueueOK
  <2>2. Entry(r, result) \in InQueue(ready)
    BY <2>1, RestQueue
  <2> QED
    BY <2>2 DEF Front, QueueOK, Legitimate, Entry
<1>12. GatewayOK'
  BY <1>8, <1>9, <1>10, <1>11, GatewayKept
<1>13. AskedOK'
  BY <1>10, AskedKept
<1> QED
  BY <1>9, <1>12, <1>13

LEMMA TransportSequential ==
    ASSUME LifecycleAssumption, TypeOK, TypeOK', SeqInv, NEW r \in Runs,
           TransportEvent(r)
    PROVE  SeqInv'
<1> USE DEF SeqInv
<1>1. UNCHANGED <<gateway, bound, nc, pc, frame, ncOf, startTask, asked>>
  BY DEF TransportEvent
<1>2. Front' /\ NoNewCancel(ready)
  BY TransportFront
<1>3. /\ UNCHANGED <<running, healthTask, context, bound, nc, asked, startTask>>
      /\ \A c \in Callers : /\ pc'[c] = pc[c] /\ op'[c] = op[c]
                            /\ target'[c] = target[c] /\ ncOf'[c] = ncOf[c]
  BY <1>1 DEF gateway, frame
<1>4. GatewayOK'
  BY <1>1, <1>2, <1>3, GatewayKept
<1>5. AskedOK'
  BY <1>3, AskedKept
<1> QED
  BY <1>2, <1>4, <1>5

LEMMA StutterStep ==
    ASSUME SeqInv, UNCHANGED vars
    PROVE  SeqInv'
<1>1. UNCHANGED <<running, healthTask, context, bound, slot, reg, nc, pc, frame, op, target,
                  ncOf, ready, startTask, asked>>
  BY DEF vars, gateway, bound, frame
<1>2. Front'
  <2>1. KindsOK' /\ CallsOK'
    BY <1>1 DEF SeqInv, Front, KindsOK, CallsOK, CallOK, Starts, Stops
  <2>2. QueueOK'
    BY <1>1 DEF SeqInv, Front, QueueOK, Legitimate, Starts
  <2>3. TurnsOK'
    BY <1>1 DEF SeqInv, Front, TurnsOK, Starts, Stops, Others, Hosts
  <2> QED
    BY <2>1, <2>2, <2>3 DEF Front
<1>3. GatewayOK'
  <2>1. LinkOK' /\ WatchOK'
    BY <1>1 DEF SeqInv, GatewayOK, LinkOK, WatchOK, OneConnection, Live, NoYield, Halting
  <2>2. BindOK'
    BY <1>1 DEF SeqInv, GatewayOK, BindOK, BoundOnce, BoundToCurrent, NoSlots
  <2>3. \A c \in Callers : AwaitOK(c)'
    BY <1>1 DEF SeqInv, GatewayOK, AwaitOK, NoSlots
  <2> QED
    BY <2>1, <2>2, <2>3 DEF GatewayOK
<1>4. AskedOK'
  BY <1>1, AskedKept DEF SeqInv
<1> QED
  BY <1>2, <1>3, <1>4 DEF SeqInv

-----------------------------------------------------------------------------
(* The theorems.                                                           *)

\* The invariant itself: in a run of one call after the other every caller, the
\* event loop's queue and the gateway are where the two halves say.
THEOREM InOrder == Sequential => (Spec => []SeqInv)
<1> SUFFICES ASSUME Sequential PROVE Spec => []SeqInv
  OBVIOUS
<1> USE LifecycleAssumption
<1>1. Init => SeqInv
  <2> SUFFICES ASSUME Init PROVE SeqInv
    OBVIOUS
  <2>1. /\ \A c \in Callers : pc[c] = "idle" /\ op[c] = None /\ target[c] = None
        /\ \A t \in Loops \cup Runs : pc[t] = "done"
    BY Disjoint DEF Init
  <2>2. InQueue(ready) = {} /\ Single(ready)
    BY DEF Init, InQueue, Single
  <2>3. Front
    <3>1. KindsOK
      BY <2>1 DEF KindsOK, RunPCs
    <3>2. CallsOK
      BY <2>1, Disjoint DEF CallsOK, CallOK, Starts, Stops, Calls
    <3>3. QueueOK
      BY <2>1, <2>2 DEF QueueOK
    <3>4. TurnsOK
      BY <2>1, Disjoint DEF TurnsOK, Init, Starts, Others, Hosts, Calls
    <3> QED
      BY <3>1, <3>2, <3>3, <3>4 DEF Front
  <2>4. GatewayOK
    BY <2>1, <2>2, Disjoint DEF GatewayOK, LinkOK, WatchOK, BindOK, AwaitOK, Init,
           OneConnection, Live, BoundOnce, BoundToCurrent, NoSlots, NewContext
  <2>5. AskedOK
    BY <2>1, Disjoint DEF AskedOK, Init, Starts, Stops, Hosts, Calls
  <2> QED
    BY <2>3, <2>4, <2>5 DEF SeqInv
<1>2. TypeOK /\ TypeOK' /\ SeqInv /\ [Next]_vars => SeqInv'
  <2> SUFFICES ASSUME Patient, ~HealthChecks, TypeOK, TypeOK', SeqInv, [Next]_vars
               PROVE  SeqInv'
    BY DEF Sequential
  <2>1. CASE UNCHANGED vars
    BY <2>1, StutterStep
  <2>2. ASSUME NEW p \in Procs, GatewayStep(p), UNCHANGED startTask PROVE SeqInv'
    <3>1. p \in Callers
      BY <2>2, OnlyCallers DEF SeqInv
    <3> QED
      BY <2>2, <3>1, AwaitStartStep, BeginStartStep, BeginStopStep, ResumeStartStep,
         ResumeStopStep DEF GatewayStep
  <2>3. ASSUME NEW l \in Loops, HealthStep(l), UNCHANGED startTask PROVE SeqInv'
    BY <2>3, HealthSequential
  <2>4. ASSUME NEW r \in Runs, RunTask(r), UNCHANGED startTask PROVE SeqInv'
    BY <2>4, RunSequential
  <2>5. ASSUME NEW c \in Callers, HostCall(c) PROVE SeqInv'
    BY <2>5, HostCallStep
  <2>6. ASSUME NEW l \in Loops, Tick(l) PROVE SeqInv'
    BY <2>6 DEF Tick
  <2>7. ASSUME NEW r \in Runs, TransportEvent(r) PROVE SeqInv'
    BY <2>7, TransportSequential
  <2> QED
    BY <2>1, <2>2, <2>3, <2>4, <2>5, <2>6, <2>7 DEF Next, Step
<1> QED
  BY <1>1, <1>2, TypeCorrect, PTL DEF Spec

\* What the invariant says when no call is in progress.
LEMMA AtRest ==
    ASSUME LifecycleAssumption, SeqInv, Quiet
    PROVE  /\ \A c \in Callers : pc[c] = "idle" /\ ~Stops(c) /\ ~Halting(c)
           /\ NoYield
<1>1. \A c \in Callers : pc[c] = "idle"
  BY DEF SeqInv, Quiet, Idle, Front, KindsOK
<1>2. \A c \in Callers : ~Stops(c)
  BY <1>1, IdleOps DEF SeqInv
<1> QED
  BY <1>1, <1>2 DEF Halting, NoYield

\* stop() is final (gateway.py stop(), hb_compat/mqtt_gateway.py _stop_after):
\* with one call after the other, a gateway whose latest call was stop() ends up
\* down, with no connection loop and no health loop.
THEOREM StopsForGood == Sequential => (Spec => []StopIsFinal)
<1>1. SeqInv => StopIsFinal
  <2> SUFFICES ASSUME SeqInv, Quiet, asked = "down"
               PROVE  ~running /\ Live = {} /\ \A l \in Loops : pc[l] = "done"
    BY DEF StopIsFinal
  <2>1. ~running
    BY AtRest, LifecycleAssumption DEF SeqInv, AskedOK
  <2>2. Live = {} /\ healthTask = None /\ GatewayOK
    BY <2>1, AtRest, LifecycleAssumption DEF SeqInv, GatewayOK, LinkOK, WatchOK
  <2> QED
    BY <2>1, <2>2, AllDone, LifecycleAssumption
<1> QED
  BY <1>1, InOrder, PTL

\* start() and restart() hold (gateway.py start(), restart()): with one call after
\* the other, a gateway whose latest call was not stop() ends up running, with
\* its health task alive and no health loop of an earlier start, however the
\* broker behaved meanwhile.
THEOREM StartsForGood == Sequential => (Spec => []StartHolds)
<1>1. SeqInv => StartHolds
  <2> SUFFICES ASSUME SeqInv, Quiet, asked = "up"
               PROVE  /\ running /\ healthTask # None /\ pc[healthTask] # "done"
                      /\ \A l \in Loops : pc[l] # "done" => l = healthTask
    BY DEF StartHolds
  <2>1. running
    BY AtRest, LifecycleAssumption DEF SeqInv, AskedOK, NoYield
  <2> QED
    BY <2>1, AtRest, LifecycleAssumption DEF SeqInv, GatewayOK, WatchOK
<1> QED
  BY <1>1, InOrder, PTL

\* stop() and restart() leave no stray client behind (node_context.py stop()): the
\* only connection loop alive is the one the current context would cancel.
THEOREM OneClient == Sequential => (Spec => []OneConnection)
<1>1. SeqInv => OneConnection
  BY DEF SeqInv, GatewayOK, LinkOK
<1> QED
  BY <1>1, InOrder, PTL

\* Across restarts a component holds at most one endpoint (gateway.py start(),
\* stop()): its callback is registered once on the context of the endpoint it
\* holds and on no other.
THEOREM OneBinding == Sequential => (Spec => []BoundOnce)
<1>1. SeqInv => BoundOnce
  BY DEF SeqInv, GatewayOK, BindOK
<1> QED
  BY <1>1, InOrder, PTL

\* No component keeps an endpoint of a context that restart() has replaced.
THEOREM FreshBinding == Sequential => (Spec => []BoundToCurrent)
<1>1. SeqInv => BoundToCurrent
  BY DEF SeqInv, GatewayOK, BindOK
<1> QED
  BY <1>1, InOrder, PTL
=============================================================================
