-------------------------- MODULE GatewayLifecycle --------------------------
(***************************************************************************)
(* The lifecycle of MQTTGateway (gateway/gateway.py) on an asyncio event   *)
(* loop, together with the part of NodeContext (_commlib/node_context.py)  *)
(* it drives: start(), stop() and _run().                                  *)
(*                                                                         *)
(* Three kinds of task share the event loop:                               *)
(*   Callers  host coroutines that call start(), stop() or restart(), and  *)
(*            the tasks the synchronous facade (hb_compat/mqtt_gateway.py) *)
(*            creates for the host's start() and stop();                   *)
(*   Loops    the health-loop tasks that start() creates;                  *)
(*   Runs     the connection-loop tasks that NodeContext.start() creates.  *)
(* The event loop is `ready', the FIFO queue of tasks to resume, each with *)
(* the outcome its await delivers: "go" (an awaited task ended, sleep(0)   *)
(* is over, or the task is new), "tick" (the health interval elapsed),     *)
(* "ok" or "error" (a transport operation ended) or "cancel"               *)
(* (CancelledError).  A step resumes the task at the head and runs it to   *)
(* its next await; timers, the network and the host append to the queue at *)
(* any time.  Identifiers of tasks and contexts are reused once nothing    *)
(* refers to them, as the interpreter reuses collected objects.            *)
(***************************************************************************)
EXTENDS Integers, Sequences, FiniteSets

CONSTANTS
    Callers,       \* host coroutines and the tasks of the facade
    Ops,           \* Ops[c]: the operations host coroutine c may call; {} for
                   \* a task of the facade
    Patient,       \* TRUE: the host makes one call after the other, except that
                   \* it may stop() the facade at any time
    Loops,         \* identifiers of health-loop tasks
    Runs,          \* identifiers of connection-loop tasks
    Contexts,      \* identifiers of NodeContext objects
    Components,    \* registered components that own a subscription
    Threshold,     \* config.consecutive_failure_threshold
    HealthChecks,  \* FALSE: the interval exceeds the life of the process
    None

Procs == Callers \cup Loops     \* the tasks that run gateway code
Tasks == Procs \cup Runs
Calls == {"start", "stop", "restart"}

ASSUME LifecycleAssumption ==
    /\ IsFiniteSet(Procs)
    /\ Callers \cap Loops = {} /\ Procs \cap Runs = {}
    /\ None \notin Tasks /\ None \notin Contexts /\ None \notin Calls
    /\ Contexts # {}
    /\ Ops \in [Callers -> SUBSET Calls]
    /\ Patient \in BOOLEAN
    /\ Threshold \in Nat \ {0}
    /\ HealthChecks \in BOOLEAN

VARIABLES
    running,     \* MQTTGateway._running
    healthTask,  \* MQTTGateway._health_task
    failures,    \* MQTTGateway._consecutive_failures
    context,     \* MQTTGateway._node_context
    slot,        \* slot[k]: the context of the endpoint component k holds
    reg,         \* reg[k][x]: callbacks of k registered on context x
    nc,          \* the attributes of every NodeContext
    pc,          \* where each task is suspended
    op,          \* op[p]: the operation p is executing
    target,      \* target[p]: the task p awaits, or is to await
    ncOf,        \* the NodeContext whose method the task is executing
    ready,       \* the queue of the event loop
    startTask,   \* the facade's _start_task
    asked        \* history: what the host's latest call asked for

gateway == <<running, healthTask, failures, context>>
bound   == <<slot, reg>>
frame   == <<op, target>>
vars    == <<gateway, bound, nc, pc, frame, ncOf, ready, startTask, asked>>

Results   == {"go", "tick", "ok", "error", "cancel"}
CallerPCs == {"idle", "raised", "begin", "pending", "yield", "health", "run"}
LoopPCs   == {"sleep", "yield", "health", "run", "done"}
RunPCs    == {"new", "connecting", "up", "closing", "failing",
              "unwinding", "recovering", "backoff", "done"}

NewContext == [started |-> FALSE, stopped |-> FALSE,
               connected |-> FALSE, runTask |-> None]

Init ==
    /\ running = FALSE /\ healthTask = None /\ failures = 0
    /\ context \in Contexts
    /\ slot = [k \in Components |-> None]
    /\ reg = [k \in Components |-> [x \in Contexts |-> 0]]
    /\ nc = [x \in Contexts |-> NewContext]
    /\ pc = [t \in Tasks |-> IF t \in Callers THEN "idle" ELSE "done"]
    /\ op = [p \in Procs |-> None]
    /\ target = [p \in Procs |-> None]
    /\ ncOf = [t \in Tasks |-> None]
    /\ ready = <<>>
    /\ startTask = None
    /\ asked = "down"

-----------------------------------------------------------------------------
(* The event loop.                                                         *)

Entry(t, result) == [task |-> t, result |-> result]

Queued(q, t) == \E i \in 1..Len(q) : q[i].task = t

\* Task.cancel(): CancelledError at the task's next step.  A task waiting on
\* a future is queued, a task already queued only changes what it resumes with.
Cancel(q, t) ==
    IF Queued(q, t)
    THEN [i \in 1..Len(q) |->
            IF q[i].task = t THEN Entry(t, "cancel") ELSE q[i]]
    ELSE Append(q, Entry(t, "cancel"))

\* Task t is resumed with this result.
Resumes(t, result) == ready # <<>> /\ Head(ready) = Entry(t, result)

Rest == Tail(ready)

Waiters(t) == {p \in Procs : pc[p] \in {"health", "run"} /\ target[p] = t}

Arrangements(S) ==
    {s \in [1..Cardinality(S) -> S] : \A x \in S : \E i \in DOMAIN s : s[i] = x}

\* The tasks W that awaited a task that ends are queued one after the other.
Wake(q, W) ==
    \E s \in Arrangements(W) :
        ready' = q \o [i \in DOMAIN s |-> Entry(s[i], "go")]

End(t) ==
    /\ pc' = [pc EXCEPT ![t] = "done"]
    /\ Wake(Rest, Waiters(t) \ {t})

FreeLoops ==
    {l \in Loops : pc[l] = "done" /\ healthTask # l
                   /\ \A p \in Procs : target[p] # l}

FreeRuns ==
    {r \in Runs : pc[r] = "done"
                  /\ \A p \in Procs : target[p] # r
                  /\ \A x \in Contexts : nc[x].runTask # r}

FreeContexts ==
    {x \in Contexts : /\ x # context
                      /\ \A t \in Tasks : pc[t] # "done" => ncOf[t] # x
                      /\ \A k \in Components : slot[k] # x}

-----------------------------------------------------------------------------
(* Pieces of gateway code between two awaits.  q is the queue the step     *)
(* leaves behind before it adds to it, ncs the contexts it has updated.    *)

Idle(c) == pc[c] \in {"idle", "raised"}

\* Mutant of AwaitsStart: the end of a start wakes nothing.
NobodyAwaits(p) == {}

\* A facade's stop() that awaits the pending start p.
AwaitsStart(p) == {w \in Callers : pc[w] = "pending" /\ target[w] = p}

\* The call p executes returns.  A health loop sleeps again; a task of the
\* facade ends; a host coroutine ends its step or goes on to its next call
\* without yielding.
Return(p, pcs, q) ==
    /\ target' = [target EXCEPT ![p] = None]
    /\ ncOf' = [ncOf EXCEPT ![p] = None]
    /\ \/ /\ pc' = [pcs EXCEPT ![p] = IF p \in Loops THEN "sleep" ELSE "idle"]
          /\ op' = [op EXCEPT ![p] = None]
          /\ Wake(q, AwaitsStart(p))
       \/ /\ p \in Callers
          /\ pc' = [pcs EXCEPT ![p] = "begin"]
          /\ \E o \in Ops[p] : op' = [op EXCEPT ![p] = o]
          /\ ready' = <<Entry(p, "go")>> \o q

\* NodeContext.start() of a context x that is not started, up to sleep(0).
LaunchNode(p, o, x, ncs) ==
    /\ FreeRuns # {}
    /\ LET r == CHOOSE y \in FreeRuns : TRUE
       IN  /\ nc' = [ncs EXCEPT ![x].stopped = FALSE, ![x].runTask = r]
           /\ pc' = [pc EXCEPT ![p] = "yield", ![r] = "new"]
           /\ ncOf' = [ncOf EXCEPT ![p] = x, ![r] = x]
           /\ op' = [op EXCEPT ![p] = o]
           /\ target' = [target EXCEPT ![p] = None]
           /\ ready' = Rest \o <<Entry(r, "go"), Entry(p, "go")>>

\* start() once NodeContext.start() has returned: the components bind to the
\* context that is current now (one that raises is skipped), a health loop is
\* created and _running is set.
FinishStart(p) ==
    /\ FreeLoops # {}
    /\ LET l == CHOOSE y \in FreeLoops : TRUE
       IN  /\ healthTask' = l
           /\ Return(p, [pc EXCEPT ![l] = "sleep"], Append(Rest, Entry(l, "go")))
    /\ \E started \in SUBSET Components :
          /\ slot' = [k \in Components |->
                        IF k \in started THEN context ELSE slot[k]]
          /\ reg' = [k \in Components |-> [x \in Contexts |->
                        IF k \in started /\ x = context
                        THEN reg[k][x] + 1 ELSE reg[k][x]]]
    /\ running' = TRUE
    /\ UNCHANGED <<failures, context>>

\* Mutants of StopComponents: stop() forgets a callback, or its endpoint.
KeepCallbacks == slot' = [k \in Components |-> None] /\ UNCHANGED reg
KeepSlots ==
    /\ reg' = [k \in Components |-> [x \in Contexts |->
                  IF slot[k] = x THEN reg[k][x] - 1 ELSE reg[k][x]]]
    /\ UNCHANGED slot

\* Every component stops its endpoint, on the context it was created on.
StopComponents ==
    /\ slot' = [k \in Components |-> None]
    /\ reg' = [k \in Components |-> [x \in Contexts |->
                  IF slot[k] = x THEN reg[k][x] - 1 ELSE reg[k][x]]]

\* Mutants: the next three definitions without their effect.
NotFlagged(x)    == nc
KeepHealthTask   == UNCHANGED healthTask
NothingToCancel(x) == FALSE

\* NodeContext.stop() raises the flag _run() polls between attempts.
Flagged(x) == [nc EXCEPT ![x].stopped = TRUE]
ForgetHealthTask == healthTask' = None
\* A started context has a connection loop to cancel and await.
RunToCancel(x) ==
    nc[x].started /\ nc[x].runTask # None /\ pc[nc[x].runTask] # "done"

\* What NodeContext.stop() leaves of context x, in ncs.
Down(x, ncs) ==
    [ncs EXCEPT ![x] =
        [@ EXCEPT !.runTask = None, !.connected = FALSE, !.started = FALSE]]

\* Mutant of FinishStop: restart() forgets to start again.
StopOnly(p, o, ncs) ==
    running' = FALSE /\ Return(p, pc, Rest) /\ nc' = ncs /\ UNCHANGED context

\* The end of stop(), and for restart() the new NodeContext and the first
\* segment of its start(): _running is FALSE there, so start() goes on.
FinishStop(p, o, ncs) ==
    /\ running' = FALSE
    /\ \/ /\ o = "stop"
          /\ Return(p, pc, Rest)
          /\ nc' = ncs
          /\ UNCHANGED context
       \/ /\ o = "restart"
          /\ FreeContexts # {}
          /\ LET x == CHOOSE y \in FreeContexts : TRUE
             IN  /\ context' = x
                 /\ LaunchNode(p, o, x, [ncs EXCEPT ![x] = NewContext])

\* stop() from the reset of _health_task to its next await: the components
\* stop, then NodeContext.stop() cancels the connection loop and awaits it.
StopNode(p, o) ==
    /\ ForgetHealthTask
    /\ StopComponents
    /\ \/ ~nc[context].started /\ FinishStop(p, o, nc)
       \/ /\ nc[context].started /\ ~RunToCancel(context)
          /\ FinishStop(p, o, Down(context, Flagged(context)))
       \/ /\ RunToCancel(context)
          /\ nc' = Flagged(context)
          /\ pc' = [pc EXCEPT ![p] = "run"]
          /\ op' = [op EXCEPT ![p] = o]
          /\ target' = [target EXCEPT ![p] = nc[context].runTask]
          /\ ncOf' = [ncOf EXCEPT ![p] = context]
          /\ ready' = Cancel(Rest, nc[context].runTask)
          /\ UNCHANGED <<running, context>>

\* A task that awaits itself: the interpreter refuses the await, and from then
\* on refuses every other await of that task, with a RuntimeError.
SelfAwaiting(l) == pc[l] = "health" /\ target[l] = l

\* The RuntimeError leaves the call: the host sees it, a health loop (an old one,
\* which nothing awaits) ends by it.
Raise(p) ==
    /\ op' = [op EXCEPT ![p] = None]
    /\ ready' = Cancel(Rest, healthTask)
    /\ pc' = [pc EXCEPT ![p] = IF p \in Callers THEN "raised" ELSE "done"]
    /\ UNCHANGED <<running, healthTask, context, bound, nc, target, ncOf>>

HealthTaskLive == healthTask # None /\ pc[healthTask] # "done"

\* The first segment of stop(): nothing to do, a health task to cancel and
\* await, or on to the components and the NodeContext.  A health loop that
\* restarts the gateway finds its own task here: the await of itself fails and
\* its own cancellation is what it resumes with.
StopGateway(p, o) ==
    \/ /\ ~running
       /\ FinishStop(p, o, nc)
       /\ UNCHANGED <<healthTask, bound>>
    \/ /\ running /\ HealthTaskLive /\ SelfAwaiting(healthTask)
       /\ Raise(p)
    \/ /\ running /\ HealthTaskLive /\ ~SelfAwaiting(healthTask)
       /\ pc' = [pc EXCEPT ![p] = "health"]
       /\ op' = [op EXCEPT ![p] = o]
       /\ target' = [target EXCEPT ![p] = healthTask]
       /\ ready' = Cancel(Rest, healthTask)
       /\ UNCHANGED <<running, healthTask, context, bound, nc, ncOf>>
    \/ /\ running /\ ~HealthTaskLive
       /\ StopNode(p, o)

-----------------------------------------------------------------------------
(* Steps of the tasks that run gateway code.                               *)

\* The steps in flight need at most one free identifier of each kind apiece.
\* This bounds the instance: no new work arrives while identifiers are scarce.
Busy == {p \in Procs : pc[p] \notin {"idle", "raised", "sleep", "done"}}
           \cup {p \in Loops : pc[p] = "sleep" /\ Queued(ready, p)}
Room == /\ Cardinality(Busy) < Cardinality(FreeLoops)
        /\ Cardinality(Busy) < Cardinality(FreeRuns)
        /\ Cardinality(Busy) < Cardinality(FreeContexts)

Quiet == \A c \in Callers : Idle(c)

\* A new task p executes operation o, once it has awaited task t.
Spawn(p, o, t) ==
    /\ pc' = [pc EXCEPT ![p] = "begin"]
    /\ op' = [op EXCEPT ![p] = o]
    /\ target' = [target EXCEPT ![p] = t]
    /\ ready' = Append(ready, Entry(p, "go"))
    /\ UNCHANGED <<gateway, bound, nc, ncOf, asked>>

\* The host calls an operation of the gateway from a coroutine.
Call(p) ==
    /\ Idle(p) /\ Room /\ (Patient => Quiet)
    /\ \E o \in Ops[p] : Spawn(p, o, None)
    /\ UNCHANGED startTask

\* Identifiers of facade tasks that nothing refers to.
FreeTasks ==
    {c \in Callers : /\ Ops[c] = {} /\ Idle(c) /\ startTask # c
                     /\ \A p \in Procs : target[p] # c}

\* start() of the facade: a task for the gateway's start(), remembered.
FacadeStart(p) ==
    /\ FreeTasks # {} /\ p = CHOOSE c \in FreeTasks : TRUE
    /\ Room /\ (Patient => Quiet)
    /\ Spawn(p, "start", None)
    /\ startTask' = p

\* stop() of the facade: a task that is handed the remembered start.
FacadeStop(p) ==
    /\ FreeTasks # {} /\ p = CHOOSE c \in FreeTasks : TRUE
    /\ Patient => \A c \in Callers : Ops[c] # {} => Idle(c)
    /\ Spawn(p, "stop", startTask)
    /\ startTask' = None

\* Mutant of StartPending: stop() does not look at the start it was handed.
NoStartPending(p) == FALSE

\* The start that stop() was handed is not over.
StartPending(p) == target[p] \in Callers /\ ~Idle(target[p])

\* _stop_after(): a pending start is awaited.
AwaitStart(p) ==
    /\ Resumes(p, "go") /\ pc[p] = "begin" /\ StartPending(p)
    /\ pc' = [pc EXCEPT ![p] = "pending"]
    /\ ready' = Rest
    /\ asked' = "down"
    /\ UNCHANGED <<gateway, bound, nc, frame, ncOf>>

BeginStart(p) ==
    /\ Resumes(p, "go") /\ pc[p] = "begin" /\ op[p] = "start"
    /\ asked' = "up"
    /\ \/ /\ running
          /\ Return(p, pc, Rest)
          /\ UNCHANGED <<gateway, bound, nc>>
       \/ /\ ~running /\ nc[context].started
          /\ FinishStart(p)
          /\ UNCHANGED nc
       \/ /\ ~running /\ ~nc[context].started
          /\ LaunchNode(p, "start", context, nc)
          /\ UNCHANGED <<gateway, bound>>

BeginStop(p) ==
    /\ Resumes(p, "go") /\ op[p] # "start"
    /\ \/ /\ pc[p] = "begin" /\ ~StartPending(p)
          /\ asked' = IF op[p] = "stop" THEN "down" ELSE "up"
       \/ pc[p] = "pending" /\ UNCHANGED asked
    /\ StopGateway(p, op[p])
    /\ UNCHANGED failures

\* sleep(0) of NodeContext.start() is over.
ResumeStart(p) ==
    /\ Resumes(p, "go") /\ pc[p] = "yield"
    /\ nc' = [nc EXCEPT ![ncOf[p]].started = TRUE]
    /\ FinishStart(p)
    /\ UNCHANGED asked

\* The cancelled health task ended, or the task awaited itself.
ResumeStopAfterHealth(p) ==
    /\ Resumes(p, "go") \/ Resumes(p, "cancel")
    /\ pc[p] = "health"
    /\ StopNode(p, op[p])
    /\ UNCHANGED <<failures, asked>>

\* The cancelled connection loop ended.
ResumeStopAfterRun(p) ==
    /\ Resumes(p, "go") /\ pc[p] = "run"
    /\ FinishStop(p, op[p], Down(ncOf[p], nc))
    /\ UNCHANGED <<healthTask, failures, bound, asked>>

-----------------------------------------------------------------------------
(* Steps of the health loops.                                              *)

\* The health interval of a sleeping loop elapses.
Tick(l) ==
    /\ HealthChecks /\ pc[l] = "sleep" /\ ~Queued(ready, l) /\ Room
    /\ ready' = Append(ready, Entry(l, "tick"))
    /\ UNCHANGED <<gateway, bound, nc, pc, frame, ncOf, startTask, asked>>

\* A new loop runs to its first sleep.
LoopStarts(l) ==
    /\ Resumes(l, "go") /\ pc[l] = "sleep"
    /\ ready' = Rest
    /\ UNCHANGED <<gateway, bound, nc, pc, frame, ncOf, asked>>

\* Mutant of AtThreshold: one failure too many is tolerated.
PastThreshold == failures + 1 > Threshold

AtThreshold == failures + 1 >= Threshold

\* is_healthy() of the gateway asks its current NodeContext.
IsHealthy == nc[context].connected

CheckHealth(l) ==
    /\ Resumes(l, "tick") /\ pc[l] = "sleep"
    /\ \/ /\ IsHealthy
          /\ failures' = 0 /\ ready' = Rest
          /\ UNCHANGED <<running, healthTask, context, bound, nc, pc, frame, ncOf>>
       \/ /\ ~IsHealthy /\ ~AtThreshold
          /\ failures' = failures + 1 /\ ready' = Rest
          /\ UNCHANGED <<running, healthTask, context, bound, nc, pc, frame, ncOf>>
       \/ /\ ~IsHealthy /\ AtThreshold
          /\ failures' = 0
          /\ StopGateway(l, "restart")
    /\ UNCHANGED asked

LoopCancelled(l) ==
    /\ Resumes(l, "cancel") /\ pc[l] = "sleep"
    /\ End(l)
    /\ UNCHANGED <<gateway, bound, nc, frame, ncOf, asked>>

-----------------------------------------------------------------------------
(* NodeContext._run(): connect, serve, tear down, wait, reconnect.         *)

\* What connection loop r awaits completes, well or with an MqttError.
TransportEvent(r) ==
    /\ ~Queued(ready, r)
    /\ \E result \in {"ok", "error"} :
          /\ \/ pc[r] \in {"connecting", "closing", "failing"}
             \/ pc[r] = "up" /\ result = "error"
             \/ pc[r] \in {"unwinding", "recovering", "backoff"} /\ result = "ok"
          /\ ready' = Append(ready, Entry(r, result))
    /\ UNCHANGED <<gateway, bound, nc, pc, frame, ncOf, startTask, asked>>

RunGoes(r, next) == pc' = [pc EXCEPT ![r] = next] /\ ready' = Rest

\* The head of the while loop.
LoopHead(r) ==
    \/ nc[ncOf[r]].stopped /\ End(r)
    \/ ~nc[ncOf[r]].stopped /\ RunGoes(r, "connecting")

\* After the try statement: leave, or sleep before the next attempt.
NextAttempt(r) ==
    \/ nc[ncOf[r]].stopped /\ End(r)
    \/ ~nc[ncOf[r]].stopped /\ RunGoes(r, "backoff")

\* Mutant of SetConnected: the finally clause does not reset _connected.
SetOnly(r, b) == nc' = IF b THEN [nc EXCEPT ![ncOf[r]].connected = TRUE] ELSE nc

SetConnected(r, b) == nc' = [nc EXCEPT ![ncOf[r]].connected = b]

\* _run() resumes normally: the client connects, the connection is served and
\* torn down by __aexit__, and the finally clause gathers the two tasks.
\* _connected is reset only when __aexit__ is over.
RunStep(r) ==
    \/ /\ pc[r] = "new" /\ Resumes(r, "go") /\ LoopHead(r) /\ UNCHANGED nc
    \/ /\ pc[r] = "connecting" /\ Resumes(r, "ok")
       /\ RunGoes(r, "up") /\ SetConnected(r, TRUE)
    \/ /\ pc[r] = "connecting" /\ Resumes(r, "error")
       /\ NextAttempt(r) /\ SetConnected(r, FALSE)
    \/ /\ pc[r] = "up" /\ Resumes(r, "error")
       /\ RunGoes(r, "failing") /\ UNCHANGED nc
    \/ /\ pc[r] = "up" /\ Resumes(r, "error")   \* already disconnected
       /\ RunGoes(r, "recovering") /\ SetConnected(r, FALSE)
    \/ /\ pc[r] = "closing" /\ Resumes(r, "ok")
       /\ RunGoes(r, "unwinding") /\ SetConnected(r, FALSE)
    \/ /\ \/ pc[r] = "closing" /\ Resumes(r, "error")
          \/ pc[r] = "failing" /\ (Resumes(r, "ok") \/ Resumes(r, "error"))
       /\ RunGoes(r, "recovering") /\ SetConnected(r, FALSE)
    \/ /\ pc[r] = "unwinding" /\ Resumes(r, "ok") /\ End(r) /\ UNCHANGED nc
    \/ /\ pc[r] = "recovering" /\ Resumes(r, "ok") /\ NextAttempt(r) /\ UNCHANGED nc
    \/ /\ pc[r] = "backoff" /\ Resumes(r, "ok") /\ LoopHead(r) /\ UNCHANGED nc

\* _run() resumes with CancelledError.
RunCancelled(r) ==
    /\ Resumes(r, "cancel")
    /\ \/ pc[r] = "new" /\ End(r) /\ UNCHANGED nc
       \/ pc[r] = "connecting" /\ End(r) /\ SetConnected(r, FALSE)
       \/ pc[r] = "up" /\ RunGoes(r, "closing") /\ UNCHANGED nc
       \/ /\ pc[r] \in {"closing", "failing"}
          /\ RunGoes(r, "unwinding") /\ SetConnected(r, FALSE)
       \/ pc[r] \in {"unwinding", "recovering", "backoff"} /\ End(r) /\ UNCHANGED nc

RunTask(r) ==
    /\ RunStep(r) \/ RunCancelled(r)
    /\ UNCHANGED <<gateway, bound, frame, ncOf, asked>>

-----------------------------------------------------------------------------
HostCall(c) == Call(c) \/ FacadeStart(c) \/ FacadeStop(c)

GatewayStep(p) ==
    \/ AwaitStart(p) \/ BeginStart(p) \/ BeginStop(p) \/ ResumeStart(p)
    \/ ResumeStopAfterHealth(p) \/ ResumeStopAfterRun(p)
HealthStep(l) == LoopStarts(l) \/ CheckHealth(l) \/ LoopCancelled(l)

\* The event loop resumes the task at the head of its queue.
Step ==
    /\ \/ \E p \in Procs : GatewayStep(p)
       \/ \E l \in Loops : HealthStep(l)
       \/ \E r \in Runs : RunTask(r)
    /\ UNCHANGED startTask

Next ==
    \/ Step
    \/ \E c \in Callers : HostCall(c)
    \/ \E l \in Loops : Tick(l)
    \/ \E r \in Runs : TransportEvent(r)

Spec == Init /\ [][Next]_vars

\* The event loop keeps running.  Disconnecting and gathering cancelled tasks
\* take bounded time (aiomqtt bounds the former by a timeout).  Nothing makes
\* the host call, the broker answer or a timer win a race.
Fairness ==
    /\ WF_vars(Step)
    /\ \A r \in Runs :
          WF_vars(/\ pc[r] \in {"closing", "failing", "unwinding", "recovering"}
                  /\ TransportEvent(r))
FairSpec == Spec /\ Fairness

-----------------------------------------------------------------------------
(* Properties.                                                             *)

NodeTypes  == [started : BOOLEAN, stopped : BOOLEAN, connected : BOOLEAN,
               runTask : Runs \cup {None}]
PCs        == CallerPCs \cup LoopPCs \cup RunPCs
Entries    == [task : Tasks, result : Results]

\* Type invariant of the gateway, its tasks and the event loop's queue.  The
\* failure counter stays below the threshold between two health checks.
TypeOK ==
    /\ running \in BOOLEAN
    /\ healthTask \in Loops \cup {None}
    /\ failures \in 0 .. Threshold - 1
    /\ context \in Contexts
    /\ slot \in [Components -> Contexts \cup {None}]
    /\ reg \in [Components -> [Contexts -> Int]]
    /\ nc \in [Contexts -> NodeTypes]
    /\ pc \in [Tasks -> PCs]
    /\ op \in [Procs -> Calls \cup {None}]
    /\ target \in [Procs -> Tasks \cup {None}]
    /\ ncOf \in [Tasks -> Contexts \cup {None}]
    /\ ready \in Seq(Entries)
    /\ startTask \in Callers \cup {None}
    /\ asked \in {"up", "down"}

Live == {r \in Runs : pc[r] # "done"}

\* A health loop that goes on to its next check.
Watching(l) ==
    pc[l] = "sleep" /\ \A i \in 1..Len(ready) : ready[i] # Entry(l, "cancel")

\* is_healthy() is honest: a context that reports a connection has a connection
\* loop that is connected or still closing its connection (node_context.py
\* _connected, read by the health loop and by MQTTGateway.health).
HealthIsHonest ==
    \A x \in Contexts : nc[x].connected =>
        \E r \in Runs : ncOf[r] = x /\ pc[r] \in {"up", "closing", "failing"}

\* stop() is final: when no call is in progress and the latest one was stop(),
\* the gateway is down and has no connection loop and no health loop left.
StopIsFinal ==
    (Quiet /\ asked = "down") =>
        /\ ~running
        /\ Live = {}
        /\ \A l \in Loops : pc[l] = "done"

\* start() and restart() hold: when no call is in progress and the latest one
\* was not stop(), the gateway runs, its health task is alive, and every health
\* loop of an earlier start is over.
StartHolds ==
    (Quiet /\ asked = "up") =>
        /\ running
        /\ healthTask # None /\ pc[healthTask] # "done"
        /\ \A l \in Loops : pc[l] # "done" => l = healthTask

\* A stopped gateway stays down: once stop() has returned no health loop brings
\* the gateway back.
StaysDown ==
    (asked = "down" /\ \A c \in Callers : pc[c] = "idle") => ~running

\* No lifecycle call raises.
NeverRaises == \A c \in Callers : pc[c] # "raised"

\* One connection: the only connection loop alive is the one the current
\* context would cancel, so stop() and restart() leave no stray client behind.
OneConnection ==
    \A r \in Live : nc[context].runTask = r /\ ncOf[r] = context

\* One watchdog: a health loop that stop() cancelled exits (gateway.py:141), so
\* never two of them sleep until their next check.
OneHealthLoop ==
    \A l, m \in Loops : Watching(l) /\ Watching(m) => l = m

\* Across restarts every component is bound at most once, and while the gateway
\* runs only to the context that is connected to the broker.
BoundOnce ==
    \A k \in Components, x \in Contexts :
        reg[k][x] = IF slot[k] = x THEN 1 ELSE 0

\* A component never holds an endpoint of a context restart() has replaced.
BoundToCurrent ==
    \A k \in Components : slot[k] \in {None, context}

\* A running gateway only ever cancels a health task that sleeps or that is
\* the canceller itself: no other await of the loop is ever interrupted.
TrackedLoopSleeps ==
    (running /\ healthTask # None) =>
        \/ pc[healthTask] \in {"sleep", "done"}
        \/ SelfAwaiting(healthTask)

\* A connection loop that stop() awaits is on its way out and never goes back
\* to waiting for the broker, even when __aexit__ replaces the cancellation.
AwaitedRunEnds ==
    \A p \in Procs : pc[p] = "run" =>
        \/ pc[target[p]] \in {"closing", "unwinding", "done"}
              /\ (pc[target[p]] = "closing" => nc[ncOf[p]].stopped)
        \/ pc[target[p]] = "recovering" /\ nc[ncOf[p]].stopped
        \/ \E i \in 1..Len(ready) : ready[i] = Entry(target[p], "cancel")

\* Every call of the lifecycle API returns or raises: none waits for ever.
CallsReturn == \A c \in Callers : []<>(pc[c] \in {"idle", "raised", "begin"})
=============================================================================
