------------------------------ MODULE Commands ------------------------------
(***************************************************************************)
(* Remote commands: NodeContext._dispatch_rpc (_commlib/node_context.py)   *)
(* looks a request up on the event loop, RPCService                        *)
(* (_commlib/wrappers/rpc_service.py) runs its handler on one of the       *)
(* service's own worker threads, and MQTTCommands (gateway/commands.py)    *)
(* calls the app, either in the worker or as a coroutine on the app's event *)
(* loop under two timeouts: wait_for() on that loop, and result() in the   *)
(* worker, which expires even if that loop is stuck.                       *)
(***************************************************************************)
EXTENDS Naturals, Sequences, FiniteSets

CONSTANTS
    CommandTopics,  \* the command topics
    Hanging,        \* those whose call into the app may never return
    Requests,       \* messages that arrive on command topics
    StatusTopic,    \* the topic of the status command
    Probes,         \* status requests with async_backend set
    Workers,        \* max_workers of a service
    MaxStarts,      \* bound on the starts of the services
    None

ASSUME CommandsAssumption ==
    /\ Hanging \subseteq CommandTopics
    /\ StatusTopic \in CommandTopics /\ Probes \subseteq Requests
    /\ IsFiniteSet(Requests)
    /\ Workers \in Nat \ {0} /\ MaxStarts \in Nat
    /\ None \notin CommandTopics

VARIABLES
    table,    \* keys of NodeContext._command_table
    closing,  \* command whose service has left the table and is in the middle
              \* of its stop(), or None
    starts,   \* how often the services were started; each has new executors
    context,  \* the start that created the current NodeContext
    queue,    \* queue[c]: work queue of the executor of command c
    stage,    \* what has become of each request in its service
    cmd,      \* the command topic of a request
    born,     \* the start whose services accepted the request
    work,     \* the request's coroutine on the app's event loop
    answer,   \* status of the response the handler returned
    performed,  \* history: how often a request's operation took effect
    sent      \* history: replies enqueued on a NodeContext then current

service == <<table, closing, starts, context>>
request == <<cmd, born>>
vars    == <<service, queue, stage, request, work, answer, performed, sent>>

Init ==
    /\ table = {} /\ closing = None /\ starts = 0 /\ context = 0
    /\ queue = [c \in CommandTopics |-> <<>>]
    /\ stage = [r \in Requests |-> "new"]
    /\ cmd = [r \in Requests |-> None] /\ born = [r \in Requests |-> 0]
    /\ work = [r \in Requests |-> "none"]
    /\ answer = [r \in Requests |-> None]
    /\ performed = [r \in Requests |-> 0]
    /\ sent = {}

-----------------------------------------------------------------------------
(* The gateway starts and stops the component MQTTCommands.                *)

\* MQTTCommands.stop() is at work: it holds the event loop from the first
\* service to the last, while the worker threads run.
Stopping == closing # None \/ table \notin {{}, CommandTopics}

\* After a restart() the services belong to a new NodeContext; after stop()
\* and start() to the same one.
StartServices ==
    /\ table = {} /\ ~Stopping /\ starts < MaxStarts
    /\ table' = CommandTopics
    /\ starts' = starts + 1
    /\ context' \in {context, starts + 1}
    /\ UNCHANGED <<closing, queue, stage, request, work, answer, performed, sent>>

\* _do_stop(): the service leaves the table, then its executor shuts down.
StopService(c) ==
    /\ c \in table /\ closing = None
    /\ table' = table \ {c} /\ closing' = c
    /\ UNCHANGED <<starts, context, queue, stage, request, work, answer, performed, sent>>

\* shutdown(cancel_futures=True) cancels one queued item after the other; until
\* it comes to an item, a worker may take it.  What runs goes on.
CancelQueued(r) ==
    /\ closing # None /\ queue[closing] # <<>> /\ r = Head(queue[closing])
    /\ queue' = [queue EXCEPT ![closing] = Tail(@)]
    /\ stage' = [stage EXCEPT ![r] = "cancelled"]
    /\ cmd' = [cmd EXCEPT ![r] = None] /\ born' = [born EXCEPT ![r] = 0]
    /\ UNCHANGED <<service, work, answer, performed, sent>>

\* Mutant of ShutDown: the executor shuts down without cancel_futures.
LetQueueRun ==
    /\ closing # None
    /\ closing' = None
    /\ UNCHANGED <<table, starts, context, queue, stage, request, work, answer, performed, sent>>

\* shutdown() found the queue empty, and _do_stop() returns.
ShutDown ==
    /\ closing # None /\ queue[closing] = <<>>
    /\ closing' = None
    /\ UNCHANGED <<table, starts, context, queue, stage, request, work, answer, performed, sent>>

-----------------------------------------------------------------------------
(* _dispatch_rpc(), on the event loop.                                     *)

Dispatch(r, c) ==
    /\ ~Stopping /\ stage[r] = "new" /\ c \in table
    /\ r \in Probes => c = StatusTopic
    /\ stage' = [stage EXCEPT ![r] = "queued"]
    /\ cmd' = [cmd EXCEPT ![r] = c] /\ born' = [born EXCEPT ![r] = starts]
    /\ queue' = [queue EXCEPT ![c] = Append(@, r)]
    /\ UNCHANGED <<service, work, answer, performed, sent>>

\* The request does not fit its message type, or nothing serves the topic.
Reject(r) ==
    /\ ~Stopping /\ stage[r] = "new"
    /\ stage' = [stage EXCEPT ![r] = "cancelled"]
    /\ UNCHANGED <<service, queue, request, work, answer, performed, sent>>

-----------------------------------------------------------------------------
(* The worker threads of the services.                                     *)

Executing == {r \in Requests : stage[r] \in {"running", "waiting"}}

\* Mutant of BusyWorkers: all services share one executor.
AllBusy(c, s) == {r \in Executing : born[r] = s}

\* The requests on the workers of the executor that start s gave command c.
BusyWorkers(c, s) == {r \in Executing : cmd[r] = c /\ born[r] = s}

\* Mutant of Take: the work item stays in the queue.
PeekOnly(c) ==
    /\ queue[c] # <<>>
    /\ LET r == Head(queue[c])
       IN  /\ Cardinality(BusyWorkers(c, born[r])) < Workers
           /\ stage' = [stage EXCEPT ![r] = "running"]
    /\ UNCHANGED <<service, queue, request, work, answer, performed, sent>>

Take(c) ==
    /\ queue[c] # <<>>
    /\ LET r == Head(queue[c])
       IN  /\ Cardinality(BusyWorkers(c, born[r])) < Workers
           /\ stage' = [stage EXCEPT ![r] = "running"]
    /\ queue' = [queue EXCEPT ![c] = Tail(@)]
    /\ UNCHANGED <<service, request, work, answer, performed, sent>>

\* The handler returns a response, which _on_rpc_future_done() enqueues on the
\* context the request came from, unless the request names no reply topic or
\* the response cannot be serialized; the executor forgets the request.
Finish(r, a) ==
    /\ stage' = [stage EXCEPT ![r] = "ended"]
    /\ answer' = [answer EXCEPT ![r] = a]
    /\ \/ UNCHANGED sent
       \/ born[r] >= context /\ sent' = sent \cup {r}
    /\ cmd' = [cmd EXCEPT ![r] = None] /\ born' = [born EXCEPT ![r] = 0]
    /\ UNCHANGED <<service, queue>>

Performs(r) == performed' = [performed EXCEPT ![r] = @ + 1]

\* _handle_status() with async_backend: success, and the app is not called.
Acknowledge(r) ==
    /\ stage[r] = "running" /\ r \in Probes
    /\ Finish(r, "success")
    /\ UNCHANGED <<work, performed>>

\* The handler calls the app in the worker thread: an exception, before, in or
\* after the operation, is an error.
CallApp(r) ==
    /\ stage[r] = "running" /\ r \notin Probes
    /\ \/ Performs(r) /\ Finish(r, "success")
       \/ (Performs(r) \/ UNCHANGED performed) /\ Finish(r, "error")
    /\ UNCHANGED work

\* Mutant of Submit: _call_async() does not wait for the result.
SubmitOnly(r) ==
    /\ stage[r] = "running" /\ r \notin Probes
    /\ work' = [work EXCEPT ![r] = "scheduled"]
    /\ Finish(r, "success")
    /\ UNCHANGED performed

\* _call_async(): the coroutine is scheduled and the worker waits.
Submit(r) ==
    /\ stage[r] = "running" /\ r \notin Probes
    /\ stage' = [stage EXCEPT ![r] = "waiting"]
    /\ work' = [work EXCEPT ![r] = "scheduled"]
    /\ UNCHANGED <<service, queue, request, answer, performed, sent>>

Reported == [done |-> "success", failed |-> "error"]

Resume(r) ==
    /\ stage[r] = "waiting" /\ work[r] \in DOMAIN Reported
    /\ Finish(r, Reported[work[r]])
    /\ work' = [work EXCEPT ![r] = "none"]
    /\ UNCHANGED performed

\* Mutant of GiveUp: result() is called without a timeout.
WaitForever(r) == FALSE /\ UNCHANGED vars

\* The worker's own timeout: the coroutine is left to itself.
GiveUp(r) ==
    /\ stage[r] = "waiting"
    /\ work[r] \notin DOMAIN Reported
    /\ Finish(r, "error")
    /\ UNCHANGED <<work, performed>>

-----------------------------------------------------------------------------
(* The app's event loop.                                                   *)

LoopBegins(r) ==
    /\ work[r] = "scheduled"
    /\ work' = [work EXCEPT ![r] = "running"]
    /\ UNCHANGED <<service, queue, stage, request, answer, performed, sent>>

\* The coroutine returns, raises, or is cancelled by wait_for() when it is late;
\* the outcome of one that is no longer waited for goes nowhere.
Delivers(r, w) ==
    work' = [work EXCEPT ![r] = IF stage[r] = "waiting" THEN w ELSE "none"]

LoopEnds(r) ==
    /\ work[r] = "running"
    /\ \/ Delivers(r, "done") /\ Performs(r)
       \/ Delivers(r, "failed") /\ (Performs(r) \/ UNCHANGED performed)
    /\ UNCHANGED <<service, queue, stage, request, answer, sent>>

-----------------------------------------------------------------------------
Handle(r) == Acknowledge(r) \/ CallApp(r) \/ Submit(r)
Leave(r)  == Resume(r) \/ GiveUp(r)

Next ==
    \/ StartServices \/ ShutDown
    \/ \E r \in Requests, c \in CommandTopics : Dispatch(r, c)
    \/ \E c \in CommandTopics : StopService(c) \/ Take(c)
    \/ \E r \in Requests :
          CancelQueued(r) \/ Reject(r) \/ Handle(r) \/ Leave(r) \/ LoopBegins(r) \/ LoopEnds(r)

Spec == Init /\ [][Next]_vars

\* Worker threads run, and a timeout expires.  The app's calls return, except
\* those of the hanging commands; its event loop need not ever run again.
FairSpec ==
    /\ Spec
    /\ \A c \in CommandTopics : WF_vars(Take(c))
    /\ \A r \in Requests :
          /\ WF_vars(cmd[r] \notin Hanging /\ Handle(r))
          /\ WF_vars(Leave(r))

-----------------------------------------------------------------------------
(* Properties.                                                             *)

\* Type invariant; the queue of a command holds exactly its queued requests.
TypeOK ==
    /\ table \subseteq CommandTopics
    /\ closing \in {None} \cup (CommandTopics \ table)
    /\ starts \in 0..MaxStarts /\ context \in 0..starts
    /\ queue \in [CommandTopics -> Seq(Requests)]
    /\ stage \in [Requests -> {"new", "queued", "running", "waiting", "ended",
                               "cancelled"}]
    /\ cmd \in [Requests -> CommandTopics \cup {None}]
    /\ born \in [Requests -> 0..starts]
    /\ work \in [Requests -> {"none", "scheduled", "running"} \cup DOMAIN Reported]
    /\ \A c \in CommandTopics :
          {queue[c][i] : i \in DOMAIN queue[c]} =
              {r \in Requests : stage[r] = "queued" /\ cmd[r] = c}
    /\ answer \in [Requests -> {None, "success", "error"}]
    /\ performed \in [Requests -> {0, 1}]
    /\ sent \subseteq Requests

\* A success is reported only of what took effect, or of a status request that
\* asks for nothing; nothing dropped ever takes effect, a probe never does, and
\* nothing takes effect twice (commands.py, the eight handlers).
Call == INSTANCE RemoteCall WITH
    heard <- sent,
    status <- [r \in Requests |->
        CASE stage[r] = "new" -> "none"
          [] stage[r] = "cancelled" -> "dropped"
          [] stage[r] \in {"queued", "running", "waiting"} -> "accepted"
          [] stage[r] = "ended" /\ answer[r] = "success" -> "succeeded"
          [] stage[r] = "ended" /\ answer[r] # "success" -> "failed"]
ImplementsRemoteCall == Call!Spec

\* No handler starts once stop() of its service has returned, in this start or a
\* later one: a request still queued then is dropped.  Up to then a worker may
\* take it, and a handler that has started goes on and calls the app
\* (rpc_service.py, _do_stop).
StopRunsNoMore ==
    [][\A r \in Requests :
          (stage[r] = "queued" /\ stage'[r] = "running")
              => cmd[r] \in table \cup {closing} /\ born[r] = starts]_vars

\* Isolation: a request of a command whose calls return leaves its service,
\* though the calls of other commands hang and the app's event loop is stuck
\* (rpc_service.py:22, one slow handler cannot starve other services).
Isolated ==
    \A r \in Requests :
        (stage[r] = "queued" /\ cmd[r] \notin Hanging)
            ~> stage[r] \in {"ended", "cancelled"}

\* A worker that waits for the app is never lost to its service: it comes back
\* even if the app's event loop has stopped (commands.py:124).
WorkersReturn ==
    \A r \in Requests : stage[r] = "waiting" ~> stage[r] = "ended"
=============================================================================
