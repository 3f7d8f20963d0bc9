----------------------- MODULE GatewayLifecycleProofs -----------------------
(***************************************************************************)
(* Proofs about GatewayLifecycle for any number of callers, health loops,  *)
(* connection loops, contexts and components, any threshold, and callers   *)
(* that interleave their calls in any way.                                 *)
(***************************************************************************)
EXTENDS GatewayLifecycle, FiniteSetTheorems, TLAPS

-----------------------------------------------------------------------------
(* The queue of the event loop stays a sequence of entries.                *)

LEMMA FunctionIsSeq ==
    ASSUME NEW n \in Nat, NEW S, NEW f \in [1..n -> S]
    PROVE  f \in Seq(S)
OBVIOUS

LEMMA ConsIsSeq ==
    ASSUME NEW S, NEW e \in S, NEW q \in Seq(S)
    PROVE  <<e>> \o q \in Seq(S)
OBVIOUS

LEMMA CancelType ==
    ASSUME NEW q \in Seq(Entries), NEW t \in Tasks
    PROVE  Cancel(q, t) \in Seq(Entries)
<1>1. Entry(t, "cancel") \in Entries
  BY DEF Entry, Entries, Results
<1>2. CASE Queued(q, t)
  <2>1. Cancel(q, t) = [i \in 1..Len(q) |->
                          IF q[i].task = t THEN Entry(t, "cancel") ELSE q[i]]
    BY <1>2 DEF Cancel
  <2>2. \A i \in 1..Len(q) : q[i] \in Entries
    OBVIOUS
  <2> QED
    BY <1>1, <2>1, <2>2
<1>3. CASE ~Queued(q, t)
  BY <1>1, <1>3 DEF Cancel
<1> QED
  BY <1>2, <1>3

LEMMA RestType ==
    ASSUME TypeOK, NEW t, NEW result, Resumes(t, result)
    PROVE  Rest \in Seq(Entries)
BY DEF TypeOK, Resumes, Rest

LEMMA WakeType ==
    ASSUME LifecycleAssumption, NEW q \in Seq(Entries), NEW W \in SUBSET Procs,
           Wake(q, W)
    PROVE  ready' \in Seq(Entries)
<1>1. PICK s \in Arrangements(W) :
         ready' = q \o [i \in DOMAIN s |-> Entry(s[i], "go")]
  BY DEF Wake
<1>2. IsFiniteSet(W) /\ Cardinality(W) \in Nat
  BY FS_Subset, FS_CardinalityType DEF LifecycleAssumption
<1>3. s \in [1..Cardinality(W) -> W]
  BY DEF Arrangements
<1>4. [i \in DOMAIN s |-> Entry(s[i], "go")] \in Seq(Entries)
  <2>1. DOMAIN s = 1..Cardinality(W)
    BY <1>3
  <2>2. \A i \in DOMAIN s : Entry(s[i], "go") \in Entries
    BY <1>3 DEF Entry, Entries, Results, Tasks
  <2>3. [i \in DOMAIN s |-> Entry(s[i], "go")] \in [1..Cardinality(W) -> Entries]
    BY <2>1, <2>2
  <2> QED
    BY <1>2, <2>3, FunctionIsSeq
<1> QED
  BY <1>1, <1>4

LEMMA MoveType ==
    ASSUME TypeOK, NEW t, NEW s \in PCs
    PROVE  [pc EXCEPT ![t] = s] \in [Tasks -> PCs]
BY DEF TypeOK

LEMMA PCValues == CallerPCs \subseteq PCs /\ LoopPCs \subseteq PCs /\ RunPCs \subseteq PCs
BY DEF PCs

LEMMA EndType ==
    ASSUME LifecycleAssumption, TypeOK, NEW t \in Tasks, End(t),
           Rest \in Seq(Entries)
    PROVE  pc' \in [Tasks -> PCs] /\ ready' \in Seq(Entries)
<1>1. pc' \in [Tasks -> PCs]
  BY DEF TypeOK, End, PCs, RunPCs
<1>2. Waiters(t) \ {t} \in SUBSET Procs /\ Wake(Rest, Waiters(t) \ {t})
  BY DEF End, Waiters
<1>3. ready' \in Seq(Entries)
  BY <1>2, WakeType
<1> QED
  BY <1>1, <1>3

-----------------------------------------------------------------------------
(* The pieces of code keep the types of the variables they set.            *)

LEMMA GoEntry ==
    ASSUME NEW t \in Tasks
    PROVE  Entry(t, "go") \in Entries
BY DEF Entry, Entries, Results

LEMMA ReturnType ==
    ASSUME LifecycleAssumption, TypeOK, NEW p \in Procs,
           NEW pcs \in [Tasks -> PCs], NEW q \in Seq(Entries), Return(p, pcs, q)
    PROVE  /\ pc' \in [Tasks -> PCs]
           /\ op' \in [Procs -> Calls \cup {None}]
           /\ target' \in [Procs -> Tasks \cup {None}]
           /\ ncOf' \in [Tasks -> Contexts \cup {None}]
           /\ ready' \in Seq(Entries)
<1>1. target' \in [Procs -> Tasks \cup {None}]
  BY DEF Return, TypeOK
<1>2. ncOf' \in [Tasks -> Contexts \cup {None}]
  BY DEF Return, TypeOK
<1>3. pc' \in [Tasks -> PCs]
  BY DEF Return, PCs, CallerPCs, LoopPCs
<1>4. op' \in [Procs -> Calls \cup {None}]
  <2>1. CASE op' = [op EXCEPT ![p] = None]
    BY <2>1 DEF TypeOK
  <2>2. CASE p \in Callers /\ \E o \in Ops[p] : op' = [op EXCEPT ![p] = o]
    <3>1. PICK o \in Ops[p] : op' = [op EXCEPT ![p] = o]
      BY <2>2
    <3>2. o \in Calls
      BY <2>2, <3>1 DEF LifecycleAssumption
    <3> QED
      BY <3>1, <3>2 DEF TypeOK
  <2> QED
    BY <2>1, <2>2 DEF Return
<1>5. ready' \in Seq(Entries)
  <2>1. Entry(p, "go") \in Entries
    BY GoEntry DEF Tasks
  <2>2. <<Entry(p, "go")>> \o q \in Seq(Entries)
    BY <2>1, ConsIsSeq
  <2>3. CASE Wake(q, AwaitsStart(p))
    <3>1. AwaitsStart(p) \in SUBSET Procs
      BY DEF AwaitsStart, Procs
    <3> QED
      BY <2>3, <3>1, WakeType
  <2> QED
    BY <2>2, <2>3 DEF Return
<1> QED
  BY <1>1, <1>2, <1>3, <1>4, <1>5

LEMMA LaunchType ==
    ASSUME LifecycleAssumption, TypeOK, NEW p \in Procs, NEW o \in Calls \cup {None},
           NEW x \in Contexts, NEW ncs \in [Contexts -> NodeTypes],
           Rest \in Seq(Entries), LaunchNode(p, o, x, ncs)
    PROVE  /\ nc' \in [Contexts -> NodeTypes]
           /\ pc' \in [Tasks -> PCs]
           /\ op' \in [Procs -> Calls \cup {None}]
           /\ target' \in [Procs -> Tasks \cup {None}]
           /\ ncOf' \in [Tasks -> Contexts \cup {None}]
           /\ ready' \in Seq(Entries)
<1> DEFINE r == CHOOSE y \in FreeRuns : TRUE
<1>1. r \in FreeRuns /\ r \in Runs
  BY DEF LaunchNode, FreeRuns
<1> HIDE DEF r
<1>2. /\ nc' = [ncs EXCEPT ![x].stopped = FALSE, ![x].runTask = r]
      /\ pc' = [pc EXCEPT ![p] = "yield", ![r] = "new"]
      /\ ncOf' = [ncOf EXCEPT ![p] = x, ![r] = x]
      /\ op' = [op EXCEPT ![p] = o]
      /\ target' = [target EXCEPT ![p] = None]
      /\ ready' = Rest \o <<Entry(r, "go"), Entry(p, "go")>>
  BY DEF LaunchNode, r
<1>3. nc' \in [Contexts -> NodeTypes]
  BY <1>1, <1>2 DEF NodeTypes
<1>4. pc' \in [Tasks -> PCs]
  BY <1>2 DEF TypeOK, PCs, CallerPCs, RunPCs
<1>5. ncOf' \in [Tasks -> Contexts \cup {None}]
  BY <1>2 DEF TypeOK
<1>6. ready' \in Seq(Entries)
  <2>1. Entry(r, "go") \in Entries /\ Entry(p, "go") \in Entries
    BY <1>1, GoEntry DEF Tasks
  <2> QED
    BY <1>2, <2>1
<1>7. op' \in [Procs -> Calls \cup {None}]
  BY <1>2 DEF TypeOK
<1>8. target' \in [Procs -> Tasks \cup {None}]
  BY <1>2 DEF TypeOK
<1> QED
  BY <1>3, <1>4, <1>5, <1>6, <1>7, <1>8

LEMMA FinishStartType ==
    ASSUME LifecycleAssumption, TypeOK, NEW p \in Procs,
           Rest \in Seq(Entries), FinishStart(p)
    PROVE  /\ running' \in BOOLEAN /\ healthTask' \in Loops \cup {None}
           /\ UNCHANGED <<failures, context>>
           /\ slot' \in [Components -> Contexts \cup {None}]
           /\ reg' \in [Components -> [Contexts -> Int]]
           /\ pc' \in [Tasks -> PCs]
           /\ op' \in [Procs -> Calls \cup {None}]
           /\ target' \in [Procs -> Tasks \cup {None}]
           /\ ncOf' \in [Tasks -> Contexts \cup {None}]
           /\ ready' \in Seq(Entries)
<1> DEFINE l == CHOOSE y \in FreeLoops : TRUE
<1>1. l \in Loops
  BY DEF FinishStart, FreeLoops
<1>2. healthTask' = l
      /\ Return(p, [pc EXCEPT ![l] = "sleep"], Append(Rest, Entry(l, "go")))
  BY DEF FinishStart
<1> HIDE DEF l
<1>3. [pc EXCEPT ![l] = "sleep"] \in [Tasks -> PCs]
  BY DEF TypeOK, PCs, LoopPCs
<1>4. Append(Rest, Entry(l, "go")) \in Seq(Entries)
  BY <1>1, GoEntry DEF Tasks, Procs
<1>5. /\ slot' \in [Components -> Contexts \cup {None}]
      /\ reg' \in [Components -> [Contexts -> Int]]
  BY DEF FinishStart, TypeOK
<1> QED
  BY <1>1, <1>2, <1>3, <1>4, <1>5, ReturnType DEF FinishStart

LEMMA FinishStopType ==
    ASSUME LifecycleAssumption, TypeOK, NEW p \in Procs, NEW o \in Calls \cup {None},
           NEW ncs \in [Contexts -> NodeTypes],
           Rest \in Seq(Entries), FinishStop(p, o, ncs)
    PROVE  /\ running' \in BOOLEAN /\ context' \in Contexts
           /\ nc' \in [Contexts -> NodeTypes]
           /\ pc' \in [Tasks -> PCs]
           /\ op' \in [Procs -> Calls \cup {None}]
           /\ target' \in [Procs -> Tasks \cup {None}]
           /\ ncOf' \in [Tasks -> Contexts \cup {None}]
           /\ ready' \in Seq(Entries)
<1>1. CASE o = "stop" /\ Return(p, pc, Rest) /\ nc' = ncs /\ UNCHANGED context
  <2>1. pc \in [Tasks -> PCs]
    BY DEF TypeOK
  <2> QED
    BY <1>1, <2>1, ReturnType DEF FinishStop, TypeOK
<1>2. CASE /\ FreeContexts # {}
           /\ LET x == CHOOSE y \in FreeContexts : TRUE
              IN  /\ context' = x
                  /\ LaunchNode(p, o, x, [ncs EXCEPT ![x] = NewContext])
  <2> DEFINE x == CHOOSE y \in FreeContexts : TRUE
  <2>1. x \in Contexts
    BY <1>2 DEF FreeContexts
  <2>2. context' = x /\ LaunchNode(p, o, x, [ncs EXCEPT ![x] = NewContext])
    BY <1>2
  <2> HIDE DEF x
  <2>3. [ncs EXCEPT ![x] = NewContext] \in [Contexts -> NodeTypes]
    BY DEF NewContext, NodeTypes
  <2> QED
    BY <2>1, <2>2, <2>3, LaunchType DEF FinishStop
<1> QED
  BY <1>1, <1>2 DEF FinishStop

LEMMA FlaggedType ==
    ASSUME TypeOK, NEW x \in Contexts
    PROVE  Flagged(x) \in [Contexts -> NodeTypes]
BY DEF TypeOK, Flagged, NodeTypes

LEMMA DownType ==
    ASSUME NEW x, NEW ncs \in [Contexts -> NodeTypes]
    PROVE  Down(x, ncs) \in [Contexts -> NodeTypes]
<1>1. CASE x \in Contexts
  <2> DEFINE n == [ncs[x] EXCEPT !.runTask = None, !.connected = FALSE,
                                 !.started = FALSE]
  <2>1. n \in NodeTypes
    BY <1>1 DEF NodeTypes
  <2>2. Down(x, ncs) = [ncs EXCEPT ![x] = n]
    BY <1>1 DEF Down
  <2> HIDE DEF n
  <2> QED
    BY <2>1, <2>2
<1>2. CASE x \notin Contexts
  <2>1. Down(x, ncs) = ncs
    BY <1>2 DEF Down
  <2> QED
    BY <2>1
<1> QED
  BY <1>1, <1>2

LEMMA StopNodeType ==
    ASSUME LifecycleAssumption, TypeOK, NEW p \in Procs, NEW o \in Calls \cup {None},
           Rest \in Seq(Entries), StopNode(p, o),
           failures' \in 0 .. Threshold - 1, asked' \in {"up", "down"},
           UNCHANGED startTask
    PROVE  TypeOK'
<1>1. healthTask' = None /\ slot' \in [Components -> Contexts \cup {None}]
  BY DEF StopNode, ForgetHealthTask, StopComponents
<1>2. reg' \in [Components -> [Contexts -> Int]]
  BY DEF StopNode, StopComponents, TypeOK
<1>3. CASE ~nc[context].started /\ FinishStop(p, o, nc)
  <2>1. nc \in [Contexts -> NodeTypes]
    BY DEF TypeOK
  <2> QED
    BY <1>1, <1>2, <1>3, <2>1, FinishStopType DEF TypeOK
<1>4. CASE FinishStop(p, o, Down(context, Flagged(context)))
  <2>1. Down(context, Flagged(context)) \in [Contexts -> NodeTypes]
    BY FlaggedType, DownType DEF TypeOK
  <2> QED
    BY <1>1, <1>2, <1>4, <2>1, FinishStopType DEF TypeOK
<1>5. CASE /\ RunToCancel(context)
           /\ nc' = Flagged(context)
           /\ pc' = [pc EXCEPT ![p] = "run"]
           /\ op' = [op EXCEPT ![p] = o]
           /\ target' = [target EXCEPT ![p] = nc[context].runTask]
           /\ ncOf' = [ncOf EXCEPT ![p] = context]
           /\ ready' = Cancel(Rest, nc[context].runTask)
           /\ UNCHANGED <<running, context>>
  <2>1. nc[context].runTask \in Runs
    BY <1>5 DEF RunToCancel, TypeOK, NodeTypes
  <2>2. ready' \in Seq(Entries)
    BY <1>5, <2>1, CancelType DEF Tasks
  <2>3. nc' \in [Contexts -> NodeTypes]
    BY <1>5, FlaggedType DEF TypeOK
  <2>4. pc' \in [Tasks -> PCs]
    BY <1>5, PCValues, MoveType DEF CallerPCs
  <2>5. target' \in [Procs -> Tasks \cup {None}]
    BY <1>5, <2>1 DEF TypeOK, Tasks
  <2>6. op' \in [Procs -> Calls \cup {None}] /\ ncOf' \in [Tasks -> Contexts \cup {None}]
    BY <1>5 DEF TypeOK
  <2> QED
    BY <1>1, <1>2, <1>5, <2>2, <2>3, <2>4, <2>5, <2>6 DEF TypeOK
<1> QED
  BY <1>3, <1>4, <1>5 DEF StopNode

LEMMA StopGatewayType ==
    ASSUME LifecycleAssumption, TypeOK, NEW p \in Procs, NEW o \in Calls \cup {None},
           Rest \in Seq(Entries), StopGateway(p, o),
           failures' \in 0 .. Threshold - 1, asked' \in {"up", "down"},
           UNCHANGED startTask
    PROVE  TypeOK'
<1>1. CASE FinishStop(p, o, nc) /\ UNCHANGED <<healthTask, bound>>
  <2>1. nc \in [Contexts -> NodeTypes]
    BY DEF TypeOK
  <2> QED
    BY <1>1, <2>1, FinishStopType DEF TypeOK, bound
<1>2. CASE HealthTaskLive /\ Raise(p)
  <2>1. healthTask \in Tasks
    BY <1>2 DEF HealthTaskLive, TypeOK, Tasks, Procs
  <2>2. ready' \in Seq(Entries)
    BY <1>2, <2>1, CancelType DEF Raise
  <2>3. pc' \in [Tasks -> PCs]
    BY <1>2 DEF Raise, TypeOK, PCs, CallerPCs, LoopPCs
  <2> QED
    BY <1>2, <2>2, <2>3 DEF Raise, TypeOK, bound
<1>3. CASE /\ HealthTaskLive
           /\ pc' = [pc EXCEPT ![p] = "health"]
           /\ op' = [op EXCEPT ![p] = o]
           /\ target' = [target EXCEPT ![p] = healthTask]
           /\ ready' = Cancel(Rest, healthTask)
           /\ UNCHANGED <<running, healthTask, context, bound, nc, ncOf>>
  <2>1. healthTask \in Loops /\ healthTask \in Tasks
    BY <1>3 DEF HealthTaskLive, TypeOK, Tasks, Procs
  <2>2. ready' \in Seq(Entries)
    BY <1>3, <2>1, CancelType
  <2>3. pc' \in [Tasks -> PCs]
    BY <1>3 DEF TypeOK, PCs, CallerPCs
  <2> QED
    BY <1>3, <2>1, <2>2, <2>3 DEF TypeOK, bound
<1>4. CASE StopNode(p, o)
  BY <1>4, StopNodeType
<1> QED
  BY <1>1, <1>2, <1>3, <1>4 DEF StopGateway

-----------------------------------------------------------------------------
(* Type correctness, one step per action.                                  *)

LEMMA SpawnType ==
    ASSUME LifecycleAssumption, TypeOK, NEW p \in Callers, NEW o \in Calls,
           NEW t \in Tasks \cup {None}, Spawn(p, o, t),
           startTask' \in Callers \cup {None}
    PROVE  TypeOK'
<1>1. p \in Procs /\ p \in Tasks
  BY DEF Procs, Tasks
<1>2. pc' \in [Tasks -> PCs]
  BY DEF Spawn, TypeOK, PCs, CallerPCs
<1>3. ready' \in Seq(Entries)
  BY <1>1, GoEntry DEF Spawn, TypeOK
<1>4. op' \in [Procs -> Calls \cup {None}] /\ target' \in [Procs -> Tasks \cup {None}]
  BY DEF Spawn, TypeOK
<1> QED
  BY <1>2, <1>3, <1>4 DEF Spawn, TypeOK, gateway, bound

LEMMA HostCallType ==
    ASSUME LifecycleAssumption, TypeOK, NEW p \in Callers, HostCall(p)
    PROVE  TypeOK'
<1>1. startTask \in Callers \cup {None}
  BY DEF TypeOK
<1>2. CASE Call(p)
  <2>1. PICK o \in Ops[p] : Spawn(p, o, None)
    BY <1>2 DEF Call
  <2>2. o \in Calls /\ UNCHANGED startTask
    BY <1>2 DEF Call, LifecycleAssumption
  <2> QED
    BY <1>1, <2>1, <2>2, SpawnType
<1>3. CASE FacadeStart(p)
  BY <1>3, SpawnType DEF FacadeStart, Calls
<1>4. CASE FacadeStop(p)
  <2>1. startTask \in Tasks \cup {None}
    BY <1>1 DEF Tasks, Procs
  <2> QED
    BY <1>4, <2>1, SpawnType DEF FacadeStop, Calls
<1> QED
  BY <1>2, <1>3, <1>4 DEF HostCall

LEMMA AwaitStartType ==
    ASSUME LifecycleAssumption, TypeOK, NEW p \in Procs, UNCHANGED startTask,
           AwaitStart(p)
    PROVE  TypeOK'
<1>1. Rest \in Seq(Entries)
  BY RestType DEF AwaitStart
<1>2. pc' \in [Tasks -> PCs]
  BY DEF AwaitStart, TypeOK, PCs, CallerPCs
<1> QED
  BY <1>1, <1>2 DEF AwaitStart, TypeOK, gateway, bound, frame

LEMMA BeginStartType ==
    ASSUME LifecycleAssumption, TypeOK, NEW p \in Procs, UNCHANGED startTask,
           BeginStart(p)
    PROVE  TypeOK'
<1>1. Rest \in Seq(Entries)
  BY RestType DEF BeginStart
<1>2. CASE Return(p, pc, Rest) /\ UNCHANGED <<gateway, bound, nc>>
  <2>1. pc \in [Tasks -> PCs]
    BY DEF TypeOK
  <2> QED
    BY <1>1, <1>2, <2>1, ReturnType DEF TypeOK, gateway, bound, BeginStart
<1>3. CASE FinishStart(p) /\ UNCHANGED nc
  BY <1>1, <1>3, FinishStartType DEF TypeOK, BeginStart
<1>4. CASE LaunchNode(p, "start", context, nc) /\ UNCHANGED <<gateway, bound>>
  <2>1. context \in Contexts /\ nc \in [Contexts -> NodeTypes] /\ "start" \in Calls
    BY DEF TypeOK, Calls
  <2> QED
    BY <1>1, <1>4, <2>1, LaunchType DEF TypeOK, gateway, bound, BeginStart
<1> QED
  BY <1>2, <1>3, <1>4 DEF BeginStart

LEMMA BeginStopType ==
    ASSUME LifecycleAssumption, TypeOK, NEW p \in Procs, UNCHANGED startTask,
           BeginStop(p)
    PROVE  TypeOK'
<1>1. Rest \in Seq(Entries)
  BY RestType DEF BeginStop
<1>2. failures' \in 0 .. Threshold - 1 /\ asked' \in {"up", "down"}
  BY DEF BeginStop, TypeOK
<1>3. op[p] \in Calls \cup {None}
  BY DEF TypeOK
<1> QED
  BY <1>1, <1>2, <1>3, StopGatewayType DEF BeginStop

LEMMA ResumeType ==
    ASSUME LifecycleAssumption, TypeOK, NEW p \in Procs, UNCHANGED startTask,
           \/ ResumeStart(p)
           \/ ResumeStopAfterHealth(p)
           \/ ResumeStopAfterRun(p)
    PROVE  TypeOK'
<1>1. Rest \in Seq(Entries)
  BY RestType DEF ResumeStart, ResumeStopAfterHealth, ResumeStopAfterRun
<1>0. op[p] \in Calls \cup {None}
  BY DEF TypeOK
<1>2. CASE ResumeStart(p)
  <2>1. nc' \in [Contexts -> NodeTypes]
    <3>1. nc' = [nc EXCEPT ![ncOf[p]].started = TRUE] /\ nc \in [Contexts -> NodeTypes]
      BY <1>2, Zenon DEF ResumeStart, TypeOK
    <3> QED
      BY <3>1 DEF NodeTypes
  <2>2. FinishStart(p) /\ UNCHANGED asked
    BY <1>2, Zenon DEF ResumeStart
  <2>3. failures \in 0 .. Threshold - 1 /\ context \in Contexts
        /\ startTask \in Callers \cup {None} /\ asked \in {"up", "down"}
    BY DEF TypeOK
  <2> QED
    BY <1>1, <2>1, <2>2, <2>3, FinishStartType DEF TypeOK
<1>3. CASE ResumeStopAfterHealth(p)
  <2>1. failures' \in 0 .. Threshold - 1 /\ asked' \in {"up", "down"}
    BY <1>3 DEF ResumeStopAfterHealth, TypeOK
  <2> QED
    BY <1>0, <1>1, <1>3, <2>1, StopNodeType DEF ResumeStopAfterHealth
<1>4. CASE ResumeStopAfterRun(p)
  <2>1. Down(ncOf[p], nc) \in [Contexts -> NodeTypes]
    BY DownType DEF TypeOK
  <2> QED
    BY <1>0, <1>1, <1>4, <2>1, FinishStopType DEF ResumeStopAfterRun, TypeOK, bound
<1> QED
  BY <1>2, <1>3, <1>4

LEMMA HealthStepType ==
    ASSUME LifecycleAssumption, TypeOK, NEW l \in Loops, UNCHANGED startTask,
           Tick(l) \/ HealthStep(l)
    PROVE  TypeOK'
<1>0. l \in Tasks /\ l \in Procs
  BY DEF Tasks, Procs
<1>1. CASE Tick(l)
  <2>1. Entry(l, "tick") \in Entries
    BY <1>0 DEF Entry, Entries, Results
  <2> QED
    BY <1>1, <2>1 DEF Tick, TypeOK, gateway, bound, frame
<1>2. CASE LoopStarts(l)
  <2>1. Rest \in Seq(Entries)
    BY <1>2, RestType DEF LoopStarts
  <2> QED
    BY <1>2, <2>1 DEF LoopStarts, TypeOK, gateway, bound, frame
<1>3. CASE CheckHealth(l)
  <2>1. Rest \in Seq(Entries)
    BY <1>3, RestType DEF CheckHealth
  <2>2. CASE StopGateway(l, "restart") /\ failures' = 0
    <3>1. failures' \in 0 .. Threshold - 1 /\ asked' \in {"up", "down"}
      BY <1>3, <2>2 DEF CheckHealth, TypeOK, LifecycleAssumption
    <3> QED
      BY <1>0, <2>1, <2>2, <3>1, StopGatewayType DEF Calls
  <2>3. CASE /\ failures' \in {0, failures + 1} /\ ready' = Rest
             /\ failures' = failures + 1 => ~AtThreshold
             /\ UNCHANGED <<running, healthTask, context, bound, nc, pc, frame, ncOf>>
    <3>1. failures' \in 0 .. Threshold - 1
      BY <2>3 DEF TypeOK, AtThreshold, LifecycleAssumption
    <3> QED
      BY <1>3, <2>1, <2>3, <3>1 DEF CheckHealth, TypeOK, bound, frame
  <2>4. failures + 1 # 0
    BY DEF TypeOK, LifecycleAssumption
  <2> QED
    BY <1>3, <2>2, <2>3, <2>4 DEF CheckHealth
<1>4. CASE LoopCancelled(l)
  <2>1. Rest \in Seq(Entries)
    BY <1>4, RestType DEF LoopCancelled
  <2> QED
    BY <1>0, <1>4, <2>1, EndType DEF LoopCancelled, TypeOK, gateway, bound, frame
<1> QED
  BY <1>1, <1>2, <1>3, <1>4 DEF HealthStep

LEMMA RunGoesType ==
    ASSUME TypeOK, Rest \in Seq(Entries), NEW r \in Runs, NEW next \in RunPCs,
           RunGoes(r, next)
    PROVE  pc' \in [Tasks -> PCs] /\ ready' \in Seq(Entries)
BY DEF RunGoes, TypeOK, PCs

LEMMA SetConnectedType ==
    ASSUME TypeOK, NEW r, NEW b \in BOOLEAN, SetConnected(r, b)
    PROVE  nc' \in [Contexts -> NodeTypes]
BY DEF SetConnected, TypeOK, NodeTypes

LEMMA RunStepType ==
    ASSUME LifecycleAssumption, TypeOK, NEW r \in Runs, UNCHANGED startTask,
           TransportEvent(r) \/ RunTask(r)
    PROVE  TypeOK'
<1>0. r \in Tasks
  BY DEF Tasks
<1>1. CASE TransportEvent(r)
  <2>1. PICK result \in {"ok", "error"} : ready' = Append(ready, Entry(r, result))
    BY <1>1 DEF TransportEvent
  <2>2. Entry(r, result) \in Entries
    BY <1>0 DEF Entry, Entries, Results
  <2> QED
    BY <1>1, <2>1, <2>2 DEF TransportEvent, TypeOK, gateway, bound, frame
<1>2. CASE RunTask(r)
  <2>1. Rest \in Seq(Entries)
    BY <1>2, RestType DEF RunTask, RunStep, RunCancelled
  <2>2. \/ UNCHANGED nc
        \/ SetConnected(r, TRUE)
        \/ SetConnected(r, FALSE)
    BY <1>2 DEF RunTask, RunStep, RunCancelled
  <2>3. nc' \in [Contexts -> NodeTypes]
    BY <2>2, SetConnectedType DEF TypeOK
  <2>4. \/ End(r)
        \/ \E next \in RunPCs : RunGoes(r, next)
    BY <1>2 DEF RunTask, RunStep, RunCancelled, LoopHead, NextAttempt, RunPCs
  <2>5. pc' \in [Tasks -> PCs] /\ ready' \in Seq(Entries)
    BY <1>0, <2>1, <2>4, EndType, RunGoesType
  <2> QED
    BY <1>2, <2>3, <2>5 DEF RunTask, TypeOK, gateway, bound, frame
<1> QED
  BY <1>1, <1>2

\* The variables keep their types, and the failure counter stays below the
\* threshold: every health check that reaches it restarts the gateway and
\* starts counting anew (gateway.py, _health_loop).
THEOREM TypeCorrect == Spec => []TypeOK
<1> USE LifecycleAssumption
<1>1. Init => TypeOK
  <2> SUFFICES ASSUME Init PROVE TypeOK
    OBVIOUS
  <2>1. nc \in [Contexts -> NodeTypes]
    BY DEF Init, NewContext, NodeTypes
  <2>2. pc \in [Tasks -> PCs]
    BY DEF Init, PCs, CallerPCs, LoopPCs
  <2>3. /\ slot \in [Components -> Contexts \cup {None}]
        /\ reg \in [Components -> [Contexts -> Int]]
    BY DEF Init
  <2>4. op \in [Procs -> Calls \cup {None}] /\ failures \in 0 .. Threshold - 1
    BY DEF Init, LifecycleAssumption
  <2>5. target \in [Procs -> Tasks \cup {None}]
    BY DEF Init
  <2>6. ncOf \in [Tasks -> Contexts \cup {None}] /\ ready \in Seq(Entries)
    BY DEF Init
  <2> QED
    BY <2>1, <2>2, <2>3, <2>4, <2>5, <2>6 DEF Init, TypeOK
<1>2. TypeOK /\ [Next]_vars => TypeOK'
  <2> SUFFICES ASSUME TypeOK, [Next]_vars PROVE TypeOK'
    OBVIOUS
  <2>1. CASE UNCHANGED vars
    BY <2>1 DEF vars, gateway, bound, frame, TypeOK
  <2>2. ASSUME NEW p \in Procs, GatewayStep(p), UNCHANGED startTask PROVE TypeOK'
    BY <2>2, AwaitStartType, BeginStartType, BeginStopType, ResumeType DEF GatewayStep
  <2>3. ASSUME NEW l \in Loops, UNCHANGED startTask, Tick(l) \/ HealthStep(l)
        PROVE  TypeOK'
    BY <2>3, HealthStepType
  <2>4. ASSUME NEW r \in Runs, UNCHANGED startTask, TransportEvent(r) \/ RunTask(r)
        PROVE  TypeOK'
    BY <2>4, RunStepType
  <2>5. ASSUME NEW c \in Callers, HostCall(c) PROVE TypeOK'
    BY <2>5, HostCallType
  <2>6. \/ Step \/ (\E c \in Callers : HostCall(c))
        \/ (\E l \in Loops : Tick(l)) \/ (\E r \in Runs : TransportEvent(r))
        \/ UNCHANGED vars
    BY DEF Next, HostCall
  <2> QED
    BY <2>1, <2>2, <2>3, <2>4, <2>5, <2>6 DEF Step, Tick, TransportEvent
<1> QED
  BY <1>1, <1>2, PTL DEF Spec

-----------------------------------------------------------------------------
(* The connection flag is honest.  Gateway code never touches a connection *)
(* loop that serves and never raises a flag; only the connection loop      *)
(* itself does, and it lowers the flag before it stops serving.            *)

Serving == {"up", "closing", "failing"}

RunsKept ==
    \A r \in Runs : pc[r] \in Serving => pc'[r] = pc[r] /\ ncOf'[r] = ncOf[r]

NoNewClaim == \A x \in Contexts : nc'[x].connected => nc[x].connected

LEMMA KeptIsHonest ==
    ASSUME HealthIsHonest, RunsKept, NoNewClaim
    PROVE  HealthIsHonest'
BY DEF HealthIsHonest, RunsKept, NoNewClaim, Serving

LEMMA ReturnKeeps ==
    ASSUME LifecycleAssumption, TypeOK, NEW p \in Procs, NEW pcs \in [Tasks -> PCs],
           \A r \in Runs : pcs[r] = pc[r], NEW q, Return(p, pcs, q)
    PROVE  RunsKept
<1> SUFFICES ASSUME NEW r \in Runs
             PROVE  pc'[r] = pc[r] /\ ncOf'[r] = ncOf[r]
  BY DEF RunsKept
<1>1. r # p /\ r \in Tasks
  BY DEF LifecycleAssumption, Tasks
<1> QED
  BY <1>1 DEF Return, TypeOK

LEMMA LaunchKeeps ==
    ASSUME LifecycleAssumption, TypeOK, NEW p \in Procs, NEW o, NEW x \in Contexts,
           NEW ncs \in [Contexts -> NodeTypes],
           \A y \in Contexts : ncs[y].connected => nc[y].connected,
           LaunchNode(p, o, x, ncs)
    PROVE  RunsKept /\ NoNewClaim
<1> DEFINE f == CHOOSE y \in FreeRuns : TRUE
<1>1. f \in Runs /\ pc[f] = "done"
  BY DEF LaunchNode, FreeRuns
<1>2. /\ nc' = [ncs EXCEPT ![x].stopped = FALSE, ![x].runTask = f]
      /\ pc' = [pc EXCEPT ![p] = "yield", ![f] = "new"]
      /\ ncOf' = [ncOf EXCEPT ![p] = x, ![f] = x]
  BY DEF LaunchNode
<1> HIDE DEF f
<1>3. RunsKept
  <2> SUFFICES ASSUME NEW r \in Runs, pc[r] \in Serving
               PROVE  pc'[r] = pc[r] /\ ncOf'[r] = ncOf[r]
    BY DEF RunsKept
  <2>1. r # p /\ r # f /\ r \in Tasks
    BY <1>1 DEF LifecycleAssumption, Tasks, Serving
  <2> QED
    BY <1>2, <2>1 DEF TypeOK
<1>4. \A y \in Contexts : nc'[y].connected = ncs[y].connected
  BY <1>2 DEF NodeTypes
<1> QED
  BY <1>3, <1>4 DEF NoNewClaim

LEMMA FinishStartKeeps ==
    ASSUME LifecycleAssumption, TypeOK, NEW p \in Procs, FinishStart(p)
    PROVE  RunsKept
<1> DEFINE l == CHOOSE y \in FreeLoops : TRUE
<1>1. l \in Loops
  BY DEF FinishStart, FreeLoops
<1>2. Return(p, [pc EXCEPT ![l] = "sleep"], Append(Rest, Entry(l, "go")))
  BY DEF FinishStart
<1> HIDE DEF l
<1>3. [pc EXCEPT ![l] = "sleep"] \in [Tasks -> PCs]
  BY DEF TypeOK, PCs, LoopPCs
<1>4. \A r \in Runs : [pc EXCEPT ![l] = "sleep"][r] = pc[r]
  BY <1>1 DEF TypeOK, LifecycleAssumption, Tasks, Procs
<1> QED
  BY <1>2, <1>3, <1>4, ReturnKeeps

LEMMA FinishStopKeeps ==
    ASSUME LifecycleAssumption, TypeOK, NEW p \in Procs, NEW o,
           NEW ncs \in [Contexts -> NodeTypes],
           \A y \in Contexts : ncs[y].connected => nc[y].connected,
           FinishStop(p, o, ncs)
    PROVE  RunsKept /\ NoNewClaim
<1>1. CASE Return(p, pc, Rest) /\ nc' = ncs
  <2>1. pc \in [Tasks -> PCs]
    BY DEF TypeOK
  <2> QED
    BY <1>1, <2>1, ReturnKeeps DEF NoNewClaim
<1>2. CASE /\ FreeContexts # {}
           /\ LET x == CHOOSE y \in FreeContexts : TRUE
              IN  LaunchNode(p, o, x, [ncs EXCEPT ![x] = NewContext])
  <2> DEFINE x == CHOOSE y \in FreeContexts : TRUE
  <2>1. x \in Contexts
    BY <1>2 DEF FreeContexts
  <2>2. LaunchNode(p, o, x, [ncs EXCEPT ![x] = NewContext])
    BY <1>2
  <2> HIDE DEF x
  <2>3. [ncs EXCEPT ![x] = NewContext] \in [Contexts -> NodeTypes]
    BY DEF NewContext, NodeTypes
  <2>4. \A y \in Contexts :
           [ncs EXCEPT ![x] = NewContext][y].connected => nc[y].connected
    BY DEF NewContext
  <2> QED
    BY <2>1, <2>2, <2>3, <2>4, LaunchKeeps
<1> QED
  BY <1>1, <1>2 DEF FinishStop

LEMMA DownClaims ==
    ASSUME NEW x, NEW ncs \in [Contexts -> NodeTypes], NEW y \in Contexts,
           Down(x, ncs)[y].connected
    PROVE  ncs[y].connected
BY DEF Down, NodeTypes

LEMMA StopNodeKeeps ==
    ASSUME LifecycleAssumption, TypeOK, NEW p \in Procs, NEW o, StopNode(p, o)
    PROVE  RunsKept /\ NoNewClaim
<1>0. nc \in [Contexts -> NodeTypes] /\ context \in Contexts
  BY DEF TypeOK
<1>1. \A y \in Contexts : Flagged(context)[y].connected => nc[y].connected
  BY <1>0 DEF Flagged, NodeTypes
<1>2. CASE FinishStop(p, o, nc)
  BY <1>0, <1>2, FinishStopKeeps
<1>3. CASE FinishStop(p, o, Down(context, Flagged(context)))
  <2>1. /\ Flagged(context) \in [Contexts -> NodeTypes]
        /\ Down(context, Flagged(context)) \in [Contexts -> NodeTypes]
    BY <1>0, FlaggedType, DownType
  <2>2. \A y \in Contexts :
           Down(context, Flagged(context))[y].connected => nc[y].connected
    BY <1>1, <2>1, DownClaims
  <2> QED
    BY <1>3, <2>1, <2>2, FinishStopKeeps
<1>4. CASE /\ nc' = Flagged(context)
           /\ pc' = [pc EXCEPT ![p] = "run"]
           /\ ncOf' = [ncOf EXCEPT ![p] = context]
  <2>1. \A r \in Runs : r # p /\ r \in Tasks
    BY DEF LifecycleAssumption, Tasks
  <2> QED
    BY <1>1, <1>4, <2>1 DEF RunsKept, NoNewClaim, TypeOK
<1> QED
  BY <1>2, <1>3, <1>4 DEF StopNode

LEMMA StopGatewayKeeps ==
    ASSUME LifecycleAssumption, TypeOK, NEW p \in Procs, NEW o, StopGateway(p, o)
    PROVE  RunsKept /\ NoNewClaim
<1>1. CASE FinishStop(p, o, nc)
  <2>1. nc \in [Contexts -> NodeTypes]
    BY DEF TypeOK
  <2> QED
    BY <1>1, <2>1, FinishStopKeeps
<1>2. CASE UNCHANGED <<nc, ncOf>> /\ \E s \in PCs : pc' = [pc EXCEPT ![p] = s]
  <2>1. \A r \in Runs : r # p /\ r \in Tasks
    BY DEF LifecycleAssumption, Tasks
  <2> QED
    BY <1>2, <2>1 DEF RunsKept, NoNewClaim, TypeOK
<1>3. CASE StopNode(p, o)
  BY <1>3, StopNodeKeeps
<1> QED
  BY <1>1, <1>2, <1>3 DEF StopGateway, Raise, PCs, CallerPCs, LoopPCs

LEMMA GatewayStepKeeps ==
    ASSUME LifecycleAssumption, TypeOK, NEW p \in Procs, GatewayStep(p)
    PROVE  RunsKept /\ NoNewClaim
<1>0. nc \in [Contexts -> NodeTypes] /\ context \in Contexts /\ pc \in [Tasks -> PCs]
  BY DEF TypeOK
<1>1. CASE BeginStart(p)
  <2>1. CASE Return(p, pc, Rest) /\ UNCHANGED <<gateway, bound, nc>>
    BY <1>0, <2>1, ReturnKeeps DEF NoNewClaim
  <2>2. CASE FinishStart(p) /\ UNCHANGED nc
    BY <2>2, FinishStartKeeps DEF NoNewClaim
  <2>3. CASE LaunchNode(p, "start", context, nc)
    BY <1>0, <2>3, LaunchKeeps
  <2> QED
    BY <1>1, <2>1, <2>2, <2>3 DEF BeginStart
<1>2. CASE BeginStop(p)
  BY <1>2, StopGatewayKeeps DEF BeginStop
<1>3. CASE ResumeStart(p)
  <2>1. NoNewClaim
    BY <1>0, <1>3 DEF ResumeStart, NoNewClaim, NodeTypes
  <2> QED
    BY <1>3, <2>1, FinishStartKeeps DEF ResumeStart
<1>4. CASE ResumeStopAfterHealth(p)
  BY <1>4, StopNodeKeeps DEF ResumeStopAfterHealth
<1>5. CASE ResumeStopAfterRun(p)
  <2>1. Down(ncOf[p], nc) \in [Contexts -> NodeTypes]
    BY <1>0, DownType
  <2>2. \A y \in Contexts : Down(ncOf[p], nc)[y].connected => nc[y].connected
    BY <1>0, DownClaims
  <2> QED
    BY <1>5, <2>1, <2>2, FinishStopKeeps DEF ResumeStopAfterRun
<1>6. CASE AwaitStart(p)
  <2>1. \A r \in Runs : r # p /\ r \in Tasks
    BY DEF LifecycleAssumption, Tasks
  <2> QED
    BY <1>6, <2>1 DEF AwaitStart, RunsKept, NoNewClaim, TypeOK, frame
<1> QED
  BY <1>1, <1>2, <1>3, <1>4, <1>5, <1>6 DEF GatewayStep

LEMMA HealthStepKeeps ==
    ASSUME LifecycleAssumption, TypeOK, NEW l \in Loops, Tick(l) \/ HealthStep(l)
    PROVE  RunsKept /\ NoNewClaim
<1>1. CASE CheckHealth(l) /\ StopGateway(l, "restart")
  BY <1>1, StopGatewayKeeps DEF Procs
<1>2. CASE UNCHANGED <<nc, pc, ncOf>>
  BY <1>2 DEF RunsKept, NoNewClaim
<1>3. CASE LoopCancelled(l)
  <2>1. \A r \in Runs : r # l /\ r \in Tasks
    BY DEF LifecycleAssumption, Tasks, Procs
  <2> QED
    BY <1>3, <2>1 DEF LoopCancelled, End, RunsKept, NoNewClaim, TypeOK
<1> QED
  BY <1>1, <1>2, <1>3 DEF Tick, HealthStep, LoopStarts, CheckHealth

\* A step of connection loop r leaves the other loops alone; it ends with r
\* serving and the flag raised, or with the flag of its context lowered, or it
\* was not serving before.
LEMMA RunTaskIsHonest ==
    ASSUME LifecycleAssumption, TypeOK, HealthIsHonest, NEW r \in Runs, RunTask(r)
    PROVE  HealthIsHonest'
<1> SUFFICES ASSUME NEW x \in Contexts, nc'[x].connected
             PROVE  \E u \in Runs : ncOf'[u] = x /\ pc'[u] \in Serving
  BY DEF HealthIsHonest, Serving
<1>1. UNCHANGED ncOf
  BY DEF RunTask
<1>2. \A u \in Runs : u # r => pc'[u] = pc[u]
  <2>1. \/ End(r)
        \/ \E next \in RunPCs : RunGoes(r, next)
    BY DEF RunTask, RunStep, RunCancelled, LoopHead, NextAttempt, RunPCs
  <2>2. \E next : pc' = [pc EXCEPT ![r] = next]
    BY <2>1 DEF End, RunGoes
  <2> QED
    BY <2>2 DEF TypeOK, Tasks
<1>3. CASE SetConnected(r, TRUE) /\ pc'[r] \in Serving
  <2>1. CASE ncOf[r] = x
    BY <1>1, <1>3, <2>1
  <2>2. CASE ncOf[r] # x
    <3>1. nc[x].connected
      BY <1>3, <2>2 DEF SetConnected, TypeOK
    <3>2. PICK u \in Runs : ncOf[u] = x /\ pc[u] \in Serving
      BY <3>1 DEF HealthIsHonest, Serving
    <3> QED
      BY <1>1, <1>2, <2>2, <3>2
  <2> QED
    BY <2>1, <2>2
<1>4. CASE SetConnected(r, FALSE)
  <2>1. ncOf[r] # x /\ nc[x].connected
    BY <1>4 DEF SetConnected, TypeOK, NodeTypes
  <2>2. PICK u \in Runs : ncOf[u] = x /\ pc[u] \in Serving
    BY <2>1 DEF HealthIsHonest, Serving
  <2> QED
    BY <1>1, <1>2, <2>1, <2>2
<1>5. CASE UNCHANGED nc /\ (pc[r] \in Serving => pc'[r] \in Serving)
  <2>1. PICK u \in Runs : ncOf[u] = x /\ pc[u] \in Serving
    BY <1>5 DEF HealthIsHonest, Serving
  <2> QED
    BY <1>1, <1>2, <1>5, <2>1
<1>6. r \in Tasks
  BY DEF Tasks
<1> QED
  BY <1>3, <1>4, <1>5, <1>6 DEF RunTask, RunStep, RunCancelled, RunGoes, Serving, TypeOK

\* is_healthy() never reports a connection that is gone, whatever the callers,
\* the health loops and the broker do (node_context.py, _connected).
THEOREM Honest == Spec => []HealthIsHonest
<1> USE LifecycleAssumption
<1>1. Init => HealthIsHonest
  BY DEF Init, HealthIsHonest, NewContext
<1>2. TypeOK /\ HealthIsHonest /\ [Next]_vars => HealthIsHonest'
  <2> SUFFICES ASSUME TypeOK, HealthIsHonest, [Next]_vars PROVE HealthIsHonest'
    OBVIOUS
  <2>1. CASE UNCHANGED vars
    BY <2>1 DEF vars, HealthIsHonest
  <2>2. ASSUME NEW p \in Procs, GatewayStep(p) PROVE HealthIsHonest'
    BY <2>2, GatewayStepKeeps, KeptIsHonest
  <2>3. ASSUME NEW l \in Loops, Tick(l) \/ HealthStep(l) PROVE HealthIsHonest'
    BY <2>3, HealthStepKeeps, KeptIsHonest
  <2>4. ASSUME NEW r \in Runs, RunTask(r) PROVE HealthIsHonest'
    BY <2>4, RunTaskIsHonest
  <2>5. ASSUME NEW r \in Runs, TransportEvent(r) PROVE HealthIsHonest'
    BY <2>5 DEF TransportEvent, HealthIsHonest
  <2>6. ASSUME NEW c \in Callers, HostCall(c) PROVE HealthIsHonest'
    <3>1. \A r \in Runs : r # c /\ r \in Tasks
      BY DEF LifecycleAssumption, Tasks, Procs
    <3>2. PICK o, t : Spawn(c, o, t)
      BY <2>6 DEF HostCall, Call, FacadeStart, FacadeStop
    <3>3. RunsKept /\ NoNewClaim
      BY <3>1, <3>2 DEF Spawn, RunsKept, NoNewClaim, TypeOK
    <3> QED
      BY <3>3, KeptIsHonest
  <2> QED
    BY <2>1, <2>2, <2>3, <2>4, <2>5, <2>6 DEF Next, Step, HostCall
<1> QED
  BY <1>1, <1>2, TypeCorrect, PTL DEF Spec

-----------------------------------------------------------------------------
(* The health task of a running gateway sleeps: nothing else it awaits can *)
(* be interrupted.                                                         *)

\* A step of task p that leaves the gateway's health task where it is.
LEMMA WatchKept ==
    ASSUME LifecycleAssumption, TypeOK, TrackedLoopSleeps,
           NEW p \in Tasks, p # healthTask, UNCHANGED <<running, healthTask>>,
           \E s : pc' = [pc EXCEPT ![p] = s],
           \/ UNCHANGED target
           \/ \E t : target' = [target EXCEPT ![p] = t]
    PROVE  TrackedLoopSleeps'
<1> SUFFICES ASSUME running, healthTask # None
             PROVE  \/ pc'[healthTask] \in {"sleep", "done"}
                    \/ pc'[healthTask] = "health" /\ target'[healthTask] = healthTask
  BY DEF TrackedLoopSleeps, SelfAwaiting
<1>1. healthTask \in Loops /\ healthTask \in Procs /\ healthTask \in Tasks
  BY DEF TypeOK, Procs, Tasks
<1>2. pc'[healthTask] = pc[healthTask] /\ target'[healthTask] = target[healthTask]
  BY <1>1 DEF TypeOK
<1> QED
  BY <1>1, <1>2 DEF TrackedLoopSleeps, SelfAwaiting

\* While the gateway runs, a task that executes a call is not its health task,
\* unless that task awaits itself.
LEMMA NotTheWatch ==
    ASSUME TrackedLoopSleeps, running, NEW p, pc[p] \in {"begin", "pending"}
    PROVE  p # healthTask \/ healthTask = None
BY DEF TrackedLoopSleeps, SelfAwaiting

LEMMA FinishStartWatches ==
    ASSUME LifecycleAssumption, TypeOK, NEW p \in Procs, FinishStart(p)
    PROVE  TrackedLoopSleeps'
<1> DEFINE l == CHOOSE y \in FreeLoops : TRUE
<1>1. /\ l \in Loops /\ healthTask' = l
      /\ Return(p, [pc EXCEPT ![l] = "sleep"], Append(Rest, Entry(l, "go")))
  BY DEF FinishStart, FreeLoops
<1> HIDE DEF l
<1>2. l \in Tasks /\ p \in Tasks /\ l \notin Callers
  BY <1>1 DEF Tasks, Procs, LifecycleAssumption
<1>3. pc'[l] = "sleep"
  BY <1>1, <1>2 DEF Return, TypeOK, Procs
<1> QED
  BY <1>1, <1>3 DEF TrackedLoopSleeps

LEMMA StopGatewayWatches ==
    ASSUME LifecycleAssumption, TypeOK, TrackedLoopSleeps, NEW p \in Procs, NEW o,
           pc[p] \in {"begin", "pending", "sleep"}, StopGateway(p, o)
    PROVE  TrackedLoopSleeps'
<1>0. p \in Tasks
  BY DEF Tasks
<1>1. CASE FinishStop(p, o, nc)
  BY <1>1 DEF FinishStop, TrackedLoopSleeps
<1>2. CASE running /\ HealthTaskLive /\ SelfAwaiting(healthTask) /\ Raise(p)
  <2>1. p # healthTask
    BY <1>2 DEF SelfAwaiting
  <2> QED
    BY <1>0, <1>2, <2>1, WatchKept DEF Raise
<1>3. CASE /\ running /\ HealthTaskLive
           /\ pc' = [pc EXCEPT ![p] = "health"]
           /\ target' = [target EXCEPT ![p] = healthTask]
           /\ UNCHANGED <<running, healthTask>>
  <2>1. CASE p = healthTask
    <3>1. pc'[p] = "health" /\ target'[p] = p
      BY <1>0, <1>3, <2>1 DEF TypeOK
    <3> QED
      BY <1>3, <2>1, <3>1 DEF TrackedLoopSleeps, SelfAwaiting
  <2>2. CASE p # healthTask
    BY <1>0, <1>3, <2>2, WatchKept
  <2> QED
    BY <2>1, <2>2
<1>4. CASE StopNode(p, o)
  BY <1>4 DEF StopNode, FinishStop, ForgetHealthTask, TrackedLoopSleeps
<1> QED
  BY <1>1, <1>2, <1>3, <1>4 DEF StopGateway

LEMMA GatewayStepWatches ==
    ASSUME LifecycleAssumption, TypeOK, TrackedLoopSleeps, NEW p \in Procs,
           GatewayStep(p)
    PROVE  TrackedLoopSleeps'
<1>0. p \in Tasks
  BY DEF Tasks
<1>1. CASE BeginStart(p)
  <2>1. CASE running /\ Return(p, pc, Rest) /\ UNCHANGED gateway
    <3>1. p # healthTask \/ healthTask = None
      BY <1>1, <2>1, NotTheWatch DEF BeginStart
    <3>2. p # healthTask
      BY <1>0, <3>1 DEF LifecycleAssumption
    <3> QED
      BY <1>0, <2>1, <3>2, WatchKept DEF Return, gateway
  <2>2. CASE FinishStart(p)
    BY <2>2, FinishStartWatches
  <2>3. CASE ~running /\ UNCHANGED gateway
    BY <2>3 DEF gateway, TrackedLoopSleeps
  <2> QED
    BY <1>1, <2>1, <2>2, <2>3 DEF BeginStart
<1>2. CASE BeginStop(p)
  BY <1>2, StopGatewayWatches DEF BeginStop
<1>3. CASE ResumeStart(p)
  BY <1>3, FinishStartWatches DEF ResumeStart
<1>4. CASE ResumeStopAfterHealth(p)
  BY <1>4 DEF ResumeStopAfterHealth, StopNode, FinishStop, ForgetHealthTask,
              TrackedLoopSleeps
<1>5. CASE ResumeStopAfterRun(p)
  BY <1>5 DEF ResumeStopAfterRun, FinishStop, TrackedLoopSleeps
<1>6. CASE AwaitStart(p)
  <2>1. CASE running
    <3>1. p # healthTask
      BY <1>0, <1>6, <2>1, NotTheWatch DEF AwaitStart, LifecycleAssumption
    <3> QED
      BY <1>0, <1>6, <3>1, WatchKept DEF AwaitStart, gateway, frame
  <2>2. CASE ~running
    BY <1>6, <2>2 DEF AwaitStart, gateway, TrackedLoopSleeps
  <2> QED
    BY <2>1, <2>2
<1> QED
  BY <1>1, <1>2, <1>3, <1>4, <1>5, <1>6 DEF GatewayStep

LEMMA HealthStepWatches ==
    ASSUME LifecycleAssumption, TypeOK, TrackedLoopSleeps, NEW l \in Loops,
           Tick(l) \/ HealthStep(l)
    PROVE  TrackedLoopSleeps'
<1>1. CASE CheckHealth(l) /\ StopGateway(l, "restart")
  BY <1>1, StopGatewayWatches DEF CheckHealth, Procs
<1>2. CASE UNCHANGED <<running, healthTask, pc, frame>>
  BY <1>2 DEF frame, TrackedLoopSleeps, SelfAwaiting
<1>3. CASE LoopCancelled(l)
  <2>1. l \in Tasks
    BY DEF Tasks, Procs
  <2>2. CASE l = healthTask
    <3>1. pc'[l] = "done"
      BY <1>3, <2>1 DEF LoopCancelled, End, TypeOK
    <3> QED
      BY <1>3, <2>2, <3>1 DEF LoopCancelled, gateway, TrackedLoopSleeps
  <2>3. CASE l # healthTask
    BY <1>3, <2>1, <2>3, WatchKept DEF LoopCancelled, End, gateway, frame
  <2> QED
    BY <2>2, <2>3
<1> QED
  BY <1>1, <1>2, <1>3 DEF Tick, HealthStep, LoopStarts, CheckHealth, gateway

\* A running gateway only ever cancels a health task that sleeps, or one that
\* cancels itself in its own restart (gateway.py, stop() and _health_loop()): no
\* other await of the loop is interrupted, whatever callers and loops do.
THEOREM WatchSleeps == Spec => []TrackedLoopSleeps
<1> USE LifecycleAssumption
<1>1. Init => TrackedLoopSleeps
  BY DEF Init, TrackedLoopSleeps
<1>2. TypeOK /\ TrackedLoopSleeps /\ [Next]_vars => TrackedLoopSleeps'
  <2> SUFFICES ASSUME TypeOK, TrackedLoopSleeps, [Next]_vars PROVE TrackedLoopSleeps'
    OBVIOUS
  <2>1. CASE UNCHANGED vars
    BY <2>1 DEF vars, gateway, frame, TrackedLoopSleeps, SelfAwaiting
  <2>2. ASSUME NEW p \in Procs, GatewayStep(p) PROVE TrackedLoopSleeps'
    BY <2>2, GatewayStepWatches
  <2>3. ASSUME NEW l \in Loops, Tick(l) \/ HealthStep(l) PROVE TrackedLoopSleeps'
    BY <2>3, HealthStepWatches
  <2>4. ASSUME NEW r \in Runs, RunTask(r) PROVE TrackedLoopSleeps'
    <3>1. r \in Tasks /\ r # healthTask
      BY DEF TypeOK, Tasks, Procs
    <3>2. \E next : pc' = [pc EXCEPT ![r] = next]
      <4>1. End(r) \/ \E next : RunGoes(r, next)
        BY <2>4 DEF RunTask, RunStep, RunCancelled, LoopHead, NextAttempt
      <4> QED
        BY <4>1 DEF End, RunGoes
    <3> QED
      BY <2>4, <3>1, <3>2, WatchKept DEF RunTask, gateway, frame
  <2>5. ASSUME NEW r \in Runs, TransportEvent(r) PROVE TrackedLoopSleeps'
    BY <2>5 DEF TransportEvent, gateway, frame, TrackedLoopSleeps, SelfAwaiting
  <2>6. ASSUME NEW c \in Callers, HostCall(c) PROVE TrackedLoopSleeps'
    <3>1. c \in Tasks /\ c # healthTask
      BY DEF TypeOK, Tasks, Procs
    <3>2. PICK o, t : Spawn(c, o, t)
      BY <2>6 DEF HostCall, Call, FacadeStart, FacadeStop
    <3> QED
      BY <3>1, <3>2, WatchKept DEF Spawn, gateway
  <2> QED
    BY <2>1, <2>2, <2>3, <2>4, <2>5, <2>6 DEF Next, Step, HostCall
<1> QED
  BY <1>1, <1>2, TypeCorrect, PTL DEF Spec

-----------------------------------------------------------------------------
(* Without health checks no health loop restarts the gateway, and then no  *)
(* call raises, whatever the callers do.                                   *)

Calm(q) == \A i \in 1..Len(q) : q[i].result # "tick"

Undisturbed ==
    /\ Calm(ready)
    /\ \A l \in Loops : pc[l] \in {"sleep", "done"}
    /\ NeverRaises

LEMMA CalmConcat ==
    ASSUME NEW q \in Seq(Entries), NEW s \in Seq(Entries), Calm(q), Calm(s)
    PROVE  Calm(q \o s)
BY DEF Calm

LEMMA CalmEntry ==
    ASSUME NEW t, NEW result \in Results \ {"tick"}
    PROVE  Calm(<<Entry(t, result)>>)
BY DEF Calm, Entry

LEMMA CalmAppend ==
    ASSUME NEW q \in Seq(Entries), NEW t, NEW result \in Results \ {"tick"}, Calm(q)
    PROVE  Calm(Append(q, Entry(t, result)))
BY DEF Calm, Entry

LEMMA CalmRest ==
    ASSUME TypeOK, Undisturbed, NEW t, NEW result, Resumes(t, result)
    PROVE  Rest \in Seq(Entries) /\ Calm(Rest) /\ result # "tick"
<1>1. ready \in Seq(Entries) /\ ready # <<>> /\ Head(ready) = Entry(t, result)
  BY DEF TypeOK, Resumes
<1>2. Len(ready) \in Nat /\ 1 \in 1..Len(ready) /\ Head(ready) = ready[1]
  BY <1>1
<1>3. \A i \in 1..Len(Tail(ready)) : Tail(ready)[i] = ready[i + 1] /\ i + 1 \in 1..Len(ready)
  BY <1>1
<1> QED
  BY <1>1, <1>2, <1>3 DEF Undisturbed, Calm, Rest, Entry

LEMMA CalmCancel ==
    ASSUME NEW q \in Seq(Entries), NEW t, Calm(q)
    PROVE  Calm(Cancel(q, t))
<1>1. CASE Queued(q, t)
  BY <1>1 DEF Cancel, Calm, Entry
<1>2. CASE ~Queued(q, t)
  BY <1>2, CalmAppend DEF Cancel, Results
<1> QED
  BY <1>1, <1>2

LEMMA CalmWake ==
    ASSUME LifecycleAssumption, NEW q \in Seq(Entries), NEW W \in SUBSET Procs,
           Calm(q), Wake(q, W)
    PROVE  Calm(ready')
<1>1. PICK s \in Arrangements(W) :
         ready' = q \o [i \in DOMAIN s |-> Entry(s[i], "go")]
  BY DEF Wake
<1>2. Cardinality(W) \in Nat
  BY FS_Subset, FS_CardinalityType DEF LifecycleAssumption
<1>3. s \in [1..Cardinality(W) -> W] /\ DOMAIN s = 1..Cardinality(W)
  BY DEF Arrangements
<1> DEFINE e == [i \in DOMAIN s |-> Entry(s[i], "go")]
<1>4. e \in [1..Cardinality(W) -> Entries]
  BY <1>3 DEF Entry, Entries, Results, Tasks
<1>5. e \in Seq(Entries) /\ \A i \in DOMAIN e : e[i].result = "go"
  BY <1>2, <1>4, FunctionIsSeq DEF Entry
<1> QED
  BY <1>1, <1>5, CalmConcat DEF Calm

LEMMA CalmReturn ==
    ASSUME LifecycleAssumption, TypeOK, NEW p \in Callers, NEW pcs \in [Tasks -> PCs],
           NEW q \in Seq(Entries), Calm(q), Return(p, pcs, q),
           \A l \in Loops : pcs[l] \in {"sleep", "done"},
           \A c \in Callers : pcs[c] # "raised"
    PROVE  Undisturbed'
<1>1. p \notin Loops
  BY DEF LifecycleAssumption
<1>2. PICK s \in {"idle", "begin"} : pc' = [pcs EXCEPT ![p] = s]
  BY <1>1 DEF Return
<1>3. Loops \subseteq Tasks /\ Callers \subseteq Tasks
  BY DEF Tasks, Procs
<1>4. (\A l \in Loops : pc'[l] \in {"sleep", "done"}) /\ NeverRaises'
  BY <1>1, <1>2, <1>3 DEF NeverRaises
<1>5. CASE ready' = <<Entry(p, "go")>> \o q
  <2>1. <<Entry(p, "go")>> \in Seq(Entries) /\ Calm(<<Entry(p, "go")>>)
    BY <1>3, GoEntry, CalmEntry DEF Results
  <2> QED
    BY <1>4, <1>5, <2>1, CalmConcat DEF Undisturbed
<1>6. CASE Wake(q, AwaitsStart(p))
  <2>1. AwaitsStart(p) \in SUBSET Procs
    BY DEF AwaitsStart, Procs
  <2> QED
    BY <1>4, <1>6, <2>1, CalmWake DEF Undisturbed
<1> QED
  BY <1>5, <1>6 DEF Return

LEMMA CalmLaunch ==
    ASSUME LifecycleAssumption, TypeOK, Undisturbed, NEW p \in Callers, NEW o, NEW x,
           NEW ncs, Rest \in Seq(Entries), Calm(Rest), LaunchNode(p, o, x, ncs)
    PROVE  Undisturbed'
<1>1. PICK r \in Runs : /\ pc' = [pc EXCEPT ![p] = "yield", ![r] = "new"]
                        /\ ready' = Rest \o <<Entry(r, "go"), Entry(p, "go")>>
  BY DEF LaunchNode, FreeRuns
<1>2. r \in Tasks /\ p \in Tasks /\ r \notin Loops /\ r \notin Callers /\ p \notin Loops
  BY DEF Tasks, Procs, LifecycleAssumption
<1>3. (\A l \in Loops : pc'[l] \in {"sleep", "done"}) /\ NeverRaises'
  BY <1>1, <1>2 DEF TypeOK, Undisturbed, NeverRaises, Tasks, Procs
<1>4. /\ <<Entry(r, "go"), Entry(p, "go")>> \in Seq(Entries)
      /\ Calm(<<Entry(r, "go"), Entry(p, "go")>>)
  BY <1>2, GoEntry DEF Calm, Entry
<1> QED
  BY <1>1, <1>3, <1>4, CalmConcat DEF Undisturbed

LEMMA CalmFinishStart ==
    ASSUME LifecycleAssumption, TypeOK, Undisturbed, NEW p \in Callers,
           Rest \in Seq(Entries), Calm(Rest), FinishStart(p)
    PROVE  Undisturbed'
<1>1. PICK l \in Loops :
         Return(p, [pc EXCEPT ![l] = "sleep"], Append(Rest, Entry(l, "go")))
  BY DEF FinishStart, FreeLoops
<1> DEFINE pcs == [pc EXCEPT ![l] = "sleep"]
           q   == Append(Rest, Entry(l, "go"))
<1>2. l \in Tasks /\ l \notin Callers
  BY DEF Tasks, Procs, LifecycleAssumption
<1>3. pcs \in [Tasks -> PCs]
  BY DEF TypeOK, PCs, LoopPCs
<1>4. /\ \A k \in Loops : pcs[k] \in {"sleep", "done"}
      /\ \A c \in Callers : pcs[c] # "raised"
  BY <1>2 DEF TypeOK, Undisturbed, NeverRaises, Tasks, Procs
<1>5. q \in Seq(Entries) /\ Calm(q)
  BY <1>2, GoEntry, CalmAppend DEF Results
<1>6. Return(p, pcs, q)
  BY <1>1
<1> HIDE DEF pcs, q
<1> QED
  BY <1>3, <1>4, <1>5, <1>6, CalmReturn

LEMMA CalmFinishStop ==
    ASSUME LifecycleAssumption, TypeOK, Undisturbed, NEW p \in Callers, NEW o, NEW ncs,
           Rest \in Seq(Entries), Calm(Rest), FinishStop(p, o, ncs)
    PROVE  Undisturbed'
<1>1. CASE Return(p, pc, Rest)
  <2>1. pc \in [Tasks -> PCs]
    BY DEF TypeOK
  <2> QED
    BY <1>1, <2>1, CalmReturn DEF Undisturbed, NeverRaises
<1>2. CASE \E x : LaunchNode(p, o, x, [ncs EXCEPT ![x] = NewContext])
  BY <1>2, CalmLaunch
<1> QED
  BY <1>1, <1>2 DEF FinishStop

\* A caller that goes on to another await: nothing else moves.
LEMMA CalmMove ==
    ASSUME LifecycleAssumption, TypeOK, Undisturbed, NEW p \in Tasks \ Loops,
           NEW s \in PCs \ {"raised"}, pc' = [pc EXCEPT ![p] = s], Calm(ready')
    PROVE  Undisturbed'
BY DEF TypeOK, Undisturbed, NeverRaises, Tasks, Procs

LEMMA CalmStopNode ==
    ASSUME LifecycleAssumption, TypeOK, Undisturbed, NEW p \in Callers, NEW o,
           Rest \in Seq(Entries), Calm(Rest), StopNode(p, o)
    PROVE  Undisturbed'
<1>1. CASE \E ncs : FinishStop(p, o, ncs)
  BY <1>1, CalmFinishStop
<1>2. CASE /\ pc' = [pc EXCEPT ![p] = "run"]
           /\ ready' = Cancel(Rest, nc[context].runTask)
  <2>1. p \in Tasks \ Loops /\ "run" \in PCs \ {"raised"}
    BY DEF Tasks, Procs, LifecycleAssumption, PCs, CallerPCs
  <2> QED
    BY <1>2, <2>1, CalmCancel, CalmMove
<1> QED
  BY <1>1, <1>2 DEF StopNode

LEMMA CalmStopGateway ==
    ASSUME LifecycleAssumption, TypeOK, Undisturbed, NEW p \in Callers, NEW o,
           Rest \in Seq(Entries), Calm(Rest), StopGateway(p, o)
    PROVE  Undisturbed'
<1>1. CASE FinishStop(p, o, nc)
  BY <1>1, CalmFinishStop
<1>2. CASE HealthTaskLive /\ SelfAwaiting(healthTask)
  BY <1>2 DEF HealthTaskLive, SelfAwaiting, Undisturbed, TypeOK
<1>3. CASE /\ pc' = [pc EXCEPT ![p] = "health"]
           /\ ready' = Cancel(Rest, healthTask)
  <2>1. p \in Tasks \ Loops /\ "health" \in PCs \ {"raised"}
    BY DEF Tasks, Procs, LifecycleAssumption, PCs, CallerPCs
  <2> QED
    BY <1>3, <2>1, CalmCancel, CalmMove
<1>4. CASE StopNode(p, o)
  BY <1>4, CalmStopNode
<1> QED
  BY <1>1, <1>2, <1>3, <1>4 DEF StopGateway

LEMMA CalmGatewayStep ==
    ASSUME LifecycleAssumption, TypeOK, Undisturbed, NEW p \in Procs, GatewayStep(p)
    PROVE  Undisturbed'
<1>1. p \in Callers
  BY DEF GatewayStep, AwaitStart, BeginStart, BeginStop, ResumeStart,
         ResumeStopAfterHealth, ResumeStopAfterRun, Undisturbed, Procs
<1>2. PICK result : Resumes(p, result)
  BY DEF GatewayStep, AwaitStart, BeginStart, BeginStop, ResumeStart,
         ResumeStopAfterHealth, ResumeStopAfterRun
<1>3. Rest \in Seq(Entries) /\ Calm(Rest)
  BY <1>2, CalmRest
<1>4. CASE AwaitStart(p)
  <2>1. p \in Tasks \ Loops /\ "pending" \in PCs \ {"raised"}
    BY <1>1 DEF Tasks, Procs, LifecycleAssumption, PCs, CallerPCs
  <2> QED
    BY <1>3, <1>4, <2>1, CalmMove DEF AwaitStart
<1>5. CASE BeginStart(p)
  <2>1. CASE Return(p, pc, Rest)
    <3>1. pc \in [Tasks -> PCs]
      BY DEF TypeOK
    <3> QED
      BY <1>1, <1>3, <2>1, <3>1, CalmReturn DEF Undisturbed, NeverRaises
  <2> QED
    BY <1>1, <1>3, <1>5, <2>1, CalmFinishStart, CalmLaunch DEF BeginStart
<1>6. CASE BeginStop(p)
  BY <1>1, <1>3, <1>6, CalmStopGateway DEF BeginStop
<1>7. CASE ResumeStart(p)
  BY <1>1, <1>3, <1>7, CalmFinishStart DEF ResumeStart
<1>8. CASE ResumeStopAfterHealth(p)
  BY <1>1, <1>3, <1>8, CalmStopNode DEF ResumeStopAfterHealth
<1>9. CASE ResumeStopAfterRun(p)
  BY <1>1, <1>3, <1>9, CalmFinishStop DEF ResumeStopAfterRun
<1> QED
  BY <1>4, <1>5, <1>6, <1>7, <1>8, <1>9 DEF GatewayStep

\* A task ends: those that await it are queued.
LEMMA CalmEnd ==
    ASSUME LifecycleAssumption, TypeOK, Undisturbed, NEW t \in Loops \cup Runs,
           Rest \in Seq(Entries), Calm(Rest), End(t)
    PROVE  Undisturbed'
<1>1. Waiters(t) \ {t} \in SUBSET Procs
  BY DEF Waiters
<1>2. Calm(ready')
  BY <1>1, CalmWake DEF End
<1>3. t \in Tasks /\ t \notin Callers
  BY DEF Tasks, Procs, LifecycleAssumption
<1> QED
  BY <1>2, <1>3 DEF End, TypeOK, Undisturbed, NeverRaises, Tasks, Procs

LEMMA CalmRunTask ==
    ASSUME LifecycleAssumption, TypeOK, Undisturbed, NEW r \in Runs, RunTask(r)
    PROVE  Undisturbed'
<1>1. PICK result : Resumes(r, result)
  BY DEF RunTask, RunStep, RunCancelled
<1>2. Rest \in Seq(Entries) /\ Calm(Rest)
  BY <1>1, CalmRest
<1>3. End(r) \/ \E next \in RunPCs : RunGoes(r, next)
  BY DEF RunTask, RunStep, RunCancelled, LoopHead, NextAttempt, RunPCs
<1>4. ASSUME NEW next \in RunPCs, RunGoes(r, next) PROVE Undisturbed'
  <2>1. r \in Tasks \ Loops /\ next \in PCs \ {"raised"}
    BY DEF Tasks, Procs, LifecycleAssumption, PCs, RunPCs
  <2> QED
    BY <1>2, <1>4, <2>1, CalmMove DEF RunGoes
<1> QED
  BY <1>2, <1>3, <1>4, CalmEnd

\* Without health checks no lifecycle call raises (gateway.py stop(), "Never
\* raises"), however the calls overlap: what it takes is a health loop that
\* awaits itself in its own restart.
THEOREM RaisesNothing == ~HealthChecks => (Spec => []NeverRaises)
<1> SUFFICES ASSUME ~HealthChecks PROVE Spec => []NeverRaises
  OBVIOUS
<1> USE LifecycleAssumption
<1>1. Init => Undisturbed
  BY DEF Init, Undisturbed, Calm, NeverRaises, Tasks, Procs, LifecycleAssumption
<1>2. TypeOK /\ Undisturbed /\ [Next]_vars => Undisturbed'
  <2> SUFFICES ASSUME ~HealthChecks, TypeOK, Undisturbed, [Next]_vars PROVE Undisturbed'
    OBVIOUS
  <2>1. CASE UNCHANGED vars
    BY <2>1 DEF vars, Undisturbed, NeverRaises
  <2>2. ASSUME NEW p \in Procs, GatewayStep(p) PROVE Undisturbed'
    BY <2>2, CalmGatewayStep
  <2>3. ASSUME NEW l \in Loops, HealthStep(l) PROVE Undisturbed'
    <3>1. PICK result : Resumes(l, result)
      BY <2>3 DEF HealthStep, LoopStarts, CheckHealth, LoopCancelled
    <3>2. Rest \in Seq(Entries) /\ Calm(Rest)
      BY <3>1, CalmRest
    <3>3. CASE LoopStarts(l)
      BY <3>2, <3>3 DEF LoopStarts, Undisturbed, NeverRaises
    <3>4. CASE LoopCancelled(l)
      BY <3>2, <3>4, CalmEnd DEF LoopCancelled
    <3>5. ~CheckHealth(l)
      BY CalmRest DEF CheckHealth
    <3> QED
      BY <2>3, <3>3, <3>4, <3>5 DEF HealthStep
  <2>4. ASSUME NEW r \in Runs, RunTask(r) PROVE Undisturbed'
    BY <2>4, CalmRunTask
  <2>5. ASSUME NEW r \in Runs, TransportEvent(r) PROVE Undisturbed'
    <3>1. PICK result \in {"ok", "error"} :
             ready' = Append(ready, Entry(r, result)) /\ pc' = pc
      BY <2>5 DEF TransportEvent
    <3>2. Calm(ready')
      BY <3>1, CalmAppend DEF TypeOK, Undisturbed, Results
    <3> QED
      BY <3>1, <3>2 DEF Undisturbed, NeverRaises
  <2>6. ASSUME NEW c \in Callers, HostCall(c) PROVE Undisturbed'
    <3>1. PICK o, t : Spawn(c, o, t)
      BY <2>6 DEF HostCall, Call, FacadeStart, FacadeStop
    <3>2. Calm(ready')
      BY <3>1, CalmAppend DEF Spawn, TypeOK, Undisturbed, Results
    <3>3. c \in Tasks \ Loops /\ "begin" \in PCs \ {"raised"}
      BY DEF Tasks, Procs, LifecycleAssumption, PCs, CallerPCs
    <3> QED
      BY <3>1, <3>2, <3>3, CalmMove DEF Spawn
  <2> QED
    BY <2>1, <2>2, <2>3, <2>4, <2>5, <2>6 DEF Next, Step, HostCall, Tick
<1>3. Undisturbed => NeverRaises
  BY DEF Undisturbed
<1> QED
  BY <1>1, <1>2, <1>3, TypeCorrect, PTL DEF Spec

-----------------------------------------------------------------------------
(* The queue of the event loop: what is in it, and who comes first.        *)

Single(q) == \A i, j \in 1..Len(q) : q[i].task = q[j].task => i = j
InQueue(q) == {q[i] : i \in 1..Len(q)}

\* Caller c comes before every other caller.
Leads(q, c) ==
    \E i \in 1..Len(q) :
        /\ q[i].task = c
        /\ \A j \in 1..Len(q) : q[j].task \in Callers => i <= j

LEMMA QueuedIn ==
    ASSUME NEW q, NEW t
    PROVE  Queued(q, t) <=> \E e \in InQueue(q) : e.task = t
BY DEF Queued, InQueue

LEMMA RestQueue ==
    ASSUME NEW q \in Seq(Entries), q # <<>>, Single(q)
    PROVE  /\ Tail(q) \in Seq(Entries) /\ Single(Tail(q))
           /\ Head(q) \in InQueue(q)
           /\ InQueue(Tail(q)) = InQueue(q) \ {Head(q)}
           /\ ~Queued(Tail(q), Head(q).task)
           /\ \A c : Leads(q, c) /\ c # Head(q).task => Leads(Tail(q), c)
           /\ \A c : Leads(q, c) /\ Head(q).task \in Callers => c = Head(q).task
<1>1. /\ Len(q) \in Nat \ {0} /\ Head(q) = q[1] /\ Tail(q) \in Seq(Entries)
      /\ Len(Tail(q)) = Len(q) - 1 /\ \A i \in 1..Len(q) - 1 : Tail(q)[i] = q[i + 1]
  OBVIOUS
<1> DEFINE s == Tail(q)
           n == Len(q)
           h == Head(q)
<1>2. /\ n \in Nat \ {0} /\ h = q[1] /\ Len(s) = n - 1
      /\ \A i \in 1..n - 1 : s[i] = q[i + 1]
  BY <1>1
<1> HIDE DEF s, n, h
<1>3. Single(s)
  BY <1>2 DEF Single, n
<1>4. h \in InQueue(q)
  BY <1>2 DEF InQueue, n
<1>5. InQueue(s) = InQueue(q) \ {h}
  <2>1. ASSUME NEW e \in InQueue(s) PROVE e \in InQueue(q) /\ e # h
    <3>1. PICK i \in 1..n - 1 : e = q[i + 1]
      BY <1>2, <2>1 DEF InQueue
    <3> QED
      BY <1>2, <3>1 DEF InQueue, Single, n
  <2>2. ASSUME NEW e \in InQueue(q), e # h PROVE e \in InQueue(s)
    <3>1. PICK i \in 1..n : e = q[i]
      BY <2>2 DEF InQueue, n
    <3>2. i - 1 \in 1..n - 1 /\ s[i - 1] = e
      BY <1>2, <2>2, <3>1
    <3> QED
      BY <1>2, <3>2 DEF InQueue
  <2> QED
    BY <2>1, <2>2
<1>6. ~Queued(s, h.task)
  BY <1>2 DEF Queued, Single, n
<1>7. ASSUME NEW c, Leads(q, c), c # h.task PROVE Leads(s, c)
  <2>1. PICK i \in 1..n : /\ q[i].task = c
                          /\ \A j \in 1..n : q[j].task \in Callers => i <= j
    BY <1>7 DEF Leads, n
  <2>2. i - 1 \in 1..n - 1 /\ s[i - 1].task = c
    <3>1. i # 1
      BY <1>2, <1>7, <2>1
    <3>2. i - 1 \in 1..n - 1 /\ (i - 1) + 1 = i
      BY <1>2, <2>1, <3>1
    <3> QED
      BY <1>2, <2>1, <3>2
  <2>3. ASSUME NEW j \in 1..n - 1, s[j].task \in Callers PROVE i - 1 <= j
    <3>1. j + 1 \in 1..n /\ s[j] = q[j + 1]
      BY <1>2
    <3>2. i <= j + 1
      BY <2>1, <2>3, <3>1
    <3> QED
      BY <1>2, <3>2
  <2> QED
    BY <1>2, <2>2, <2>3 DEF Leads
<1>8. ASSUME NEW c, Leads(q, c), h.task \in Callers PROVE c = h.task
  BY <1>2, <1>8 DEF Leads, n
<1> QED
  BY <1>1, <1>3, <1>4, <1>5, <1>6, <1>7, <1>8 DEF s, h

LEMMA ConcatQueue ==
    ASSUME NEW q \in Seq(Entries), NEW s \in Seq(Entries), Single(q), Single(s),
           \A e \in InQueue(q), f \in InQueue(s) : e.task # f.task
    PROVE  /\ q \o s \in Seq(Entries) /\ Single(q \o s)
           /\ InQueue(q \o s) = InQueue(q) \cup InQueue(s)
           /\ \A c : Leads(q, c) => Leads(q \o s, c)
           /\ \A c : Leads(s, c) /\ (\A e \in InQueue(q) : e.task \notin Callers)
                 => Leads(q \o s, c)
<1> DEFINE m == Len(q)
           n == Len(s)
           u == q \o s
<1>1. /\ u \in Seq(Entries) /\ m \in Nat /\ n \in Nat /\ Len(u) = m + n
      /\ \A i \in 1..m : u[i] = q[i]
      /\ \A i \in 1..n : u[m + i] = s[i]
  OBVIOUS
<1> HIDE DEF m, n, u
<1>2. \A i \in 1..m + n : i \in 1..m \/ (i - m \in 1..n /\ u[i] = s[i - m])
  BY <1>1
<1>3. /\ \A i \in 1..m : u[i] \in InQueue(q)
      /\ \A i \in 1..m + n : i \notin 1..m => u[i] \in InQueue(s)
  <2>1. \A i \in 1..m : u[i] \in InQueue(q)
    BY <1>1 DEF InQueue, m
  <2>2. \A i \in 1..m + n : i \notin 1..m => u[i] \in InQueue(s)
    BY <1>2 DEF InQueue, n
  <2> QED
    BY <2>1, <2>2
<1>4. Single(u)
  <2> SUFFICES ASSUME NEW i \in 1..m + n, NEW j \in 1..m + n, u[i].task = u[j].task
               PROVE  i = j
    BY <1>1 DEF Single
  <2>1. CASE i \in 1..m /\ j \in 1..m
    BY <1>1, <2>1 DEF Single, m
  <2>2. CASE i \in 1..m /\ j \notin 1..m
    <3>1. u[i] \in InQueue(q) /\ u[j] \in InQueue(s)
      BY <1>3, <2>2
    <3> QED
      BY <3>1
  <2>3. CASE i \notin 1..m /\ j \in 1..m
    <3>1. u[j] \in InQueue(q) /\ u[i] \in InQueue(s)
      BY <1>3, <2>3
    <3> QED
      BY <3>1
  <2>4. CASE i \notin 1..m /\ j \notin 1..m
    <3>1. /\ i - m \in 1..n /\ u[i] = s[i - m]
          /\ j - m \in 1..n /\ u[j] = s[j - m]
      BY <1>2, <2>4
    <3>2. i - m = j - m
      BY <3>1 DEF Single, n
    <3> QED
      BY <1>1, <3>2
  <2> QED
    BY <2>1, <2>2, <2>3, <2>4
<1>5. InQueue(u) = InQueue(q) \cup InQueue(s)
  <2>1. ASSUME NEW e \in InQueue(u) PROVE e \in InQueue(q) \cup InQueue(s)
    <3>1. PICK i \in 1..m + n : e = u[i]
      BY <1>1, <2>1 DEF InQueue
    <3> QED
      BY <1>3, <3>1
  <2>2. ASSUME NEW e \in InQueue(q) PROVE e \in InQueue(u)
    <3>1. PICK i \in 1..m : e = u[i]
      BY <1>1, <2>2 DEF InQueue, m
    <3> QED
      BY <1>1, <3>1 DEF InQueue
  <2>3. ASSUME NEW e \in InQueue(s) PROVE e \in InQueue(u)
    <3>1. PICK i \in 1..n : e = u[m + i]
      BY <1>1, <2>3 DEF InQueue, n
    <3>2. m + i \in 1..m + n
      BY <1>1
    <3> QED
      BY <1>1, <3>1, <3>2 DEF InQueue
  <2> QED
    BY <2>1, <2>2, <2>3
<1>6. ASSUME NEW c, Leads(q, c) PROVE Leads(u, c)
  <2>1. PICK i \in 1..m : /\ q[i].task = c
                          /\ \A j \in 1..m : q[j].task \in Callers => i <= j
    BY <1>6 DEF Leads, m
  <2>2. i \in 1..m + n /\ u[i].task = c
    BY <1>1, <2>1
  <2>3. \A j \in 1..m + n : u[j].task \in Callers => i <= j
    BY <1>1, <2>1
  <2> QED
    BY <1>1, <2>2, <2>3 DEF Leads
<1>7. ASSUME NEW c, Leads(s, c), \A e \in InQueue(q) : e.task \notin Callers
      PROVE  Leads(u, c)
  <2>1. PICK i \in 1..n : /\ s[i].task = c
                          /\ \A j \in 1..n : s[j].task \in Callers => i <= j
    BY <1>7 DEF Leads, n
  <2>2. m + i \in 1..m + n /\ u[m + i].task = c
    BY <1>1, <2>1
  <2>3. \A j \in 1..m : u[j].task \notin Callers
    BY <1>1, <1>7 DEF InQueue, m
  <2>4. \A j \in 1..m + n : u[j].task \in Callers => m + i <= j
    <3> SUFFICES ASSUME NEW j \in 1..m + n, u[j].task \in Callers
                 PROVE  m + i <= j
      OBVIOUS
    <3>1. j - m \in 1..n /\ u[j] = s[j - m]
      BY <1>2, <2>3
    <3>2. i <= j - m
      BY <2>1, <3>1
    <3> QED
      BY <1>1, <3>1, <3>2
  <2> QED
    BY <1>1, <2>2, <2>4 DEF Leads
<1> QED
  BY <1>1, <1>4, <1>5, <1>6, <1>7 DEF u

LEMMA OneEntry ==
    ASSUME NEW e \in Entries
    PROVE  /\ <<e>> \in Seq(Entries) /\ Single(<<e>>) /\ InQueue(<<e>>) = {e}
           /\ Leads(<<e>>, e.task)
<1>1. Len(<<e>>) = 1 /\ <<e>>[1] = e /\ <<e>> \in Seq(Entries)
  OBVIOUS
<1>2. \A i \in 1..1 : i = 1
  OBVIOUS
<1>3. 1 \in 1..1
  OBVIOUS
<1> HIDE DEF Entries
<1>4. Single(<<e>>)
  BY <1>1, <1>2 DEF Single
<1>5. InQueue(<<e>>) = {e}
  BY <1>1, <1>2, <1>3 DEF InQueue
<1>6. Leads(<<e>>, e.task)
  BY <1>1, <1>2, <1>3 DEF Leads
<1> QED
  BY <1>1, <1>4, <1>5, <1>6

LEMMA AppendQueue ==
    ASSUME NEW q \in Seq(Entries), Single(q), NEW e \in Entries, ~Queued(q, e.task)
    PROVE  /\ Append(q, e) \in Seq(Entries) /\ Single(Append(q, e))
           /\ InQueue(Append(q, e)) = InQueue(q) \cup {e}
           /\ \A c : Leads(q, c) => Leads(Append(q, e), c)
           /\ (\A f \in InQueue(q) : f.task \notin Callers) => Leads(Append(q, e), e.task)
<1> DEFINE one == <<e>>
<1>1. Append(q, e) = q \o one
  OBVIOUS
<1>2. one \in Seq(Entries) /\ Single(one) /\ InQueue(one) = {e} /\ Leads(one, e.task)
  BY OneEntry
<1> HIDE DEF one
<1>3. \A f \in InQueue(q), g \in InQueue(one) : f.task # g.task
  BY <1>2, QueuedIn
<1> QED
  BY <1>1, <1>2, <1>3, ConcatQueue

LEMMA CancelQueue ==
    ASSUME NEW q \in Seq(Entries), Single(q), NEW t \in Tasks
    PROVE  /\ Cancel(q, t) \in Seq(Entries) /\ Single(Cancel(q, t))
           /\ InQueue(Cancel(q, t)) =
                 {e \in InQueue(q) : e.task # t} \cup {Entry(t, "cancel")}
           /\ \A c : Leads(q, c) => Leads(Cancel(q, t), c)
<1> DEFINE x == Entry(t, "cancel")
<1>0. x \in Entries /\ x.task = t
  BY DEF Entry, Entries, Results
<1>1. CASE ~Queued(q, t)
  <2>1. Cancel(q, t) = Append(q, x)
    BY <1>1 DEF Cancel
  <2>2. {e \in InQueue(q) : e.task # t} = InQueue(q)
    BY <1>1, QueuedIn
  <2> QED
    BY <1>0, <1>1, <2>1, <2>2, AppendQueue
<1>2. CASE Queued(q, t)
  <2> DEFINE u == Cancel(q, t)
             n == Len(q)
  <2>1. u = [i \in 1..n |-> IF q[i].task = t THEN x ELSE q[i]]
    BY <1>2 DEF Cancel
  <2>2. u \in Seq(Entries)
    BY CancelType
  <2>3. n \in Nat /\ Len(u) = n /\ \A i \in 1..n : u[i] = IF q[i].task = t THEN x ELSE q[i]
    BY <2>1
  <2> HIDE DEF u, n, x
  <2>4. \A i \in 1..n : u[i].task = q[i].task
    BY <1>0, <2>3
  <2>5. Single(u)
    BY <2>3, <2>4 DEF Single, n
  <2>6. ASSUME NEW e \in InQueue(u) PROVE e = x \/ (e \in InQueue(q) /\ e.task # t)
    BY <2>3, <2>6 DEF InQueue, n
  <2>7. ASSUME NEW e \in InQueue(q), e.task # t PROVE e \in InQueue(u)
    BY <2>3, <2>7 DEF InQueue, n
  <2>8. x \in InQueue(u)
    BY <1>2, <2>3 DEF Queued, InQueue, n
  <2>9. InQueue(u) = {e \in InQueue(q) : e.task # t} \cup {x}
    BY <2>6, <2>7, <2>8
  <2>10. ASSUME NEW c, Leads(q, c) PROVE Leads(u, c)
    BY <2>3, <2>4, <2>10 DEF Leads, n
  <2> QED
    BY <2>2, <2>5, <2>9, <2>10 DEF u, x
<1> QED
  BY <1>1, <1>2

LEMMA WakeQueue ==
    ASSUME LifecycleAssumption, NEW q \in Seq(Entries), Single(q),
           NEW W \in SUBSET Procs, \A w \in W : ~Queued(q, w), Wake(q, W)
    PROVE  /\ ready' \in Seq(Entries) /\ Single(ready')
           /\ InQueue(ready') = InQueue(q) \cup {Entry(w, "go") : w \in W}
           /\ \A c : Leads(q, c) => Leads(ready', c)
<1>1. PICK s \in Arrangements(W) :
         ready' = q \o [i \in DOMAIN s |-> Entry(s[i], "go")]
  BY DEF Wake
<1> DEFINE n == Cardinality(W)
           u == [i \in DOMAIN s |-> Entry(s[i], "go")]
<1>2. IsFiniteSet(W) /\ n \in Nat
  BY FS_Subset, FS_CardinalityType DEF LifecycleAssumption
<1>3. s \in Surjection(1..n, W) /\ s \in [1..n -> W]
  BY DEF Arrangements, Surjection
<1>4. \A i, j \in 1..n : s[i] = s[j] => i = j
  <2>1. IsFiniteSet(1..n) /\ Cardinality(1..n) = n
    BY <1>2, FS_Interval
  <2>2. s \in Injection(1..n, W)
    BY <1>3, <2>1, FS_SurjSameCardinalityImpliesInj
  <2> QED
    BY <1>3, <2>2 DEF Injection, IsInjective
<1>5. u = [i \in 1..n |-> Entry(s[i], "go")]
  BY <1>3
<1>6. \A i \in 1..n : s[i] \in W /\ Entry(s[i], "go") \in Entries
  BY <1>3, GoEntry DEF Tasks
<1>7. u \in Seq(Entries) /\ Len(u) = n
  <2>1. u \in [1..n -> Entries]
    BY <1>5, <1>6
  <2> QED
    BY <1>2, <1>5, <2>1, FunctionIsSeq
<1>8. \A i \in 1..n : u[i] = Entry(s[i], "go") /\ u[i].task = s[i]
  BY <1>5 DEF Entry
<1> HIDE DEF n, u
<1>9. Single(u)
  BY <1>4, <1>7, <1>8 DEF Single
<1>10. InQueue(u) = {Entry(w, "go") : w \in W}
  BY <1>3, <1>6, <1>7, <1>8 DEF InQueue, Surjection
<1>11. \A e \in InQueue(q), f \in InQueue(u) : e.task # f.task
  BY <1>10, QueuedIn DEF Entry
<1> QED
  BY <1>1, <1>7, <1>9, <1>10, <1>11, ConcatQueue DEF u

LEMMA Disjoint ==
    ASSUME LifecycleAssumption
    PROVE  /\ Callers \cap Loops = {} /\ Callers \cap Runs = {} /\ Loops \cap Runs = {}
           /\ Callers \subseteq Procs /\ Loops \subseteq Procs /\ Procs \subseteq Tasks
           /\ Runs \subseteq Tasks /\ None \notin Tasks /\ None \notin Contexts
           /\ None \notin Calls
           /\ \A t \in Tasks : t \in Callers \/ t \in Loops \/ t \in Runs
BY DEF LifecycleAssumption, Procs, Tasks

-----------------------------------------------------------------------------
(* Who is resumed before whom.  A step takes the head of the queue and adds *)
(* at the end, or puts the head back: the others keep their order.          *)

\* Task a is resumed before task b.
Before(q, a, b) ==
    \E i, j \in 1..Len(q) : i < j /\ q[i].task = a /\ q[j].task = b

\* Task y is resumed next, right after task r, or before it.
Close(q, r, y) ==
    \E i \in 1..Len(q) :
        /\ q[i].task = y
        /\ i = 1 \/ \E j \in 1..Len(q) : q[j].task = r /\ i <= j + 1

First(q, y) == q # <<>> /\ q[1].task = y

\* The tasks of q are the first of those of s.
Grows(q, s) ==
    /\ q \in Seq(Entries) /\ s \in Seq(Entries) /\ Len(q) <= Len(s)
    /\ \A i \in 1..Len(q) : s[i].task = q[i].task

LEMMA GrowsConcat ==
    ASSUME NEW q \in Seq(Entries), NEW s \in Seq(Entries)
    PROVE  Grows(q, q \o s)
<1> HIDE DEF Entries
<1>1. /\ q \o s \in Seq(Entries) /\ Len(q) \in Nat /\ Len(s) \in Nat
      /\ Len(q \o s) = Len(q) + Len(s)
      /\ \A i \in 1..Len(q) : (q \o s)[i] = q[i]
  OBVIOUS
<1> QED
  BY <1>1 DEF Grows

LEMMA GrowsAppend ==
    ASSUME NEW q \in Seq(Entries), NEW e \in Entries
    PROVE  Grows(q, Append(q, e))
<1>1. <<e>> \in Seq(Entries) /\ Append(q, e) = q \o <<e>>
  OBVIOUS
<1> QED
  BY <1>1, GrowsConcat

LEMMA GrowsCancel ==
    ASSUME NEW q \in Seq(Entries), NEW t \in Tasks
    PROVE  Grows(q, Cancel(q, t))
<1> DEFINE x == Entry(t, "cancel")
<1>0. x \in Entries /\ x.task = t
  BY DEF Entry, Entries, Results
<1>1. CASE ~Queued(q, t)
  BY <1>0, <1>1, GrowsAppend DEF Cancel
<1>2. CASE Queued(q, t)
  <2> DEFINE u == Cancel(q, t)
             n == Len(q)
  <2>1. u = [i \in 1..n |-> IF q[i].task = t THEN x ELSE q[i]]
    BY <1>2 DEF Cancel
  <2>2. u \in Seq(Entries)
    BY CancelType
  <2>3. n \in Nat /\ Len(u) = n /\ \A i \in 1..n : u[i] = IF q[i].task = t THEN x ELSE q[i]
    BY <2>1
  <2> HIDE DEF u, n, x
  <2>4. \A i \in 1..n : u[i].task = q[i].task
    BY <1>0, <2>3
  <2> QED
    BY <2>2, <2>3, <2>4 DEF Grows, n, u
<1> QED
  BY <1>1, <1>2

LEMMA GrowsTrans ==
    ASSUME NEW q, NEW s, NEW u, Grows(q, s), Grows(s, u)
    PROVE  Grows(q, u)
<1>1. Len(q) \in Nat /\ Len(s) \in Nat /\ Len(u) \in Nat
  BY DEF Grows
<1> QED
  BY <1>1 DEF Grows

LEMMA GrowsWake ==
    ASSUME LifecycleAssumption, NEW q \in Seq(Entries), NEW W \in SUBSET Procs,
           Wake(q, W)
    PROVE  Grows(q, ready')
<1>1. PICK s \in Arrangements(W) :
         ready' = q \o [i \in DOMAIN s |-> Entry(s[i], "go")]
  BY DEF Wake
<1>2. Cardinality(W) \in Nat
  BY FS_Subset, FS_CardinalityType DEF LifecycleAssumption
<1>3. s \in [1..Cardinality(W) -> W]
  BY <1>1 DEF Arrangements
<1>4. [i \in DOMAIN s |-> Entry(s[i], "go")] \in [1..Cardinality(W) -> Entries]
  BY <1>3, GoEntry DEF Tasks
<1>5. [i \in DOMAIN s |-> Entry(s[i], "go")] \in Seq(Entries)
  BY <1>2, <1>4, FunctionIsSeq
<1> QED
  BY <1>1, <1>5, GrowsConcat

\* What an order of the queue keeps when the queue grows.
LEMMA GrowsKeeps ==
    ASSUME NEW q, NEW s, Grows(q, s)
    PROVE  /\ \A a, b : Before(q, a, b) => Before(s, a, b)
           /\ \A r, y : Close(q, r, y) => Close(s, r, y)
           /\ \A y : First(q, y) => First(s, y)
           /\ \A t : Queued(q, t) => Queued(s, t)
<1> DEFINE m == Len(q)
           n == Len(s)
<1>1. /\ m \in Nat /\ n \in Nat /\ m <= n /\ \A i \in 1..m : s[i].task = q[i].task
      /\ q # <<>> => m > 0
      /\ n > 0 => s # <<>>
  BY DEF Grows
<1> HIDE DEF m, n
<1>2. \A i \in 1..m : i \in 1..n
  BY <1>1
<1>3. ASSUME NEW a, NEW b, Before(q, a, b) PROVE Before(s, a, b)
  <2>1. PICK i, j \in 1..m : i < j /\ q[i].task = a /\ q[j].task = b
    BY <1>3 DEF Before, m
  <2>2. i \in 1..n /\ j \in 1..n /\ s[i].task = a /\ s[j].task = b
    BY <1>1, <1>2, <2>1
  <2> QED
    BY <2>1, <2>2 DEF Before, n
<1>4. ASSUME NEW r, NEW y, Close(q, r, y) PROVE Close(s, r, y)
  <2>1. PICK i \in 1..m : /\ q[i].task = y
                          /\ i = 1 \/ \E j \in 1..m : q[j].task = r /\ i <= j + 1
    BY <1>4 DEF Close, m
  <2>2. i \in 1..n /\ s[i].task = y
    BY <1>1, <1>2, <2>1
  <2>3. i = 1 \/ \E j \in 1..n : s[j].task = r /\ i <= j + 1
    BY <1>1, <1>2, <2>1
  <2> QED
    BY <2>2, <2>3 DEF Close, n
<1>5. ASSUME NEW y, First(q, y) PROVE First(s, y)
  BY <1>1, <1>5 DEF First
<1>6. ASSUME NEW t, Queued(q, t) PROVE Queued(s, t)
  BY <1>1, <1>2, <1>6 DEF Queued, m, n
<1> QED
  BY <1>3, <1>4, <1>5, <1>6

\* What it keeps of the others when the head is taken.
LEMMA RestKeeps ==
    ASSUME NEW q \in Seq(Entries), q # <<>>, Single(q), NEW p, Head(q).task = p
    PROVE  /\ \A a, b : a # p /\ Before(q, a, b) => Before(Tail(q), a, b)
           /\ \A r, y : y # p /\ Close(q, r, y) => Close(Tail(q), r, y)
           /\ \A y : y # p /\ Close(q, p, y) => First(Tail(q), y)
           /\ \A y : First(q, y) => y = p
           /\ \A y : ~Before(q, y, p)
           /\ \A t : t # p /\ Queued(q, t) => Queued(Tail(q), t)
<1> DEFINE n == Len(q)
           s == Tail(q)
<1> HIDE DEF Entries
<1>1. /\ n \in Nat \ {0} /\ q[1].task = p /\ Len(s) = n - 1 /\ s \in Seq(Entries)
      /\ \A i \in 1..n - 1 : s[i] = q[i + 1]
      /\ \A i, j \in 1..n : q[i].task = q[j].task => i = j
  BY DEF Single
<1> HIDE DEF n, s
<1>2. \A i \in 2..n : i \in 1..n /\ i - 1 \in 1..n - 1 /\ s[i - 1] = q[i]
  BY <1>1
<1>3. \A i \in 1..n : q[i].task = p <=> i = 1
  BY <1>1
<1>4. \A i \in 1..n : i # 1 => i \in 2..n
  BY <1>1
<1>5. ASSUME NEW a, NEW b, a # p, Before(q, a, b) PROVE Before(s, a, b)
  <2>1. PICK i, j \in 1..n : i < j /\ q[i].task = a /\ q[j].task = b
    BY <1>5 DEF Before, n
  <2>2. i \in 2..n /\ j \in 2..n
    BY <1>1, <1>3, <1>4, <1>5, <2>1
  <2>3. /\ i - 1 \in 1..n - 1 /\ s[i - 1].task = a
        /\ j - 1 \in 1..n - 1 /\ s[j - 1].task = b
    BY <1>2, <2>1, <2>2
  <2>4. i - 1 < j - 1
    BY <1>1, <2>1
  <2> QED
    BY <1>1, <2>3, <2>4 DEF Before
<1>6. ASSUME NEW r, NEW y, y # p, Close(q, r, y)
      PROVE  Close(s, r, y) /\ (r = p => First(s, y))
  <2>1. PICK i \in 1..n : /\ q[i].task = y
                          /\ i = 1 \/ \E j \in 1..n : q[j].task = r /\ i <= j + 1
    BY <1>6 DEF Close, n
  <2>2. i \in 2..n
    BY <1>3, <1>4, <1>6, <2>1
  <2>3. PICK j \in 1..n : q[j].task = r /\ i <= j + 1
    BY <2>1, <2>2
  <2>4. i - 1 \in 1..n - 1 /\ s[i - 1].task = y
    BY <1>2, <2>1, <2>2
  <2>5. CASE j = 1
    <3>1. i = 2 /\ i - 1 = 1
      BY <2>2, <2>3, <2>5
    <3>2. s # <<>> /\ s[1].task = y
      BY <1>1, <2>4, <3>1
    <3> QED
      BY <1>1, <2>4, <3>1, <3>2 DEF Close, First
  <2>6. CASE j # 1
    <3>1. j \in 2..n /\ r # p
      BY <1>3, <1>4, <2>3, <2>6
    <3>2. j - 1 \in 1..n - 1 /\ s[j - 1].task = r /\ i - 1 <= (j - 1) + 1
      BY <1>2, <2>2, <2>3, <3>1
    <3> QED
      BY <1>1, <2>4, <3>1, <3>2 DEF Close
  <2> QED
    BY <2>5, <2>6
<1>7. ASSUME NEW y, First(q, y) PROVE y = p
  BY <1>1, <1>7 DEF First
<1>8. ASSUME NEW y, Before(q, y, p) PROVE FALSE
  <2>1. PICK i, j \in 1..n : i < j /\ q[i].task = y /\ q[j].task = p
    BY <1>8 DEF Before, n
  <2> QED
    BY <1>1, <1>3, <2>1
<1>9. ASSUME NEW t, t # p, Queued(q, t) PROVE Queued(s, t)
  <2>1. PICK i \in 1..n : q[i].task = t
    BY <1>9 DEF Queued, n
  <2>2. i \in 2..n
    BY <1>3, <1>4, <1>9, <2>1
  <2> QED
    BY <1>1, <1>2, <2>1, <2>2 DEF Queued
<1> QED
  BY <1>5, <1>6, <1>7, <1>8, <1>9 DEF s

\* Tasks that are appended come after those that were queued.
LEMMA LastBefore ==
    ASSUME NEW q \in Seq(Entries), NEW e \in Entries, NEW f \in Entries
    PROVE  /\ \A t : Queued(q, t) => Before(q \o <<e, f>>, t, f.task)
           /\ \A t : Queued(q, t) => Close(q \o <<e, f>>, e.task, t)
           /\ Close(q \o <<e, f>>, e.task, f.task)
<1> DEFINE n == Len(q)
           s == q \o <<e, f>>
<1> HIDE DEF Entries
<1>1. /\ n \in Nat /\ Len(s) = n + 2 /\ s[n + 1] = e /\ s[n + 2] = f
      /\ \A i \in 1..n : s[i] = q[i]
  OBVIOUS
<1> HIDE DEF n, s
<1>2. n + 1 \in 1..n + 2 /\ n + 2 \in 1..n + 2 /\ n + 2 <= (n + 1) + 1
  BY <1>1
<1>3. ASSUME NEW t, Queued(q, t)
      PROVE  Before(s, t, f.task) /\ Close(s, e.task, t)
  <2>1. PICK i \in 1..n : q[i].task = t
    BY <1>3 DEF Queued, n
  <2>2. i \in 1..n + 2 /\ s[i].task = t /\ i < n + 2 /\ i <= (n + 1) + 1
    BY <1>1, <2>1
  <2> QED
    BY <1>1, <1>2, <2>2 DEF Before, Close
<1>4. Close(s, e.task, f.task)
  BY <1>1, <1>2 DEF Close
<1> QED
  BY <1>3, <1>4 DEF s

\* What is put back at the head keeps its place.
LEMMA PutBack ==
    ASSUME NEW q \in Seq(Entries), q # <<>>, NEW e \in Entries, Head(q).task = e.task,
           NEW s, Grows(Tail(q), s)
    PROVE  Grows(q, <<e>> \o s)
<1> DEFINE n == Len(q)
           m == Len(s)
           u == <<e>> \o s
<1>1. s \in Seq(Entries)
  BY DEF Grows
<1> HIDE DEF Entries
<1>2. /\ n \in Nat \ {0} /\ q[1].task = e.task /\ Len(Tail(q)) = n - 1
      /\ \A i \in 1..n - 1 : Tail(q)[i] = q[i + 1]
  OBVIOUS
<1>3. /\ u \in Seq(Entries) /\ m \in Nat /\ Len(u) = m + 1 /\ u[1] = e
      /\ \A i \in 1..m : u[i + 1] = s[i]
  BY <1>1
<1>4. n - 1 <= m /\ \A i \in 1..n - 1 : s[i].task = Tail(q)[i].task
  BY <1>2 DEF Grows
<1> HIDE DEF n, m, u
<1>5. ASSUME NEW i \in 1..n PROVE u[i].task = q[i].task
  <2>1. CASE i = 1
    BY <1>2, <1>3, <2>1
  <2>2. CASE i # 1
    <3>1. i - 1 \in 1..n - 1 /\ i - 1 \in 1..m /\ (i - 1) + 1 = i
      BY <1>2, <1>3, <1>4, <2>2
    <3>2. u[(i - 1) + 1] = s[i - 1] /\ s[i - 1].task = Tail(q)[i - 1].task
      BY <1>3, <1>4, <3>1
    <3>3. Tail(q)[i - 1] = q[(i - 1) + 1]
      BY <1>2, <3>1
    <3> QED
      BY <3>1, <3>2, <3>3
  <2> QED
    BY <2>1, <2>2
<1> QED
  BY <1>2, <1>3, <1>4, <1>5 DEF Grows, n, u

-----------------------------------------------------------------------------
(* A connection loop that stop() awaits ends.  The invariant has two parts: *)
(* a task is in the queue only when its await is over, and what the tasks   *)
(* in NodeContext.start() and stop() know of the context they work on.      *)

\* A queued task has something to do, and what it awaited is over.
Sound(t) ==
    /\ pc[t] # "done" /\ (t \in Callers => ~Idle(t))
    /\ (t \in Procs /\ pc[t] \in {"health", "run"} /\ target[t] # t) =>
          pc[target[t]] = "done"
    /\ (t \in Procs /\ pc[t] = "pending") => Idle(target[t])

QueueSound == Single(ready) /\ \A t : Queued(ready, t) => Sound(t) /\ t \in Tasks

\* What a task may await, or be handed to await: only the facade's starts.
Aims(q) ==
    /\ target[q] \in Callers => Ops[target[q]] = {}
    /\ pc[q] \in {"health", "run"} => target[q] \in Loops \cup Runs
    /\ pc[q] = "pending" => target[q] \in Callers

AimsOK ==
    /\ startTask \in Callers => Ops[startTask] = {}
    /\ \A q \in Procs : Aims(q)

\* A step of task p leaves the other tasks where they are, and what is over, over.
Steady(p) ==
    /\ \A t \in Tasks \ {p} :
          pc[t] # "done" => pc'[t] = pc[t] /\ ncOf'[t] = ncOf[t]
    /\ \A q \in Procs \ {p} :
          /\ target'[q] = target[q]
          /\ pc[q] = "done" => pc'[q] \in {"done", "sleep"}
          /\ pc[q] \in {"health", "run"} /\ target[q] # q /\ pc[target[q]] = "done" =>
                pc'[target[q]] = "done" /\ ncOf'[target[q]] = ncOf[target[q]]
          /\ pc[q] = "pending" /\ Idle(target[q]) => Idle(target[q])'

\* It leaves them in the order they had.
OrderKept(p) ==
    /\ \A a, b : a # p /\ Before(ready, a, b) => Before(ready', a, b)
    /\ \A r, y : y # p /\ Close(ready, r, y) => Close(ready', r, y)
    /\ \A y : y # p /\ First(ready, y) => First(ready', y)
    /\ \A t : t # p /\ Queued(ready, t) => Queued(ready', t)
    /\ \A t : t # p /\ Entry(t, "cancel") \in InQueue(ready) =>
          Entry(t, "cancel") \in InQueue(ready')

\* It queues only tasks whose await is over, and itself awaits what it may.
QueuesSound(p) ==
    /\ Single(ready')
    /\ \A t : Queued(ready', t) =>
          \/ t # p /\ Queued(ready, t)
          \/ Sound(t)' /\ t \in Tasks
    /\ p \in Procs => Aims(p)'

Sane(p) == Steady(p) /\ OrderKept(p) /\ QueuesSound(p)

LEMMA SaneStep ==
    ASSUME LifecycleAssumption, TypeOK, QueueSound, AimsOK, NEW p \in Tasks, Sane(p),
           startTask' \in Callers => Ops[startTask'] = {}
    PROVE  QueueSound' /\ AimsOK'
<1>1. ASSUME NEW t, Queued(ready, t), t # p PROVE Sound(t)'
  <2>1. Sound(t) /\ t \in Tasks /\ pc'[t] = pc[t]
    BY <1>1 DEF QueueSound, Sane, Steady, Sound, Idle
  <2>2. CASE t \in Procs
    BY <1>1, <2>1, <2>2 DEF Sound, Idle, Sane, Steady
  <2>3. CASE t \notin Procs
    BY <2>1, <2>3 DEF Sound, Idle
  <2> QED
    BY <2>2, <2>3
<1>2. QueueSound'
  <2>1. Single(ready')
    BY DEF Sane, QueuesSound
  <2>2. ASSUME NEW t, Queued(ready', t) PROVE Sound(t)' /\ t \in Tasks
    BY <1>1, <2>2 DEF Sane, QueuesSound, QueueSound
  <2> QED
    BY <2>1, <2>2 DEF QueueSound
<1>3. ASSUME NEW q \in Procs PROVE Aims(q)'
  <2>1. CASE q = p
    BY <2>1 DEF Sane, QueuesSound
  <2>2. CASE q # p
    <3>1. target'[q] = target[q] /\ (pc'[q] = pc[q] \/ pc'[q] \in {"done", "sleep"})
      BY <2>2 DEF Sane, Steady, Tasks
    <3> QED
      BY <3>1 DEF AimsOK, Aims
  <2> QED
    BY <2>1, <2>2
<1> QED
  BY <1>2, <1>3 DEF AimsOK

\* The task at the head of the queue.
LEMMA Popped ==
    ASSUME TypeOK, QueueSound, NEW p, NEW result, Resumes(p, result)
    PROVE  /\ ready \in Seq(Entries) /\ ready # <<>> /\ Single(ready)
           /\ Head(ready).task = p /\ Tail(ready) = Rest
           /\ Rest \in Seq(Entries) /\ Single(Rest) /\ ~Queued(Rest, p)
           /\ \A t : t # p => (Queued(Rest, t) <=> Queued(ready, t))
           /\ \A t : t # p /\ Entry(t, "cancel") \in InQueue(ready) =>
                 Entry(t, "cancel") \in InQueue(Rest)
           /\ Sound(p) /\ p \in Tasks /\ Queued(ready, p)
<1>1. ready \in Seq(Entries) /\ ready # <<>> /\ Single(ready) /\ Head(ready) = Entry(p, result)
  BY DEF TypeOK, QueueSound, Resumes
<1>2. Head(ready).task = p /\ Tail(ready) = Rest
  BY <1>1 DEF Entry, Rest
<1>3. /\ Rest \in Seq(Entries) /\ Single(Rest) /\ ~Queued(Rest, p)
      /\ Head(ready) \in InQueue(ready)
      /\ InQueue(Rest) = InQueue(ready) \ {Head(ready)}
  BY <1>1, <1>2, RestQueue
<1>4. \A t : t # p => (Queued(Rest, t) <=> Queued(ready, t))
  BY <1>2, <1>3, QueuedIn
<1>5. \A t : t # p /\ Entry(t, "cancel") \in InQueue(ready) =>
         Entry(t, "cancel") \in InQueue(Rest)
  BY <1>2, <1>3 DEF Entry
<1>6. Queued(ready, p)
  BY <1>2, <1>3, QueuedIn
<1>7. Sound(p) /\ p \in Tasks
  BY <1>6 DEF QueueSound
<1> QED
  BY <1>1, <1>2, <1>3, <1>4, <1>5, <1>6, <1>7

LEMMA PopKeepsOrder ==
    ASSUME TypeOK, QueueSound, NEW p, NEW result, Resumes(p, result),
           Grows(Rest, ready') \/ Grows(ready, ready'),
           \A t : t # p /\ Entry(t, "cancel") \in InQueue(Rest) =>
              Entry(t, "cancel") \in InQueue(ready')
    PROVE  OrderKept(p)
<1>1. /\ ready \in Seq(Entries) /\ ready # <<>> /\ Single(ready)
      /\ Head(ready).task = p /\ Tail(ready) = Rest
      /\ \A t : t # p /\ Entry(t, "cancel") \in InQueue(ready) =>
            Entry(t, "cancel") \in InQueue(Rest)
  BY Popped
<1>2. /\ \A a, b : a # p /\ Before(ready, a, b) => Before(Rest, a, b)
      /\ \A r, y : y # p /\ Close(ready, r, y) => Close(Rest, r, y)
      /\ \A y : First(ready, y) => y = p
      /\ \A t : t # p /\ Queued(ready, t) => Queued(Rest, t)
  BY <1>1, RestKeeps
<1>3. CASE Grows(Rest, ready')
  <2>1. /\ \A a, b : Before(Rest, a, b) => Before(ready', a, b)
        /\ \A r, y : Close(Rest, r, y) => Close(ready', r, y)
        /\ \A t : Queued(Rest, t) => Queued(ready', t)
    BY <1>3, GrowsKeeps
  <2> QED
    BY <1>1, <1>2, <2>1 DEF OrderKept
<1>4. CASE Grows(ready, ready')
  <2>1. /\ \A a, b : Before(ready, a, b) => Before(ready', a, b)
        /\ \A r, y : Close(ready, r, y) => Close(ready', r, y)
        /\ \A y : First(ready, y) => First(ready', y)
        /\ \A t : Queued(ready, t) => Queued(ready', t)
    BY <1>4, GrowsKeeps
  <2> QED
    BY <1>1, <2>1 DEF OrderKept
<1> QED
  BY <1>3, <1>4

\* A step of task p that moves, beside p, at most a free task f.
LEMMA SteadyBut ==
    ASSUME LifecycleAssumption, TypeOK, AimsOK, NEW p \in Tasks,
           pc[p] # "done", p \in Callers => ~Idle(p),
           NEW f, f = p \/ (/\ pc[f] = "done" /\ \A q \in Procs : target[q] # f
                            /\ f \in Procs => pc'[f] = "sleep"),
           \A t \in Tasks \ {p, f} : pc'[t] = pc[t] /\ ncOf'[t] = ncOf[t],
           \A q \in Procs \ {p} : target'[q] = target[q]
    PROVE  Steady(p)
<1>1. ASSUME NEW t \in Tasks \ {p}, pc[t] # "done"
      PROVE  pc'[t] = pc[t] /\ ncOf'[t] = ncOf[t]
  BY <1>1
<1>2. ASSUME NEW q \in Procs \ {p}
      PROVE  /\ target'[q] = target[q]
             /\ pc[q] = "done" => pc'[q] \in {"done", "sleep"}
             /\ pc[q] \in {"health", "run"} /\ target[q] # q /\ pc[target[q]] = "done" =>
                  pc'[target[q]] = "done" /\ ncOf'[target[q]] = ncOf[target[q]]
             /\ pc[q] = "pending" /\ Idle(target[q]) => Idle(target[q])'
  <2>0. q \in Tasks
    BY Disjoint
  <2>1. pc[q] = "done" => pc'[q] \in {"done", "sleep"}
    BY <1>2, <2>0
  <2>2. ASSUME pc[q] \in {"health", "run"}, pc[target[q]] = "done"
        PROVE  pc'[target[q]] = "done" /\ ncOf'[target[q]] = ncOf[target[q]]
    <3>1. target[q] \in Tasks
      BY <2>2, Disjoint DEF AimsOK, Aims
    <3> QED
      BY <2>2, <3>1
  <2>3. ASSUME pc[q] = "pending", Idle(target[q]) PROVE Idle(target[q])'
    <3>1. target[q] \in Callers /\ target[q] \in Tasks
      BY <2>3, Disjoint DEF AimsOK, Aims
    <3>2. target[q] # p /\ pc[target[q]] # "done"
      BY <2>3, <3>1 DEF Idle
    <3> QED
      BY <2>3, <3>1, <3>2 DEF Idle
  <2> QED
    BY <2>1, <2>2, <2>3
<1> QED
  BY <1>1, <1>2 DEF Steady

\* A step of p that queues the tasks of the entries S.
LEMMA QueueGrown ==
    ASSUME TypeOK, QueueSound, NEW p, NEW result, Resumes(p, result),
           Grows(Rest, ready') \/ Grows(ready, ready'), Single(ready'),
           NEW S, InQueue(ready') \subseteq InQueue(Rest) \cup S,
           \A t : t # p /\ Entry(t, "cancel") \in InQueue(Rest) =>
              Entry(t, "cancel") \in InQueue(ready'),
           \A e \in S : Sound(e.task)' /\ e.task \in Tasks,
           p \in Procs => Aims(p)'
    PROVE  OrderKept(p) /\ QueuesSound(p)
<1>1. OrderKept(p)
  BY PopKeepsOrder
<1>2. ~Queued(Rest, p) /\ \A t : t # p => (Queued(Rest, t) <=> Queued(ready, t))
  BY Popped
<1>3. ASSUME NEW t, Queued(ready', t)
      PROVE  \/ t # p /\ Queued(ready, t)
             \/ Sound(t)' /\ t \in Tasks
  <2>1. PICK e \in InQueue(ready') : e.task = t
    BY <1>3, QueuedIn
  <2>2. CASE e \in InQueue(Rest)
    BY <1>2, <2>1, <2>2, QueuedIn
  <2>3. CASE e \in S
    BY <2>1, <2>3
  <2> QED
    BY <2>2, <2>3
<1> QED
  BY <1>1, <1>3 DEF QueuesSound

\* A step that only moves p on, and queues nothing.
LEMMA SaneMove ==
    ASSUME LifecycleAssumption, TypeOK, QueueSound, AimsOK, NEW p \in Tasks,
           NEW result, NEW s, Resumes(p, result), ready' = Rest,
           pc' = [pc EXCEPT ![p] = s] \/ UNCHANGED pc,
           UNCHANGED <<target, ncOf>>, p \in Procs => Aims(p)'
    PROVE  Sane(p)
<1>1. /\ Rest \in Seq(Entries) /\ Single(Rest) /\ Sound(p)
  BY Popped
<1>2. OrderKept(p) /\ QueuesSound(p)
  <2>1. Grows(Rest, ready')
    BY <1>1 DEF Grows
  <2> QED
    BY <1>1, <2>1, QueueGrown
<1>3. Steady(p)
  <2>1. \A t \in Tasks \ {p, p} : pc'[t] = pc[t] /\ ncOf'[t] = ncOf[t]
    BY DEF TypeOK
  <2>2. pc[p] # "done" /\ (p \in Callers => ~Idle(p))
    BY <1>1 DEF Sound, Idle
  <2> QED
    BY <2>1, <2>2, SteadyBut
<1> QED
  BY <1>2, <1>3 DEF Sane

\* A task that nothing queued is queued: nothing else moves.
LEMMA QueueAppended ==
    ASSUME LifecycleAssumption, TypeOK, QueueSound, NEW t \in Tasks, NEW result,
           Entry(t, result) \in Entries,
           ~Queued(ready, t), ready' = Append(ready, Entry(t, result)),
           Sound(t)', t \in Procs => Aims(t)'
    PROVE  OrderKept(t) /\ QueuesSound(t)
<1> DEFINE e == Entry(t, result)
<1>0. e.task = t /\ ready \in Seq(Entries) /\ Single(ready)
  BY DEF TypeOK, QueueSound, Entry
<1> HIDE DEF e
<1>1. Single(ready') /\ InQueue(ready') = InQueue(ready) \cup {e}
  BY <1>0, AppendQueue DEF e
<1>2. Grows(ready, ready')
  BY <1>0, GrowsAppend DEF e
<1>3. OrderKept(t)
  BY <1>1, <1>2, GrowsKeeps DEF OrderKept
<1>4. ASSUME NEW u, Queued(ready', u)
      PROVE  \/ u # t /\ Queued(ready, u)
             \/ Sound(u)' /\ u \in Tasks
  BY <1>0, <1>1, <1>4, QueuedIn
<1> QED
  BY <1>1, <1>3, <1>4 DEF QueuesSound

LEMMA SaneAppend ==
    ASSUME LifecycleAssumption, TypeOK, QueueSound, AimsOK, NEW t \in Tasks,
           NEW result, Entry(t, result) \in Entries,
           ~Queued(ready, t), ready' = Append(ready, Entry(t, result)),
           pc[t] \notin {"done", "health", "run", "pending"}, t \in Callers => ~Idle(t),
           UNCHANGED <<pc, target, ncOf>>
    PROVE  Sane(t)
<1>1. Sound(t)'
  BY DEF Sound, Idle
<1>2. t \in Procs => Aims(t)'
  BY DEF AimsOK, Aims
<1>3. Steady(t)
  BY SteadyBut
<1> QED
  BY <1>1, <1>2, <1>3, QueueAppended DEF Sane

\* A task ends, and the tasks that await it are queued.
LEMMA SaneEnd ==
    ASSUME LifecycleAssumption, TypeOK, QueueSound, AimsOK, NEW p \in Tasks,
           NEW result, Resumes(p, result), End(p), UNCHANGED <<target, ncOf>>
    PROVE  /\ Sane(p)
           /\ \A w \in Waiters(p) \ {p} : Queued(ready', w)
<1> DEFINE W == Waiters(p) \ {p}
           S == {Entry(w, "go") : w \in W}
<1>1. /\ Rest \in Seq(Entries) /\ Single(Rest) /\ Sound(p)
      /\ \A t : t # p => (Queued(Rest, t) <=> Queued(ready, t))
  BY Popped
<1>2. W \in SUBSET Procs /\ Wake(Rest, W)
  BY DEF End, Waiters
<1>3. pc[p] # "done" /\ (p \in Callers => ~Idle(p))
  BY <1>1 DEF Sound, Idle
<1>4. \A w \in W : ~Queued(Rest, w)
  BY <1>1, <1>3 DEF Waiters, QueueSound, Sound, Idle
<1> HIDE DEF W
<1>5. Single(ready') /\ InQueue(ready') = InQueue(Rest) \cup S
  BY <1>1, <1>2, <1>4, WakeQueue
<1>6. Grows(Rest, ready')
  BY <1>1, <1>2, GrowsWake
<1>7. pc' = [pc EXCEPT ![p] = "done"]
  BY DEF End
<1>8. \A e \in S : Sound(e.task)' /\ e.task \in Tasks
  <2> SUFFICES ASSUME NEW w \in W PROVE Sound(w)' /\ w \in Tasks
    BY DEF Entry
  <2>1. w \in Procs /\ w # p /\ pc[w] \in {"health", "run"} /\ target[w] = p /\ w \in Tasks
    BY Disjoint DEF W, Waiters
  <2>2. pc'[w] = pc[w] /\ pc'[p] = "done"
    BY <1>7, <2>1 DEF TypeOK
  <2> QED
    BY <2>1, <2>2 DEF Sound, Idle
<1>9. p \in Procs => Aims(p)'
  <2>1. pc'[p] = "done"
    BY <1>7 DEF TypeOK
  <2> QED
    BY <2>1 DEF AimsOK, Aims
<1>10. OrderKept(p) /\ QueuesSound(p)
  BY <1>5, <1>6, <1>8, <1>9, QueueGrown
<1>11. Steady(p)
  <2>1. \A t \in Tasks \ {p, p} : pc'[t] = pc[t] /\ ncOf'[t] = ncOf[t]
    BY <1>7 DEF TypeOK
  <2> QED
    BY <1>3, <2>1, SteadyBut
<1>12. \A w \in W : Queued(ready', w)
  <2> SUFFICES ASSUME NEW w \in W PROVE Queued(ready', w)
    OBVIOUS
  <2>1. Entry(w, "go") \in InQueue(ready') /\ Entry(w, "go").task = w
    BY <1>5 DEF Entry
  <2> QED
    BY <2>1, QueuedIn
<1> QED
  BY <1>10, <1>11, <1>12 DEF Sane, W

\* The queue a call leaves behind when it returns: with f, the new health loop.
LeftBehind(p, f, pcs, q) ==
    \/ f = p /\ pcs = pc /\ q = Rest
    \/ f \in FreeLoops /\ pcs = [pc EXCEPT ![f] = "sleep"]
          /\ q = Append(Rest, Entry(f, "go"))

LEMMA BehindQueue ==
    ASSUME LifecycleAssumption, TypeOK, QueueSound, NEW p \in Procs, NEW result,
           Resumes(p, result), NEW f, NEW pcs, NEW q, LeftBehind(p, f, pcs, q)
    PROVE  /\ q \in Seq(Entries) /\ Single(q) /\ Grows(Rest, q)
           /\ InQueue(Rest) \subseteq InQueue(q)
           /\ InQueue(q) \subseteq InQueue(Rest) \cup {Entry(f, "go")}
           /\ ~Queued(q, p)
           /\ f = p => q = Rest
           /\ f # p => /\ f \in FreeLoops /\ pc[f] = "done" /\ pcs[f] = "sleep"
                       /\ \A w \in Procs : target[w] # f
           /\ \A t \in Tasks \ {p, f} : pcs[t] = pc[t]
           /\ DOMAIN pcs = Tasks
<1>1. /\ Rest \in Seq(Entries) /\ Single(Rest) /\ ~Queued(Rest, p) /\ Sound(p)
      /\ \A t : t # p => (Queued(Rest, t) <=> Queued(ready, t))
  BY Popped, Disjoint
<1>2. CASE f = p /\ pcs = pc /\ q = Rest
  <2>1. Grows(Rest, q)
    BY <1>1, <1>2 DEF Grows
  <2> QED
    BY <1>1, <1>2, <2>1 DEF TypeOK
<1>3. CASE f \in FreeLoops /\ pcs = [pc EXCEPT ![f] = "sleep"]
             /\ q = Append(Rest, Entry(f, "go"))
  <2>1. pc[f] = "done" /\ f \in Tasks /\ \A w \in Procs : target[w] # f
    BY <1>3, Disjoint DEF FreeLoops
  <2>2. f # p /\ ~Queued(Rest, f)
    BY <1>1, <2>1 DEF QueueSound, Sound, Idle
  <2>3. Entry(f, "go") \in Entries /\ Entry(f, "go").task = f
    BY <2>1, GoEntry DEF Entry
  <2>4. /\ q \in Seq(Entries) /\ Single(q) /\ InQueue(q) = InQueue(Rest) \cup {Entry(f, "go")}
    BY <1>1, <1>3, <2>2, <2>3, AppendQueue
  <2>5. Grows(Rest, q)
    BY <1>1, <1>3, <2>3, GrowsAppend
  <2>6. ~Queued(q, p)
    BY <1>1, <2>2, <2>3, <2>4, QueuedIn
  <2>7. pcs[f] = "sleep" /\ DOMAIN pcs = Tasks /\ \A t \in Tasks \ {p, f} : pcs[t] = pc[t]
    BY <1>3, <2>1 DEF TypeOK
  <2> QED
    BY <1>3, <2>1, <2>2, <2>4, <2>5, <2>6, <2>7
<1> QED
  BY <1>2, <1>3 DEF LeftBehind

\* A call returns: those that await a pending start are queued, or the host
\* goes on to its next call.
LEMMA SaneReturn ==
    ASSUME LifecycleAssumption, TypeOK, QueueSound, AimsOK, NEW p \in Procs,
           NEW result, Resumes(p, result), NEW f, NEW pcs, NEW q,
           LeftBehind(p, f, pcs, q), Return(p, pcs, q)
    PROVE  Sane(p) /\ pc'[p] \notin {"run", "yield"}
<1> DEFINE g == {Entry(f, "go")}
           W == AwaitsStart(p)
<1>1. /\ Rest \in Seq(Entries) /\ Single(Rest) /\ ~Queued(Rest, p) /\ Sound(p)
      /\ ready \in Seq(Entries) /\ ready # <<>> /\ Head(ready).task = p
      /\ Tail(ready) = Rest
      /\ \A t : t # p => (Queued(Rest, t) <=> Queued(ready, t))
  BY Popped, Disjoint
<1>2. /\ q \in Seq(Entries) /\ Single(q) /\ Grows(Rest, q)
      /\ InQueue(Rest) \subseteq InQueue(q)
      /\ InQueue(q) \subseteq InQueue(Rest) \cup g
      /\ ~Queued(q, p)
      /\ f = p => q = Rest
      /\ f # p => /\ f \in FreeLoops /\ pc[f] = "done" /\ pcs[f] = "sleep"
                  /\ \A w \in Procs : target[w] # f
      /\ \A t \in Tasks \ {p, f} : pcs[t] = pc[t]
      /\ DOMAIN pcs = Tasks
  BY BehindQueue
<1>3. /\ p \in Tasks /\ pc[p] # "done" /\ (p \in Callers => ~Idle(p))
      /\ p \in Callers \/ p \in Loops
  BY <1>1, Disjoint DEF Sound, Idle, Procs
<1>4. f # p => f \in Loops /\ f \in Tasks
  BY <1>2, Disjoint DEF FreeLoops
<1>5. \E s \in {"sleep", "idle", "begin"} :
         pc' = [pcs EXCEPT ![p] = s] /\ (p \in Loops => s # "idle") /\ (s = "sleep" => p \in Loops)
  BY <1>3, Disjoint DEF Return
<1>6. /\ pc'[p] \in {"sleep", "idle", "begin"} /\ (p \in Callers => pc'[p] # "sleep")
      /\ \A t \in Tasks \ {p} : pc'[t] = pcs[t]
  BY <1>2, <1>3, <1>5, Disjoint
<1>7. /\ \A t \in Tasks \ {p} : ncOf'[t] = ncOf[t]
      /\ \A w \in Procs \ {p} : target'[w] = target[w]
      /\ target'[p] = None
  BY DEF Return, TypeOK
<1> HIDE DEF g, W
<1>8. Steady(p)
  <2>1. \A t \in Tasks \ {p, f} : pc'[t] = pc[t] /\ ncOf'[t] = ncOf[t]
    BY <1>2, <1>6, <1>7
  <2>2. f = p \/ (/\ pc[f] = "done" /\ \A w \in Procs : target[w] # f
                  /\ f \in Procs => pc'[f] = "sleep")
    BY <1>2, <1>4, <1>6
  <2> QED
    BY <1>3, <1>7, <2>1, <2>2, SteadyBut
<1>9. Aims(p)'
  BY <1>6, <1>7, Disjoint DEF Aims
<1>10. (Sound(f)' /\ f \in Tasks) \/ f = p
  BY <1>2, <1>4, <1>6, Disjoint DEF Sound, Idle
<1>11. CASE Wake(q, W) /\ (p \in Callers => pc'[p] = "idle")
  <2> DEFINE S == {Entry(w, "go") : w \in W}
             T == S \cup (IF f = p THEN {} ELSE g)
  <2>1. ASSUME NEW w \in W
        PROVE  /\ w \in Callers /\ w # p /\ w # f /\ pc[w] = "pending" /\ target[w] = p
               /\ p \in Callers
               /\ ~Queued(q, w)
    <3>1. w \in Callers /\ pc[w] = "pending" /\ target[w] = p
      BY <2>1 DEF W, AwaitsStart
    <3>2. p \in Callers
      BY <3>1, Disjoint DEF AimsOK, Aims
    <3>3. ~Queued(ready, w) /\ w # p
      BY <1>1, <1>3, <3>1, <3>2, Disjoint DEF QueueSound, Sound
    <3>4. w # f
      BY <1>2, <3>1, <3>3
    <3>5. ~Queued(Rest, w)
      BY <1>1, <3>3
    <3>6. ~Queued(q, w)
      <4> SUFFICES ASSUME NEW e \in InQueue(q), e.task = w PROVE FALSE
        BY QueuedIn
      <4>1. CASE e \in InQueue(Rest)
        BY <3>5, <4>1, QueuedIn
      <4>2. CASE e \in g
        BY <3>4, <4>2 DEF g, Entry
      <4> QED
        BY <1>2, <4>1, <4>2
    <3> QED
      BY <3>1, <3>2, <3>3, <3>4, <3>6
  <2>2. W \in SUBSET Procs
    BY <2>1, Disjoint
  <2> HIDE DEF S, T
  <2>3. Single(ready') /\ InQueue(ready') = InQueue(q) \cup S
    BY <1>2, <1>11, <2>1, <2>2, WakeQueue DEF S
  <2>4. Grows(Rest, ready')
    <3>1. Grows(q, ready')
      BY <1>2, <1>11, <2>2, GrowsWake
    <3> QED
      BY <1>2, <3>1, GrowsTrans
  <2>5. InQueue(ready') \subseteq InQueue(Rest) \cup T
    BY <1>2, <2>3 DEF T
  <2>6. \A e \in T : Sound(e.task)' /\ e.task \in Tasks
    <3>1. ASSUME NEW w \in W PROVE Sound(w)' /\ w \in Tasks
      <4>1. pc'[w] = "pending" /\ target'[w] = p /\ w \in Tasks
        BY <1>2, <1>6, <1>7, <2>1, Disjoint
      <4>2. pc'[p] = "idle"
        BY <1>11, <2>1
      <4> QED
        BY <4>1, <4>2 DEF Sound, Idle
    <3>2. \A e \in S : Sound(e.task)' /\ e.task \in Tasks
      BY <3>1 DEF S, Entry
    <3>3. f # p => \A e \in g : Sound(e.task)' /\ e.task \in Tasks
      BY <1>10 DEF g, Entry
    <3> QED
      BY <3>2, <3>3 DEF T
  <2>7. InQueue(Rest) \subseteq InQueue(ready')
    BY <1>2, <2>3
  <2>8. OrderKept(p) /\ QueuesSound(p)
    BY <1>9, <2>3, <2>4, <2>5, <2>6, <2>7, QueueGrown
  <2> QED
    BY <1>6, <1>8, <2>8 DEF Sane
<1>12. CASE ready' = <<Entry(p, "go")>> \o q /\ pc'[p] = "begin"
  <2> DEFINE b == <<Entry(p, "go")>>
             T == {Entry(p, "go")} \cup (IF f = p THEN {} ELSE g)
  <2>1. Entry(p, "go") \in Entries /\ Entry(p, "go").task = p
    BY <1>3, GoEntry DEF Entry
  <2>2. b \in Seq(Entries) /\ Single(b) /\ InQueue(b) = {Entry(p, "go")}
    BY <2>1, OneEntry
  <2>3. \A e \in InQueue(b), h \in InQueue(q) : e.task # h.task
    BY <1>2, <2>1, <2>2, QueuedIn
  <2>4. Single(ready') /\ InQueue(ready') = InQueue(b) \cup InQueue(q)
    BY <1>2, <1>12, <2>2, <2>3, ConcatQueue
  <2>5. Grows(ready, ready')
    BY <1>1, <1>2, <1>12, <2>1, PutBack
  <2> HIDE DEF b, T
  <2>6. InQueue(ready') \subseteq InQueue(Rest) \cup T /\ InQueue(Rest) \subseteq InQueue(ready')
    BY <1>2, <2>2, <2>4 DEF T
  <2>7. Sound(p)'
    BY <1>12 DEF Sound, Idle
  <2>8. \A e \in T : Sound(e.task)' /\ e.task \in Tasks
    BY <1>3, <1>10, <2>1, <2>7 DEF T, g, Entry
  <2>9. OrderKept(p) /\ QueuesSound(p)
    BY <1>9, <2>4, <2>5, <2>6, <2>8, QueueGrown
  <2> QED
    BY <1>6, <1>8, <2>9 DEF Sane
<1> QED
  <2>1. CASE /\ pc' = [pcs EXCEPT ![p] = IF p \in Loops THEN "sleep" ELSE "idle"]
             /\ Wake(q, AwaitsStart(p))
    <3>1. p \in Callers => pc'[p] = "idle"
      BY <1>2, <1>3, <2>1, Disjoint
    <3> QED
      BY <1>11, <2>1, <3>1 DEF W
  <2>2. CASE pc' = [pcs EXCEPT ![p] = "begin"] /\ ready' = <<Entry(p, "go")>> \o q
    BY <1>2, <1>3, <1>12, <2>2
  <2> QED
    BY <2>1, <2>2 DEF Return

LEMMA PairQueue ==
    ASSUME NEW e \in Entries, NEW f \in Entries, e.task # f.task
    PROVE  /\ <<e, f>> \in Seq(Entries) /\ Single(<<e, f>>)
           /\ InQueue(<<e, f>>) = {e, f}
<1> DEFINE s == <<e, f>>
<1> HIDE DEF Entries
<1>1. s \in Seq(Entries) /\ Len(s) = 2 /\ s[1] = e /\ s[2] = f
  OBVIOUS
<1> HIDE DEF s
<1>2. 1..Len(s) = {1, 2}
  BY <1>1
<1> QED
  BY <1>1, <1>2 DEF Single, InQueue, s

LEMMA SaneFinishStart ==
    ASSUME LifecycleAssumption, TypeOK, QueueSound, AimsOK, NEW p \in Procs,
           NEW result, Resumes(p, result), FinishStart(p)
    PROVE  Sane(p) /\ pc'[p] \notin {"run", "yield"}
<1> DEFINE l == CHOOSE y \in FreeLoops : TRUE
<1>1. l \in FreeLoops /\ Return(p, [pc EXCEPT ![l] = "sleep"], Append(Rest, Entry(l, "go")))
  BY DEF FinishStart
<1> HIDE DEF l
<1>2. LeftBehind(p, l, [pc EXCEPT ![l] = "sleep"], Append(Rest, Entry(l, "go")))
  BY <1>1 DEF LeftBehind
<1> QED
  BY <1>1, <1>2, SaneReturn

\* NodeContext.start() queues the new connection loop r, then its caller.
LEMMA SaneLaunch ==
    ASSUME LifecycleAssumption, TypeOK, QueueSound, AimsOK, NEW p \in Procs,
           NEW result, Resumes(p, result), NEW o, NEW x, NEW ncs,
           LaunchNode(p, o, x, ncs)
    PROVE  /\ Sane(p)
           /\ \E r \in FreeRuns :
                 /\ nc' = [ncs EXCEPT ![x].stopped = FALSE, ![x].runTask = r]
                 /\ ncOf' = [ncOf EXCEPT ![p] = x, ![r] = x]
                 /\ pc'[r] = "new" /\ pc'[p] = "yield"
                 /\ Close(ready', r, p) /\ Queued(ready', p)
                 /\ \A t : t # p /\ Queued(ready, t) =>
                       Before(ready', t, p) /\ Close(ready', r, t)
<1> DEFINE r == CHOOSE y \in FreeRuns : TRUE
<1>1. /\ r \in FreeRuns
      /\ nc' = [ncs EXCEPT ![x].stopped = FALSE, ![x].runTask = r]
      /\ pc' = [pc EXCEPT ![p] = "yield", ![r] = "new"]
      /\ ncOf' = [ncOf EXCEPT ![p] = x, ![r] = x]
      /\ target' = [target EXCEPT ![p] = None]
      /\ ready' = Rest \o <<Entry(r, "go"), Entry(p, "go")>>
  BY DEF LaunchNode
<1> HIDE DEF r
<1> DEFINE e == Entry(r, "go")
           f == Entry(p, "go")
<1>2. /\ Rest \in Seq(Entries) /\ Single(Rest) /\ ~Queued(Rest, p) /\ Sound(p)
      /\ \A t : t # p => (Queued(Rest, t) <=> Queued(ready, t))
  BY Popped, Disjoint
<1>3. /\ r \in Runs /\ r \in Tasks /\ p \in Tasks /\ r # p /\ r \notin Procs
      /\ pc[r] = "done" /\ \A q \in Procs : target[q] # r
  BY <1>1, Disjoint DEF FreeRuns, LifecycleAssumption
<1>4. pc[p] # "done" /\ (p \in Callers => ~Idle(p))
  BY <1>2 DEF Sound, Idle
<1>5. e \in Entries /\ f \in Entries /\ e.task = r /\ f.task = p
  BY <1>3, GoEntry DEF Entry
<1>6. ~Queued(Rest, r)
  BY <1>2, <1>3 DEF QueueSound, Sound, Idle
<1>7. /\ pc'[r] = "new" /\ pc'[p] = "yield" /\ ncOf'[r] = x /\ ncOf'[p] = x
      /\ \A t \in Tasks \ {p, r} : pc'[t] = pc[t] /\ ncOf'[t] = ncOf[t]
      /\ \A q \in Procs \ {p} : target'[q] = target[q]
      /\ target'[p] = None
  BY <1>1, <1>3 DEF TypeOK
<1> HIDE DEF e, f
<1>8. Steady(p)
  BY <1>3, <1>4, <1>7, SteadyBut
<1>9. /\ Single(ready') /\ InQueue(ready') = InQueue(Rest) \cup {e, f}
  <2>2. /\ <<e, f>> \in Seq(Entries) /\ Single(<<e, f>>) /\ InQueue(<<e, f>>) = {e, f}
    BY <1>3, <1>5, PairQueue
  <2>3. \A a \in InQueue(Rest), b \in InQueue(<<e, f>>) : a.task # b.task
    BY <1>2, <1>5, <1>6, <2>2, QueuedIn
  <2> QED
    BY <1>1, <1>2, <2>2, <2>3, ConcatQueue DEF e, f
<1>10. Grows(Rest, ready')
  <2>1. <<e, f>> \in Seq(Entries)
    BY <1>5
  <2> QED
    BY <1>1, <1>2, <2>1, GrowsConcat DEF e, f
<1>11. Aims(p)'
  BY <1>7, Disjoint DEF Aims
<1>12. \A b \in {e, f} : Sound(b.task)' /\ b.task \in Tasks
  BY <1>3, <1>5, <1>7, Disjoint DEF Sound, Idle
<1>13. OrderKept(p) /\ QueuesSound(p)
  BY <1>9, <1>10, <1>11, <1>12, QueueGrown
<1>14. /\ Close(ready', r, p)
       /\ \A t : t # p /\ Queued(ready, t) =>
             Before(ready', t, p) /\ Close(ready', r, t)
  <2>1. ready' = Rest \o <<e, f>>
    BY <1>1 DEF e, f
  <2>2. /\ \A t : Queued(Rest, t) => Before(Rest \o <<e, f>>, t, f.task)
        /\ \A t : Queued(Rest, t) => Close(Rest \o <<e, f>>, e.task, t)
        /\ Close(Rest \o <<e, f>>, e.task, f.task)
    BY <1>2, <1>5, LastBefore
  <2> QED
    BY <1>2, <1>5, <2>1, <2>2
<1>15. Queued(ready', p)
  BY <1>5, <1>9, QueuedIn
<1> QED
  BY <1>1, <1>7, <1>8, <1>13, <1>14, <1>15 DEF Sane

\* A step of p that cancels task t.
LEMMA SaneCancel ==
    ASSUME LifecycleAssumption, TypeOK, QueueSound, AimsOK, NEW p \in Procs,
           NEW result, Resumes(p, result), NEW t \in Tasks, NEW s,
           ready' = Cancel(Rest, t), pc' = [pc EXCEPT ![p] = s],
           UNCHANGED target \/ \E u : target' = [target EXCEPT ![p] = u],
           UNCHANGED ncOf \/ \E x : ncOf' = [ncOf EXCEPT ![p] = x],
           Sound(t)', Aims(p)'
    PROVE  Sane(p) /\ Entry(t, "cancel") \in InQueue(ready')
<1>1. /\ Rest \in Seq(Entries) /\ Single(Rest) /\ Sound(p) /\ p \in Tasks
  BY Popped, Disjoint
<1>2. /\ Single(ready')
      /\ InQueue(ready') =
            {e \in InQueue(Rest) : e.task # t} \cup {Entry(t, "cancel")}
  BY <1>1, CancelQueue
<1>3. Grows(Rest, ready')
  BY <1>1, GrowsCancel
<1>4. \A u : Entry(u, "cancel") \in InQueue(Rest) =>
         Entry(u, "cancel") \in InQueue(ready')
  BY <1>2 DEF Entry
<1>5. \A e \in {Entry(t, "cancel")} : Sound(e.task)' /\ e.task \in Tasks
  BY DEF Entry
<1>6. OrderKept(p) /\ QueuesSound(p)
  BY <1>2, <1>3, <1>4, <1>5, QueueGrown
<1>7. Steady(p)
  <2>1. \A u \in Tasks \ {p, p} : pc'[u] = pc[u] /\ ncOf'[u] = ncOf[u]
    BY DEF TypeOK
  <2>2. \A q \in Procs \ {p} : target'[q] = target[q]
    BY DEF TypeOK
  <2>3. pc[p] # "done" /\ (p \in Callers => ~Idle(p))
    BY <1>1 DEF Sound, Idle
  <2> QED
    BY <1>1, <2>1, <2>2, <2>3, SteadyBut
<1> QED
  BY <1>2, <1>6, <1>7 DEF Sane

-----------------------------------------------------------------------------
(* What a task in stop() knows of the connection loop it awaits, and a task *)
(* in NodeContext.start() of the one it has created.                        *)

\* A connection loop on its way out.
Leaving(r) ==
    \/ pc[r] \in {"closing", "unwinding", "recovering"}
    \/ Entry(r, "cancel") \in InQueue(ready)

\* The loop a context remembers works for that context.
Links == \A x \in Contexts : nc[x].runTask # None => ncOf[nc[x].runTask] = x

\* stop() awaits the loop of its context: while that loop is not over, the
\* context is started, flagged, and remembers it.
WaitOK(q) ==
    pc[q] = "run" =>
        /\ ncOf[q] \in Contexts /\ target[q] \in Runs /\ ncOf[target[q]] = ncOf[q]
        /\ nc[ncOf[q]].started => nc[ncOf[q]].runTask = target[q]
        /\ pc[target[q]] = "done" => Queued(ready, q)
        /\ pc[target[q]] # "done" =>
              nc[ncOf[q]].started /\ nc[ncOf[q]].stopped /\ Leaving(target[q])

\* NodeContext.start() is resumed right after its loop has run for the first
\* time, or the context has forgotten that loop.
YieldOK(y) ==
    pc[y] = "yield" =>
        /\ ncOf[y] \in Contexts /\ Queued(ready, y)
        /\ \/ nc[ncOf[y]].runTask = None
           \/ First(ready, y)
           \/ pc[nc[ncOf[y]].runTask] = "new" /\ Close(ready, nc[ncOf[y]].runTask, y)

\* When the context is not started, a stop() that awaited its loop is resumed
\* before a start() that will mark it as started.
LineOK(q, y) ==
    (pc[q] = "run" /\ pc[y] = "yield" /\ ncOf[y] = ncOf[q] /\ ~nc[ncOf[q]].started) =>
        Before(ready, q, y)

HandoverOK ==
    /\ Links
    /\ \A q \in Procs : WaitOK(q) /\ YieldOK(q)
    /\ \A q, y \in Procs : LineOK(q, y)

\* A step of p that leaves the contexts as in ncs takes nothing from the others.
KeptBy(p, ncs) ==
    /\ \A x \in Contexts : ncs[x].runTask \in {nc[x].runTask, None}
    /\ \A q \in Procs \ {p} : pc[q] = "run" =>
          /\ ncs[ncOf[q]].started =>
                nc[ncOf[q]].started /\ ncs[ncOf[q]].runTask = nc[ncOf[q]].runTask
          /\ pc[target[q]] # "done" => ncs[ncOf[q]].started /\ ncs[ncOf[q]].stopped
          /\ \A y \in Procs \ {p} :
                pc[y] = "yield" /\ ncOf[y] = ncOf[q] /\ ~ncs[ncOf[q]].started =>
                   Before(ready, q, y)

\* The two agree on what start() and stop() ask of a context.
SameNode(a, b) ==
    a.started = b.started /\ a.stopped = b.stopped /\ a.runTask = b.runTask

LEMMA KeptSame ==
    ASSUME HandoverOK, NEW p
    PROVE  KeptBy(p, nc)
BY DEF HandoverOK, KeptBy, WaitOK, LineOK

LEMMA StaysPut ==
    ASSUME LifecycleAssumption, NEW p, Steady(p), NEW q \in Procs \ {p},
           pc'[q] \in {"run", "yield"}
    PROVE  pc[q] = pc'[q] /\ ncOf'[q] = ncOf[q] /\ target'[q] = target[q]
<1>1. q \in Tasks \ {p}
  BY Disjoint
<1> QED
  BY <1>1 DEF Steady

LEMMA WaiterKept ==
    ASSUME LifecycleAssumption, HandoverOK, NEW p, Sane(p), NEW q \in Procs \ {p},
           pc[q] = "run" => target[q] # p,
           pc[q] = "run" =>
              /\ nc'[ncOf[q]].started =>
                    nc[ncOf[q]].started /\ nc'[ncOf[q]].runTask = nc[ncOf[q]].runTask
              /\ pc[target[q]] # "done" => nc'[ncOf[q]].started /\ nc'[ncOf[q]].stopped
    PROVE  WaitOK(q)'
<1> SUFFICES ASSUME pc'[q] = "run" PROVE WaitOK(q)'
  BY DEF WaitOK
<1> DEFINE r == target[q]
           x == ncOf[q]
<1>1. pc[q] = "run" /\ ncOf'[q] = x /\ target'[q] = r
  BY StaysPut DEF Sane
<1>2. /\ x \in Contexts /\ r \in Runs /\ ncOf[r] = x
      /\ nc[x].started => nc[x].runTask = r
      /\ pc[r] = "done" => Queued(ready, q)
      /\ pc[r] # "done" => nc[x].started /\ nc[x].stopped /\ Leaving(r)
  BY <1>1 DEF HandoverOK, WaitOK
<1>3. r # q /\ r # p /\ r \in Tasks
  BY <1>1, <1>2, Disjoint, Runs \cap Procs = {} DEF LifecycleAssumption
<1> HIDE DEF r, x
<1>4. /\ pc[r] = "done" => pc'[r] = "done" /\ ncOf'[r] = ncOf[r]
      /\ pc[r] # "done" => pc'[r] = pc[r] /\ ncOf'[r] = ncOf[r]
  BY <1>1, <1>3 DEF Sane, Steady, r
<1>5. pc[r] = "done" => Queued(ready', q)
  BY <1>2 DEF Sane, OrderKept
<1>6. Leaving(r) /\ pc[r] # "done" =>
         \/ pc'[r] \in {"closing", "unwinding", "recovering"}
         \/ Entry(r, "cancel") \in InQueue(ready')
  BY <1>3, <1>4 DEF Sane, OrderKept, Leaving
<1> QED
  BY <1>1, <1>2, <1>4, <1>5, <1>6 DEF WaitOK, Leaving, x, r

LEMMA YielderKept ==
    ASSUME LifecycleAssumption, TypeOK, HandoverOK, NEW p, Sane(p), NEW y \in Procs \ {p},
           pc[y] = "yield" =>
              \/ nc'[ncOf[y]].runTask = None
              \/ /\ nc'[ncOf[y]].runTask = nc[ncOf[y]].runTask
                 /\ p # nc[ncOf[y]].runTask
              \/ First(ready', y)
              \/ /\ pc'[nc'[ncOf[y]].runTask] = "new"
                 /\ Close(ready', nc'[ncOf[y]].runTask, y)
    PROVE  YieldOK(y)'
<1> SUFFICES ASSUME pc'[y] = "yield" PROVE YieldOK(y)'
  BY DEF YieldOK
<1> DEFINE x == ncOf[y]
           r == nc[x].runTask
<1>1. pc[y] = "yield" /\ ncOf'[y] = x
  BY StaysPut DEF Sane
<1>2. /\ x \in Contexts /\ Queued(ready, y)
      /\ r = None \/ First(ready, y) \/ (pc[r] = "new" /\ Close(ready, r, y))
  <2>1. YieldOK(y)
    BY DEF HandoverOK
  <2> QED
    BY <1>1, <2>1 DEF YieldOK
<1>3. r = None \/ r \in Tasks
  BY <1>2, Disjoint DEF TypeOK, NodeTypes
<1> HIDE DEF r
<1>4. Queued(ready', y) /\ (First(ready, y) => First(ready', y))
  BY <1>2 DEF Sane, OrderKept
<1>5. ASSUME r # p, r # None, pc[r] = "new", Close(ready, r, y)
      PROVE  pc'[r] = "new" /\ Close(ready', r, y)
  BY <1>3, <1>5 DEF Sane, OrderKept, Steady
<1> QED
  BY <1>1, <1>2, <1>4, <1>5 DEF YieldOK, r

LEMMA LineKept ==
    ASSUME LifecycleAssumption, NEW p, Sane(p),
           NEW q \in Procs \ {p}, NEW y \in Procs \ {p},
           pc[q] = "run" /\ pc[y] = "yield" /\ ncOf[y] = ncOf[q]
              /\ ~nc'[ncOf[q]].started => Before(ready, q, y)
    PROVE  LineOK(q, y)'
<1> SUFFICES ASSUME (pc[q] = "run" /\ pc[y] = "yield" /\ ncOf[y] = ncOf[q]
                        /\ ~nc[ncOf[q]].started)'
             PROVE  Before(ready', q, y)
  BY DEF LineOK
<1>1. /\ pc[q] = "run" /\ ncOf'[q] = ncOf[q]
      /\ pc[y] = "yield" /\ ncOf'[y] = ncOf[y]
  BY StaysPut DEF Sane
<1> QED
  BY <1>1 DEF Sane, OrderKept

\* A step of a task that is not in start() or stop() when it ends.
LEMMA AwaitKept ==
    ASSUME LifecycleAssumption, TypeOK, HandoverOK, NEW p \in Procs, Sane(p),
           NEW ncs, KeptBy(p, ncs), \A x \in Contexts : SameNode(nc'[x], ncs[x]),
           \A r \in Runs : ncOf'[r] = ncOf[r],
           pc'[p] \notin {"run", "yield"}
    PROVE  HandoverOK'
<1>0. /\ \A r \in Runs : r # p
      /\ \A x \in Contexts : /\ nc[x].runTask \in Runs \cup {None}
                             /\ nc'[x].runTask \in {nc[x].runTask, None}
  <2>1. \A r \in Runs : r # p
    BY DEF LifecycleAssumption
  <2>2. \A x \in Contexts : nc[x].runTask \in Runs \cup {None}
    BY DEF TypeOK, NodeTypes
  <2>3. \A x \in Contexts : nc'[x].runTask \in {nc[x].runTask, None}
    BY DEF KeptBy, SameNode
  <2> QED
    BY <2>1, <2>2, <2>3
<1>1. Links'
  <2> SUFFICES ASSUME NEW x \in Contexts, nc'[x].runTask # None
               PROVE  ncOf'[nc'[x].runTask] = x
    BY DEF Links
  <2>1. nc'[x].runTask = nc[x].runTask /\ nc[x].runTask \in Runs
    BY <1>0
  <2> QED
    BY <2>1 DEF HandoverOK, Links
<1>2. ASSUME NEW q \in Procs PROVE WaitOK(q)' /\ YieldOK(q)'
  <2>1. CASE q = p
    BY <2>1 DEF WaitOK, YieldOK
  <2>2. CASE q # p
    <3>1. pc[q] = "run" => ncOf[q] \in Contexts /\ target[q] \in Runs
      BY DEF HandoverOK, WaitOK
    <3>2. WaitOK(q)'
      BY <1>0, <2>2, <3>1, WaiterKept DEF KeptBy, SameNode
    <3>3. pc[q] = "yield" => ncOf[q] \in Contexts
      BY DEF HandoverOK, YieldOK
    <3>4. pc[q] = "yield" =>
             \/ nc'[ncOf[q]].runTask = None
             \/ nc'[ncOf[q]].runTask = nc[ncOf[q]].runTask /\ nc[ncOf[q]].runTask \in Runs
      BY <1>0, <3>3
    <3>5. YieldOK(q)'
      BY <1>0, <2>2, <3>4, YielderKept
    <3> QED
      BY <3>2, <3>5
  <2> QED
    BY <2>1, <2>2
<1>3. ASSUME NEW q \in Procs, NEW y \in Procs PROVE LineOK(q, y)'
  <2>1. CASE q = p \/ y = p
    BY <2>1 DEF LineOK
  <2>2. CASE q # p /\ y # p
    <3>1. pc[q] = "run" => ncOf[q] \in Contexts
      BY DEF HandoverOK, WaitOK
    <3> QED
      BY <2>2, <3>1, LineKept DEF KeptBy, SameNode
  <2> QED
    BY <2>1, <2>2
<1> QED
  BY <1>1, <1>2, <1>3 DEF HandoverOK

\* NodeContext.start() of a context x that is not started.
LEMMA LaunchAwaits ==
    ASSUME LifecycleAssumption, TypeOK, QueueSound, AimsOK, HandoverOK, NEW p \in Procs,
           NEW result, Resumes(p, result), NEW o, NEW x \in Contexts,
           NEW ncs \in [Contexts -> NodeTypes], KeptBy(p, ncs), ~ncs[x].started,
           LaunchNode(p, o, x, ncs)
    PROVE  Sane(p) /\ HandoverOK'
<1>1. Sane(p)
  BY SaneLaunch
<1>2. PICK r \in FreeRuns :
         /\ nc' = [ncs EXCEPT ![x].stopped = FALSE, ![x].runTask = r]
         /\ ncOf' = [ncOf EXCEPT ![p] = x, ![r] = x]
         /\ pc'[r] = "new" /\ pc'[p] = "yield"
         /\ Close(ready', r, p) /\ Queued(ready', p)
         /\ \A t : t # p /\ Queued(ready, t) => Before(ready', t, p) /\ Close(ready', r, t)
  BY SaneLaunch
<1>3. /\ r \in Runs /\ r # p /\ r \in Tasks /\ p \in Tasks
      /\ \A z \in Contexts : nc[z].runTask # r
      /\ \A u \in Runs : u # p /\ u \in Tasks
  BY <1>2, Disjoint DEF FreeRuns, LifecycleAssumption
<1>4. /\ nc'[x].runTask = r /\ ~nc'[x].started
      /\ \A z \in Contexts : z # x => nc'[z] = ncs[z]
      /\ \A z \in Contexts : nc'[z].started = ncs[z].started
  BY <1>2 DEF NodeTypes
<1>5. /\ ncOf'[r] = x /\ ncOf'[p] = x
      /\ \A t \in Tasks : t # p /\ t # r => ncOf'[t] = ncOf[t]
  BY <1>2, <1>3 DEF TypeOK
<1>6. Links'
  <2> SUFFICES ASSUME NEW z \in Contexts, nc'[z].runTask # None
               PROVE  ncOf'[nc'[z].runTask] = z
    BY DEF Links
  <2>1. CASE z = x
    BY <1>4, <1>5, <2>1
  <2>2. CASE z # x
    <3>1. nc'[z].runTask = nc[z].runTask /\ nc[z].runTask \in Runs
      BY <1>4, <2>2 DEF KeptBy, TypeOK, NodeTypes
    <3>2. ncOf[nc[z].runTask] = z
      BY <3>1 DEF HandoverOK, Links
    <3> QED
      BY <1>3, <1>5, <3>1, <3>2
  <2> QED
    BY <2>1, <2>2
<1>7. ASSUME NEW q \in Procs PROVE WaitOK(q)' /\ YieldOK(q)'
  <2>1. CASE q = p
    <3>1. WaitOK(p)'
      BY <1>2 DEF WaitOK
    <3>2. YieldOK(p)'
      BY <1>2, <1>4, <1>5 DEF YieldOK
    <3> QED
      BY <2>1, <3>1, <3>2
  <2>2. CASE q # p
    <3>1. pc[q] = "run" => ncOf[q] \in Contexts /\ target[q] \in Runs
      BY DEF HandoverOK, WaitOK
    <3>2. pc[q] = "run" =>
             /\ nc'[ncOf[q]].started =>
                   nc[ncOf[q]].started /\ nc'[ncOf[q]].runTask = nc[ncOf[q]].runTask
             /\ pc[target[q]] # "done" => nc'[ncOf[q]].started /\ nc'[ncOf[q]].stopped
      BY <1>4, <2>2, <3>1 DEF KeptBy
    <3>3. WaitOK(q)'
      BY <1>1, <1>3, <2>2, <3>1, <3>2, WaiterKept
    <3>4. YieldOK(q)
      BY DEF HandoverOK
    <3>5. pc[q] = "yield" => ncOf[q] \in Contexts /\ Queued(ready, q)
      BY <3>4 DEF YieldOK
    <3>6. CASE ncOf[q] = x
      <4>1. pc[q] = "yield" => /\ pc'[nc'[ncOf[q]].runTask] = "new"
                               /\ Close(ready', nc'[ncOf[q]].runTask, q)
        BY <1>2, <1>4, <2>2, <3>5, <3>6
      <4> QED
        BY <1>1, <2>2, <3>3, <4>1, YielderKept
    <3>7. CASE ncOf[q] # x
      <4>1. pc[q] = "yield" =>
               \/ nc'[ncOf[q]].runTask = None
               \/ nc'[ncOf[q]].runTask = nc[ncOf[q]].runTask /\ nc[ncOf[q]].runTask \in Runs
        BY <1>4, <3>5, <3>7 DEF KeptBy, TypeOK, NodeTypes
      <4>2. pc[q] = "yield" =>
               \/ nc'[ncOf[q]].runTask = None
               \/ nc'[ncOf[q]].runTask = nc[ncOf[q]].runTask /\ p # nc[ncOf[q]].runTask
        BY <1>3, <4>1
      <4> QED
        BY <1>1, <2>2, <3>3, <4>2, YielderKept
    <3> QED
      BY <3>3, <3>6, <3>7
  <2> QED
    BY <2>1, <2>2
<1>8. ASSUME NEW q \in Procs, NEW y \in Procs PROVE LineOK(q, y)'
  <2>1. CASE q = p
    BY <1>2, <2>1 DEF LineOK
  <2>2. CASE q # p /\ y = p
    <3> SUFFICES ASSUME pc'[q] = "run", ncOf'[q] = x PROVE Before(ready', q, p)
      BY <1>5, <2>2 DEF LineOK
    <3>1. pc[q] = "run" /\ ncOf[q] = x
      BY <1>1, <2>2, StaysPut DEF Sane
    <3>2. pc[target[q]] = "done"
      BY <2>2, <3>1 DEF KeptBy
    <3>3. WaitOK(q)
      BY DEF HandoverOK
    <3>4. Queued(ready, q)
      BY <3>1, <3>2, <3>3 DEF WaitOK
    <3> QED
      BY <1>2, <2>2, <3>4
  <2>3. CASE q # p /\ y # p
    <3>1. pc[q] = "run" => ncOf[q] \in Contexts
      BY DEF HandoverOK, WaitOK
    <3>2. pc[q] = "run" /\ pc[y] = "yield" /\ ncOf[y] = ncOf[q]
             /\ ~nc'[ncOf[q]].started => Before(ready, q, y)
      BY <1>4, <2>3, <3>1 DEF KeptBy
    <3> QED
      BY <1>1, <2>3, <3>2, LineKept
  <2> QED
    BY <2>1, <2>2, <2>3
<1> QED
  BY <1>1, <1>6, <1>7, <1>8 DEF HandoverOK

\* A call that returns.
LEMMA ReturnAwaits ==
    ASSUME LifecycleAssumption, TypeOK, QueueSound, AimsOK, HandoverOK, NEW p \in Procs,
           NEW result, Resumes(p, result), NEW ncs, KeptBy(p, ncs),
           \A x \in Contexts : SameNode(nc'[x], ncs[x]),
           Return(p, pc, Rest) \/ FinishStart(p)
    PROVE  Sane(p) /\ HandoverOK'
<1>1. Sane(p) /\ pc'[p] \notin {"run", "yield"}
  <2>1. CASE Return(p, pc, Rest)
    BY <2>1, SaneReturn DEF LeftBehind
  <2>2. CASE FinishStart(p)
    BY <2>2, SaneFinishStart
  <2> QED
    BY <2>1, <2>2
<1>2. ncOf' = [ncOf EXCEPT ![p] = None]
  BY DEF FinishStart, Return
<1>3. \A r \in Runs : ncOf'[r] = ncOf[r]
  BY <1>2, Disjoint DEF LifecycleAssumption, TypeOK
<1> QED
  BY <1>1, <1>3, AwaitKept

\* The end of a stop(), with the new context of a restart().
LEMMA FinishStopAwaits ==
    ASSUME LifecycleAssumption, TypeOK, QueueSound, AimsOK, HandoverOK, NEW p \in Procs,
           NEW result, Resumes(p, result), NEW o,
           NEW ncs \in [Contexts -> NodeTypes], KeptBy(p, ncs), FinishStop(p, o, ncs)
    PROVE  Sane(p) /\ HandoverOK'
<1>1. CASE Return(p, pc, Rest) /\ nc' = ncs
  BY <1>1, ReturnAwaits DEF SameNode
<1>2. CASE /\ FreeContexts # {}
           /\ LET x == CHOOSE y \in FreeContexts : TRUE
              IN  LaunchNode(p, o, x, [ncs EXCEPT ![x] = NewContext])
  <2> DEFINE x == CHOOSE y \in FreeContexts : TRUE
             new == [ncs EXCEPT ![x] = NewContext]
  <2>1. x \in FreeContexts /\ LaunchNode(p, o, x, new)
    BY <1>2
  <2> HIDE DEF x
  <2>2. x \in Contexts /\ \A t \in Tasks : pc[t] # "done" => ncOf[t] # x
    BY <2>1 DEF FreeContexts
  <2>3. /\ new \in [Contexts -> NodeTypes] /\ ~new[x].started /\ new[x].runTask = None
        /\ \A z \in Contexts : z # x => new[z] = ncs[z]
    BY <2>2 DEF NewContext, NodeTypes
  <2> HIDE DEF new
  <2>4. KeptBy(p, new)
    <3>1. \A z \in Contexts : new[z].runTask \in {nc[z].runTask, None}
      BY <2>3 DEF KeptBy
    <3>2. ASSUME NEW q \in Procs \ {p}, pc[q] = "run" PROVE new[ncOf[q]] = ncs[ncOf[q]]
      BY <2>2, <2>3, <3>2, Disjoint DEF HandoverOK, WaitOK
    <3> QED
      BY <3>1, <3>2 DEF KeptBy
  <2> QED
    BY <2>1, <2>2, <2>3, <2>4, LaunchAwaits
<1> QED
  BY <1>1, <1>2 DEF FinishStop

\* stop() leaves context x, whose loop is over, down.
LEMMA DownKept ==
    ASSUME LifecycleAssumption, TypeOK, QueueSound, HandoverOK, NEW p \in Procs,
           NEW result, Resumes(p, result), pc[p] # "yield", NEW x \in Contexts,
           nc[x].started /\ nc[x].runTask # None => pc[nc[x].runTask] = "done",
           NEW ncs \in [Contexts -> NodeTypes],
           \A z \in Contexts : z # x => ncs[z] = nc[z]
    PROVE  KeptBy(p, Down(x, ncs)) /\ Down(x, ncs) \in [Contexts -> NodeTypes]
<1> DEFINE d == Down(x, ncs)
<1>0. d \in [Contexts -> NodeTypes]
  BY DownType
<1>1. /\ ~d[x].started /\ d[x].runTask = None
      /\ \A z \in Contexts : z # x => d[z] = nc[z]
  BY DEF Down, NodeTypes
<1>2. \A y : First(ready, y) => y = p
  BY Popped, RestKeeps
<1> HIDE DEF d
<1>3. \A z \in Contexts : d[z].runTask \in {nc[z].runTask, None}
  BY <1>1
<1>4. ASSUME NEW q \in Procs \ {p}, pc[q] = "run"
      PROVE  /\ d[ncOf[q]].started =>
                   nc[ncOf[q]].started /\ d[ncOf[q]].runTask = nc[ncOf[q]].runTask
             /\ pc[target[q]] # "done" => d[ncOf[q]].started /\ d[ncOf[q]].stopped
             /\ \A y \in Procs \ {p} :
                   pc[y] = "yield" /\ ncOf[y] = ncOf[q] /\ ~d[ncOf[q]].started =>
                      Before(ready, q, y)
  <2>1. WaitOK(q) /\ \A y \in Procs : YieldOK(y) /\ LineOK(q, y)
    BY DEF HandoverOK
  <2>2. /\ ncOf[q] \in Contexts /\ target[q] \in Runs
        /\ nc[ncOf[q]].started => nc[ncOf[q]].runTask = target[q]
        /\ pc[target[q]] # "done" => nc[ncOf[q]].started /\ nc[ncOf[q]].stopped
    BY <1>4, <2>1 DEF WaitOK
  <2>3. None \notin Runs
    BY Disjoint
  <2>4. CASE ncOf[q] # x
    BY <1>1, <1>4, <2>1, <2>2, <2>4 DEF LineOK
  <2>5. CASE ncOf[q] = x
    <3>1. pc[target[q]] = "done"
      BY <2>2, <2>3, <2>5
    <3>2. ASSUME NEW y \in Procs \ {p}, pc[y] = "yield", ncOf[y] = x
          PROVE  Before(ready, q, y)
      <4>1. CASE ~nc[x].started
        BY <1>4, <2>1, <2>5, <3>2, <4>1 DEF LineOK
      <4>2. CASE nc[x].started
        <5>1. nc[x].runTask # None /\ pc[nc[x].runTask] # "new"
          BY <2>2, <2>3, <2>5, <3>1, <4>2
        <5>2. First(ready, y)
          BY <2>1, <3>2, <5>1 DEF YieldOK
        <5> QED
          BY <1>2, <5>2
      <4> QED
        BY <4>1, <4>2
    <3> QED
      BY <1>1, <2>5, <3>1, <3>2
  <2> QED
    BY <2>4, <2>5
<1> QED
  BY <1>0, <1>3, <1>4 DEF KeptBy, d

-----------------------------------------------------------------------------
(* The steps keep both parts.                                              *)

LEMMA StopNodeAwaits ==
    ASSUME LifecycleAssumption, TypeOK, QueueSound, AimsOK, HandoverOK, NEW p \in Procs,
           NEW result, Resumes(p, result), pc[p] # "yield", NEW o, StopNode(p, o)
    PROVE  Sane(p) /\ HandoverOK'
<1>0. /\ nc \in [Contexts -> NodeTypes] /\ context \in Contexts
      /\ Flagged(context) \in [Contexts -> NodeTypes]
      /\ nc[context].runTask \in Runs \cup {None}
      /\ p \in Tasks /\ p \notin Runs
  BY FlaggedType, Disjoint DEF TypeOK, NodeTypes, LifecycleAssumption
<1>1. CASE ~nc[context].started /\ FinishStop(p, o, nc)
  BY <1>0, <1>1, KeptSame, FinishStopAwaits
<1>2. CASE /\ nc[context].started /\ ~RunToCancel(context)
           /\ FinishStop(p, o, Down(context, Flagged(context)))
  <2>1. nc[context].runTask # None => pc[nc[context].runTask] = "done"
    BY <1>2 DEF RunToCancel
  <2>2. \A z \in Contexts : z # context => Flagged(context)[z] = nc[z]
    BY <1>0 DEF Flagged
  <2>3. /\ KeptBy(p, Down(context, Flagged(context)))
        /\ Down(context, Flagged(context)) \in [Contexts -> NodeTypes]
    BY <1>0, <2>1, <2>2, DownKept
  <2> QED
    BY <1>2, <2>3, FinishStopAwaits
<1>3. CASE /\ RunToCancel(context)
           /\ nc' = Flagged(context)
           /\ pc' = [pc EXCEPT ![p] = "run"]
           /\ target' = [target EXCEPT ![p] = nc[context].runTask]
           /\ ncOf' = [ncOf EXCEPT ![p] = context]
           /\ ready' = Cancel(Rest, nc[context].runTask)
  <2> PICK r \in Runs : r = nc[context].runTask
    BY <1>0, <1>3 DEF RunToCancel
  <2>1. /\ nc[context].started /\ nc[context].runTask = r
        /\ r \in Tasks /\ pc[r] # "done" /\ r # p /\ r \notin Procs
    BY <1>0, <1>3, Disjoint DEF RunToCancel, LifecycleAssumption
  <2>2. /\ pc'[p] = "run" /\ target'[p] = r /\ ncOf'[p] = context
        /\ \A t \in Tasks : t # p => pc'[t] = pc[t] /\ ncOf'[t] = ncOf[t]
        /\ \A q \in Procs : q # p => target'[q] = target[q]
    BY <1>0, <1>3, <2>1 DEF TypeOK
  <2>3. Sound(r)' /\ Aims(p)'
    <3>1. Sound(r)'
      BY <2>1, <2>2, Disjoint DEF Sound
    <3>2. Aims(p)'
      BY <2>2, Disjoint DEF Aims
    <3> QED
      BY <3>1, <3>2
  <2>4. Sane(p) /\ Entry(r, "cancel") \in InQueue(ready')
    BY <1>3, <2>1, <2>3, SaneCancel
  <2>5. /\ nc'[context].started /\ nc'[context].stopped /\ nc'[context].runTask = r
        /\ \A z \in Contexts : /\ nc'[z].runTask = nc[z].runTask
                               /\ nc'[z].started = nc[z].started
                               /\ nc[z].stopped => nc'[z].stopped
    <3>1. \A z \in Contexts : z # context => nc'[z] = nc[z]
      BY <1>0, <1>3 DEF Flagged
    <3>2. nc'[context] = [nc[context] EXCEPT !.stopped = TRUE]
      BY <1>0, <1>3 DEF Flagged
    <3>3. nc[context] \in NodeTypes
      BY <1>0
    <3>4. /\ nc'[context].stopped
          /\ nc'[context].started = nc[context].started
          /\ nc'[context].runTask = nc[context].runTask
      BY <3>2, <3>3 DEF NodeTypes
    <3> QED
      BY <2>1, <3>1, <3>4
  <2>6. Links'
    <3> SUFFICES ASSUME NEW x \in Contexts, nc'[x].runTask # None
                 PROVE  ncOf'[nc'[x].runTask] = x
      BY DEF Links
    <3>1. nc'[x].runTask = nc[x].runTask /\ nc[x].runTask \in Runs
      BY <1>0, <2>5 DEF NodeTypes
    <3>2. ncOf[nc[x].runTask] = x
      BY <3>1, <2>5 DEF HandoverOK, Links
    <3> QED
      BY <1>0, <2>2, <3>1, <3>2, Disjoint
  <2>7. ASSUME NEW q \in Procs PROVE WaitOK(q)' /\ YieldOK(q)'
    <3>1. CASE q = p
      <4>1. ncOf'[r] = context
        BY <1>0, <2>1, <2>2, Disjoint DEF HandoverOK, Links
      <4>2. WaitOK(p)'
        BY <1>0, <2>1, <2>2, <2>4, <2>5, <4>1 DEF WaitOK, Leaving
      <4>3. YieldOK(p)'
        BY <2>2 DEF YieldOK
      <4> QED
        BY <3>1, <4>2, <4>3
    <3>2. CASE q # p
      <4>1. WaitOK(q) /\ YieldOK(q)
        BY DEF HandoverOK
      <4>2. pc[q] = "run" => target[q] # p
        BY <1>0, <4>1 DEF WaitOK
      <4>3. pc[q] = "run" =>
              /\ nc'[ncOf[q]].started =>
                    nc[ncOf[q]].started /\ nc'[ncOf[q]].runTask = nc[ncOf[q]].runTask
              /\ pc[target[q]] # "done" => nc'[ncOf[q]].started /\ nc'[ncOf[q]].stopped
        BY <2>5, <4>1 DEF WaitOK
      <4>4. WaitOK(q)'
        BY <2>4, <3>2, <4>2, <4>3, WaiterKept
      <4>5. pc[q] = "yield" =>
               \/ nc'[ncOf[q]].runTask = None
               \/ /\ nc'[ncOf[q]].runTask = nc[ncOf[q]].runTask
                  /\ p # nc[ncOf[q]].runTask
        BY <1>0, <2>5, <4>1 DEF YieldOK, NodeTypes
      <4>6. YieldOK(q)'
        BY <2>4, <3>2, <4>5, YielderKept
      <4> QED
        BY <4>4, <4>6
    <3> QED
      BY <3>1, <3>2
  <2>8. ASSUME NEW q \in Procs, NEW y \in Procs PROVE LineOK(q, y)'
    <3>1. CASE q = p \/ y = p
      BY <2>2, <2>5, <3>1 DEF LineOK
    <3>2. CASE q # p /\ y # p
      <4>1. WaitOK(q) /\ LineOK(q, y)
        BY DEF HandoverOK
      <4>2. pc[q] = "run" /\ pc[y] = "yield" /\ ncOf[y] = ncOf[q]
              /\ ~nc'[ncOf[q]].started => Before(ready, q, y)
        BY <2>5, <4>1 DEF WaitOK, LineOK
      <4> QED
        BY <2>4, <3>2, <4>2, LineKept
    <3> QED
      BY <3>1, <3>2
  <2> QED
    BY <2>4, <2>6, <2>7, <2>8 DEF HandoverOK
<1> QED
  BY <1>1, <1>2, <1>3 DEF StopNode

LEMMA StopGatewayAwaits ==
    ASSUME LifecycleAssumption, TypeOK, TrackedLoopSleeps, QueueSound, AimsOK, HandoverOK,
           NEW p \in Procs, NEW result, Resumes(p, result),
           pc[p] \in {"begin", "pending", "sleep"}, NEW o, StopGateway(p, o)
    PROVE  Sane(p) /\ HandoverOK'
<1>0. /\ KeptBy(p, nc) /\ nc \in [Contexts -> NodeTypes] /\ p \in Tasks /\ p \notin Runs
      /\ healthTask \in Loops \cup {None}
  BY KeptSame, Disjoint DEF TypeOK, LifecycleAssumption
<1>1. CASE FinishStop(p, o, nc)
  BY <1>0, <1>1, FinishStopAwaits
<1>2. CASE running /\ HealthTaskLive /\ SelfAwaiting(healthTask) /\ Raise(p)
  <2> PICK h \in Loops : h = healthTask
    BY <1>0, <1>2 DEF HealthTaskLive
  <2>1. h \in Tasks /\ h \notin Callers /\ h # p /\ pc[h] = "health" /\ target[h] = h
    BY <1>2, Disjoint DEF SelfAwaiting
  <2> DEFINE s == IF p \in Callers THEN "raised" ELSE "done"
  <2>2. /\ ready' = Cancel(Rest, h) /\ pc' = [pc EXCEPT ![p] = s]
        /\ UNCHANGED <<nc, target, ncOf>>
    BY <1>2 DEF Raise
  <2> HIDE DEF s
  <2>3. pc'[p] = s /\ pc'[h] = "health" /\ target'[h] = h
    BY <1>0, <2>1, <2>2 DEF TypeOK
  <2>4. Sound(h)'
    BY <2>1, <2>3 DEF Sound
  <2>5. s \in {"raised", "done"}
    BY DEF s
  <2>6. Aims(p)'
    BY <2>2, <2>3, <2>5 DEF AimsOK, Aims
  <2>7. Sane(p)
    BY <2>1, <2>2, <2>4, <2>6, SaneCancel
  <2>8. HandoverOK'
    BY <1>0, <2>2, <2>3, <2>5, <2>7, AwaitKept DEF SameNode
  <2> QED
    BY <2>7, <2>8
<1>3. CASE /\ running /\ HealthTaskLive /\ ~SelfAwaiting(healthTask)
           /\ pc' = [pc EXCEPT ![p] = "health"]
           /\ target' = [target EXCEPT ![p] = healthTask]
           /\ ready' = Cancel(Rest, healthTask)
           /\ UNCHANGED <<nc, ncOf>>
  <2> PICK h \in Loops : h = healthTask
    BY <1>0, <1>3 DEF HealthTaskLive
  <2>1. h \in Tasks /\ h \notin Callers /\ pc[h] = "sleep"
    BY <1>3, Disjoint DEF TrackedLoopSleeps, HealthTaskLive
  <2>2. /\ pc'[p] = "health" /\ target'[p] = h
        /\ h # p => pc'[h] = "sleep"
    BY <1>0, <1>3, <2>1 DEF TypeOK
  <2>3. Sound(h)'
    BY <2>1, <2>2 DEF Sound
  <2>4. Aims(p)'
    BY <2>1, <2>2 DEF Aims
  <2>5. Sane(p)
    BY <1>3, <2>1, <2>3, <2>4, SaneCancel
  <2>6. HandoverOK'
    BY <1>0, <1>3, <2>2, <2>5, AwaitKept DEF SameNode
  <2> QED
    BY <2>5, <2>6
<1>4. CASE StopNode(p, o)
  BY <1>4, StopNodeAwaits
<1> QED
  BY <1>1, <1>2, <1>3, <1>4 DEF StopGateway

LEMMA ResumeAwaits ==
    ASSUME LifecycleAssumption, TypeOK, QueueSound, AimsOK, HandoverOK, NEW p \in Procs,
           ResumeStart(p) \/ ResumeStopAfterHealth(p) \/ ResumeStopAfterRun(p)
    PROVE  Sane(p) /\ HandoverOK'
<1>0. nc \in [Contexts -> NodeTypes] /\ p \in Tasks /\ p \notin Runs
  BY Disjoint DEF TypeOK, LifecycleAssumption
<1>1. CASE ResumeStart(p)
  <2>1. /\ Resumes(p, "go") /\ pc[p] = "yield" /\ FinishStart(p)
        /\ nc' = [nc EXCEPT ![ncOf[p]].started = TRUE]
    BY <1>1, Zenon DEF ResumeStart
  <2> DEFINE x == ncOf[p]
  <2>2. x \in Contexts
    BY <2>1 DEF HandoverOK, YieldOK
  <2>3. /\ \A z \in Contexts : /\ nc'[z].runTask = nc[z].runTask
                               /\ nc'[z].stopped = nc[z].stopped
        /\ \A z \in Contexts : z # x => nc'[z] = nc[z]
        /\ nc'[x].started
    BY <1>0, <2>1, <2>2 DEF NodeTypes
  <2> HIDE DEF x
  <2>4. ASSUME NEW q \in Procs, pc[q] = "run", ncOf[q] = x PROVE nc[x].started
    <3>1. \A y : ~Before(ready, y, p)
      BY <2>1, Popped, RestKeeps
    <3>2. LineOK(q, p)
      BY DEF HandoverOK
    <3> QED
      BY <2>1, <2>4, <3>1, <3>2 DEF LineOK, x
  <2>5. KeptBy(p, nc')
    <3>1. \A z \in Contexts : nc'[z].runTask \in {nc[z].runTask, None}
      BY <2>3
    <3>2. ASSUME NEW q \in Procs, pc[q] = "run"
          PROVE  /\ ncOf[q] \in Contexts
                 /\ nc'[ncOf[q]].started <=> nc[ncOf[q]].started
      BY <2>3, <2>4, <3>2 DEF HandoverOK, WaitOK
    <3>3. KeptBy(p, nc)
      BY KeptSame
    <3> QED
      BY <2>3, <3>1, <3>2, <3>3 DEF KeptBy
  <2> QED
    BY <2>1, <2>5, ReturnAwaits DEF SameNode
<1>2. CASE ResumeStopAfterHealth(p)
  BY <1>2, StopNodeAwaits DEF ResumeStopAfterHealth
<1>3. CASE ResumeStopAfterRun(p)
  <2>1. /\ Resumes(p, "go") /\ pc[p] = "run"
        /\ FinishStop(p, op[p], Down(ncOf[p], nc))
    BY <1>3 DEF ResumeStopAfterRun
  <2>2. Sound(p) /\ WaitOK(p)
    BY <2>1, Popped DEF HandoverOK
  <2>3. /\ ncOf[p] \in Contexts /\ target[p] \in Runs
        /\ nc[ncOf[p]].started => nc[ncOf[p]].runTask = target[p]
    BY <2>1, <2>2 DEF WaitOK
  <2>4. pc[target[p]] = "done"
    BY <1>0, <2>1, <2>2, <2>3 DEF Sound
  <2>5. /\ KeptBy(p, Down(ncOf[p], nc)) /\ Down(ncOf[p], nc) \in [Contexts -> NodeTypes]
    BY <1>0, <2>1, <2>3, <2>4, DownKept
  <2> QED
    BY <2>1, <2>5, FinishStopAwaits
<1> QED
  BY <1>1, <1>2, <1>3

LEMMA GatewayStepAwaits ==
    ASSUME LifecycleAssumption, TypeOK, TrackedLoopSleeps, QueueSound, AimsOK, HandoverOK,
           NEW p \in Procs, GatewayStep(p)
    PROVE  Sane(p) /\ HandoverOK'
<1>0. /\ nc \in [Contexts -> NodeTypes] /\ context \in Contexts /\ KeptBy(p, nc)
      /\ p \in Tasks
  BY KeptSame, Disjoint DEF TypeOK
<1>1. CASE AwaitStart(p)
  <2>1. /\ Resumes(p, "go") /\ StartPending(p) /\ pc' = [pc EXCEPT ![p] = "pending"]
        /\ ready' = Rest /\ UNCHANGED <<nc, target, ncOf>>
    BY <1>1 DEF AwaitStart, frame
  <2>2. pc'[p] = "pending" /\ target'[p] \in Callers /\ target'[p] = target[p]
    BY <1>0, <2>1 DEF StartPending, TypeOK
  <2>3. Aims(p)'
    BY <2>2 DEF AimsOK, Aims
  <2>4. Sane(p)
    BY <1>0, <2>1, <2>3, SaneMove
  <2> QED
    BY <1>0, <2>1, <2>2, <2>4, AwaitKept DEF SameNode
<1>2. CASE BeginStart(p)
  <2>1. CASE Return(p, pc, Rest) /\ UNCHANGED nc
    BY <1>0, <1>2, <2>1, ReturnAwaits DEF BeginStart, SameNode
  <2>2. CASE FinishStart(p) /\ UNCHANGED nc
    BY <1>0, <1>2, <2>2, ReturnAwaits DEF BeginStart, SameNode
  <2>3. CASE ~nc[context].started /\ LaunchNode(p, "start", context, nc)
    BY <1>0, <1>2, <2>3, LaunchAwaits DEF BeginStart
  <2> QED
    BY <1>2, <2>1, <2>2, <2>3 DEF BeginStart
<1>3. CASE BeginStop(p)
  BY <1>3, StopGatewayAwaits DEF BeginStop
<1>4. CASE ResumeStart(p) \/ ResumeStopAfterHealth(p) \/ ResumeStopAfterRun(p)
  BY <1>4, ResumeAwaits
<1> QED
  BY <1>1, <1>2, <1>3, <1>4 DEF GatewayStep

LEMMA HealthStepAwaits ==
    ASSUME LifecycleAssumption, TypeOK, TrackedLoopSleeps, QueueSound, AimsOK, HandoverOK,
           NEW l \in Loops, Tick(l) \/ HealthStep(l)
    PROVE  Sane(l) /\ HandoverOK'
<1>0. /\ l \in Procs /\ l \in Tasks /\ l \notin Callers /\ KeptBy(l, nc)
      /\ pc \in [Tasks -> PCs]
  BY KeptSame, Disjoint DEF TypeOK
<1>1. CASE Tick(l)
  <2>1. /\ pc[l] = "sleep" /\ ~Queued(ready, l)
        /\ ready' = Append(ready, Entry(l, "tick")) /\ UNCHANGED <<nc, pc, target, ncOf>>
    BY <1>1 DEF Tick, frame
  <2>2. Entry(l, "tick") \in Entries
    BY <1>0 DEF Entry, Entries, Results
  <2>3. Sane(l)
    BY <1>0, <2>1, <2>2, SaneAppend
  <2> QED
    BY <1>0, <2>1, <2>3, AwaitKept DEF SameNode
<1>2. CASE /\ Resumes(l, "go") \/ Resumes(l, "tick")
           /\ pc[l] = "sleep" /\ ready' = Rest /\ UNCHANGED <<nc, pc, target, ncOf>>
  <2>1. Aims(l)'
    BY <1>0, <1>2 DEF AimsOK, Aims
  <2>2. Sane(l)
    BY <1>0, <1>2, <2>1, SaneMove
  <2> QED
    BY <1>0, <1>2, <2>2, AwaitKept DEF SameNode
<1>3. CASE CheckHealth(l) /\ StopGateway(l, "restart")
  BY <1>0, <1>3, StopGatewayAwaits DEF CheckHealth
<1>4. CASE LoopCancelled(l)
  <2>1. Resumes(l, "cancel") /\ End(l) /\ UNCHANGED <<nc, target, ncOf>>
    BY <1>4 DEF LoopCancelled, frame
  <2>2. Sane(l)
    BY <1>0, <2>1, SaneEnd
  <2>3. pc'[l] = "done"
    BY <1>0, <2>1 DEF End
  <2> QED
    BY <1>0, <2>1, <2>2, <2>3, AwaitKept DEF SameNode
<1> QED
  BY <1>1, <1>2, <1>3, <1>4 DEF HealthStep, LoopStarts, CheckHealth, frame

\* A connection loop on its way out, for a context that is flagged, ends or
\* stays on its way out.
LEMMA RunLeaves ==
    ASSUME TypeOK, QueueSound, NEW r \in Runs, RunTask(r),
           nc[ncOf[r]].stopped, Leaving(r)
    PROVE  End(r) \/ pc'[r] \in {"closing", "unwinding", "recovering"}
<1>0. r \in Tasks /\ pc \in [Tasks -> PCs]
  BY DEF TypeOK, Tasks
<1>1. \A s : RunGoes(r, s) => pc'[r] = s
  BY <1>0 DEF RunGoes
<1>2. CASE RunCancelled(r)
  BY <1>1, <1>2 DEF RunCancelled
<1>3. CASE RunStep(r)
  <2>1. PICK result \in {"go", "ok", "error"} : Resumes(r, result)
    BY <1>3 DEF RunStep
  <2>2. Entry(r, "cancel") \notin InQueue(ready)
    <3>1. /\ ready \in Seq(Entries) /\ ready # <<>> /\ Single(ready)
          /\ Head(ready) = Entry(r, result)
      BY <2>1 DEF TypeOK, QueueSound, Resumes
    <3>2. /\ InQueue(Rest) = InQueue(ready) \ {Head(ready)}
          /\ ~Queued(Rest, Head(ready).task)
      BY <3>1, RestQueue DEF Rest
    <3>3. Entry(r, "cancel") \notin InQueue(Rest)
      BY <3>1, <3>2, QueuedIn DEF Entry
    <3> QED
      BY <2>1, <3>1, <3>2, <3>3 DEF Entry
  <2>3. pc[r] \in {"closing", "unwinding", "recovering"}
    BY <2>2 DEF Leaving
  <2> QED
    BY <1>1, <1>3, <2>3 DEF RunStep, NextAttempt
<1> QED
  BY <1>2, <1>3 DEF RunTask

LEMMA RunTaskAwaits ==
    ASSUME LifecycleAssumption, TypeOK, QueueSound, AimsOK, HandoverOK,
           NEW r \in Runs, RunTask(r)
    PROVE  Sane(r) /\ HandoverOK'
<1>0. /\ r \in Tasks /\ r \notin Procs /\ pc \in [Tasks -> PCs]
      /\ nc \in [Contexts -> NodeTypes] /\ UNCHANGED <<target, ncOf>>
  BY Disjoint DEF TypeOK, RunTask, frame, LifecycleAssumption
<1>1. PICK result : Resumes(r, result)
  BY DEF RunTask, RunStep, RunCancelled
<1>2. End(r) \/ \E next : RunGoes(r, next)
  BY DEF RunTask, RunStep, RunCancelled, LoopHead, NextAttempt
<1>3. \A x \in Contexts : SameNode(nc'[x], nc[x])
  <2>1. \/ UNCHANGED nc
        \/ \E b \in BOOLEAN : SetConnected(r, b)
    BY DEF RunTask, RunStep, RunCancelled
  <2>2. ASSUME NEW b \in BOOLEAN, SetConnected(r, b), NEW x \in Contexts
        PROVE  SameNode(nc'[x], nc[x])
    <3>1. nc' = [nc EXCEPT ![ncOf[r]].connected = b]
      BY <2>2 DEF SetConnected
    <3> QED
      BY <1>0, <3>1 DEF SameNode, NodeTypes
  <2> QED
    BY <2>1, <2>2 DEF SameNode
<1>4. /\ Sane(r) /\ Grows(Rest, ready')
      /\ End(r) => \A w \in Waiters(r) \ {r} : Queued(ready', w)
  <2>1. CASE End(r)
    <3>1. Sane(r) /\ \A w \in Waiters(r) \ {r} : Queued(ready', w)
      BY <1>0, <1>1, <2>1, SaneEnd
    <3>2. Rest \in Seq(Entries) /\ Waiters(r) \ {r} \in SUBSET Procs
      BY <1>1, Popped DEF Waiters
    <3>3. Grows(Rest, ready')
      BY <2>1, <3>2, GrowsWake DEF End
    <3> QED
      BY <3>1, <3>3
  <2>2. CASE ~End(r)
    <3>1. PICK next : RunGoes(r, next)
      BY <1>2, <2>2
    <3>2. Sane(r)
      BY <1>0, <1>1, <3>1, SaneMove DEF RunGoes
    <3>3. Grows(Rest, ready')
      BY <1>1, <3>1, Popped DEF RunGoes, Grows
    <3> QED
      BY <2>2, <3>2, <3>3
  <2> QED
    BY <2>1, <2>2
<1>5. Links'
  BY <1>0, <1>3 DEF HandoverOK, Links, SameNode
<1>6. ASSUME NEW q \in Procs PROVE WaitOK(q)'
  <2>1. WaitOK(q)
    BY DEF HandoverOK
  <2>2. pc'[q] = pc[q]
    BY <1>0, <1>2, Disjoint DEF End, RunGoes
  <2>3. CASE pc[q] # "run"
    BY <2>2, <2>3 DEF WaitOK
  <2>4. CASE pc[q] = "run" /\ target[q] # r
    BY <1>0, <1>3, <1>4, <2>1, <2>4, WaiterKept DEF WaitOK, SameNode
  <2>5. CASE pc[q] = "run" /\ target[q] = r
    <3>1. /\ ncOf[q] \in Contexts /\ ncOf[r] = ncOf[q]
          /\ nc[ncOf[q]].started => nc[ncOf[q]].runTask = r
          /\ pc[r] # "done" => nc[ncOf[q]].started /\ nc[ncOf[q]].stopped /\ Leaving(r)
      BY <2>1, <2>5 DEF WaitOK
    <3>2. pc[r] # "done"
      BY <1>1, Popped DEF Sound
    <3>3. End(r) \/ pc'[r] \in {"closing", "unwinding", "recovering"}
      BY <3>1, <3>2, RunLeaves
    <3>4. pc'[r] = "done" => Queued(ready', q)
      BY <1>0, <1>4, <2>5, <3>3 DEF Waiters
    <3>5. pc'[r] # "done" => pc'[r] \in {"closing", "unwinding", "recovering"}
      BY <1>0, <3>3 DEF End
    <3>6. nc'[ncOf[q]].started /\ nc'[ncOf[q]].stopped /\ nc'[ncOf[q]].runTask = r
      BY <1>3, <3>1, <3>2 DEF SameNode
    <3> QED
      BY <1>0, <2>2, <2>5, <3>1, <3>4, <3>5, <3>6 DEF WaitOK, Leaving
  <2> QED
    BY <2>3, <2>4, <2>5
<1>7. ASSUME NEW y \in Procs PROVE YieldOK(y)'
  <2>1. YieldOK(y)
    BY DEF HandoverOK
  <2> SUFFICES ASSUME pc[y] = "yield" PROVE YieldOK(y)'
    BY <1>0, <1>2, Disjoint DEF End, RunGoes, YieldOK
  <2>2. ncOf[y] \in Contexts /\ nc'[ncOf[y]].runTask = nc[ncOf[y]].runTask
    BY <1>3, <2>1 DEF YieldOK, SameNode
  <2>3. CASE nc[ncOf[y]].runTask # r
    BY <1>0, <1>4, <2>2, <2>3, YielderKept
  <2>4. CASE nc[ncOf[y]].runTask = r
    <3>1. /\ ready \in Seq(Entries) /\ ready # <<>> /\ Single(ready)
          /\ Head(ready).task = r /\ Tail(ready) = Rest
      BY <1>1, Popped
    <3>2. ~First(ready, y) /\ (Close(ready, r, y) => First(Rest, y))
      <4>1. y # r
        BY <1>0
      <4>2. (First(ready, y) => y = r)
            /\ (y # r /\ Close(ready, r, y) => First(Tail(ready), y))
        BY <3>1, RestKeeps
      <4> QED
        BY <3>1, <4>1, <4>2
    <3>3. First(Rest, y)
      BY <1>0, <2>1, <2>4, <3>2, Disjoint DEF YieldOK
    <3>4. First(ready', y)
      BY <1>4, <3>3, GrowsKeeps
    <3> QED
      BY <1>0, <1>4, <3>4, YielderKept
  <2> QED
    BY <2>3, <2>4
<1>8. ASSUME NEW q \in Procs, NEW y \in Procs PROVE LineOK(q, y)'
  <2>1. WaitOK(q) /\ LineOK(q, y)
    BY DEF HandoverOK
  <2>2. pc[q] = "run" /\ pc[y] = "yield" /\ ncOf[y] = ncOf[q]
           /\ ~nc'[ncOf[q]].started => Before(ready, q, y)
    BY <1>3, <2>1 DEF WaitOK, LineOK, SameNode
  <2> QED
    BY <1>0, <1>4, <2>2, LineKept
<1> QED
  BY <1>4, <1>5, <1>6, <1>7, <1>8 DEF HandoverOK

LEMMA TransportAwaits ==
    ASSUME LifecycleAssumption, TypeOK, QueueSound, AimsOK, HandoverOK,
           NEW r \in Runs, TransportEvent(r)
    PROVE  Sane(r) /\ HandoverOK'
<1>1. PICK result \in {"ok", "error"} : ready' = Append(ready, Entry(r, result))
  BY DEF TransportEvent
<1>2. /\ ~Queued(ready, r) /\ UNCHANGED <<nc, pc, target, ncOf, startTask>>
      /\ pc[r] \notin {"new", "done", "health", "run", "pending"}
  BY DEF TransportEvent, frame
<1>3. r \in Tasks /\ r \notin Callers /\ r \notin Procs /\ Entry(r, result) \in Entries
  BY Disjoint DEF Entry, Entries, Results, LifecycleAssumption
<1>4. Sane(r)
  BY <1>1, <1>2, <1>3, SaneAppend
<1>5. HandoverOK'
  <2>1. ASSUME NEW q \in Procs PROVE WaitOK(q)' /\ YieldOK(q)'
    <3>1. WaitOK(q)'
      <4>1. WaitOK(q)
        BY DEF HandoverOK
      <4>2. CASE pc[q] = "run" /\ target[q] = r
        <5>1. Leaving(r) => Leaving(r)'
          <6>1. InQueue(ready) \subseteq InQueue(ready')
            BY <1>1, <1>2, <1>3, AppendQueue DEF TypeOK, QueueSound, Entry
          <6> QED
            BY <1>2, <6>1 DEF Leaving
        <5> QED
          BY <1>2, <4>1, <4>2, <5>1 DEF WaitOK
      <4>3. CASE pc[q] = "run" /\ target[q] # r
        BY <1>2, <1>3, <1>4, <4>1, <4>3, WaiterKept DEF WaitOK
      <4> QED
        BY <1>2, <4>2, <4>3 DEF WaitOK
    <3>2. YieldOK(q)'
      <4>1. pc[q] = "yield" =>
               \/ nc[ncOf[q]].runTask # r
               \/ First(ready, q)
        BY <1>2, <1>3, Disjoint DEF HandoverOK, YieldOK
      <4> QED
        BY <1>2, <1>3, <1>4, <4>1, YielderKept DEF Sane, OrderKept
    <3> QED
      BY <3>1, <3>2
  <2>2. ASSUME NEW q \in Procs, NEW y \in Procs PROVE LineOK(q, y)'
    BY <1>2, <1>3, <1>4, LineKept DEF HandoverOK, LineOK
  <2>3. Links'
    BY <1>2 DEF HandoverOK, Links
  <2> QED
    BY <2>1, <2>2, <2>3 DEF HandoverOK
<1> QED
  BY <1>4, <1>5

LEMMA HostCallAwaits ==
    ASSUME LifecycleAssumption, TypeOK, QueueSound, AimsOK, HandoverOK,
           NEW p \in Callers, HostCall(p)
    PROVE  Sane(p) /\ HandoverOK' /\ (startTask' \in Callers => Ops[startTask'] = {})
<1>0. /\ p \in Procs /\ p \in Tasks /\ p \notin Runs /\ KeptBy(p, nc)
      /\ pc \in [Tasks -> PCs] /\ target \in [Procs -> Tasks \cup {None}]
      /\ None \notin Callers
  BY KeptSame, Disjoint DEF TypeOK
<1>1. PICK o, t : Spawn(p, o, t) /\ t \in {None, startTask}
  BY DEF HostCall, Call, FacadeStart, FacadeStop
<1>2. /\ pc' = [pc EXCEPT ![p] = "begin"] /\ target' = [target EXCEPT ![p] = t]
      /\ ready' = Append(ready, Entry(p, "go")) /\ UNCHANGED <<nc, ncOf>>
  BY <1>1 DEF Spawn
<1>3. /\ Idle(p)
      /\ \A q \in Procs : pc[q] = "pending" => target[q] # p
      /\ startTask' \in Callers => Ops[startTask'] = {}
  <2>1. CASE Call(p)
    <3>1. Idle(p) /\ Ops[p] # {} /\ startTask' = startTask
      BY <2>1 DEF Call
    <3> QED
      BY <3>1 DEF AimsOK, Aims
  <2>2. CASE FacadeStart(p) \/ FacadeStop(p)
    <3>1. p \in FreeTasks /\ startTask' \in {p, None}
      BY <2>2 DEF FacadeStart, FacadeStop
    <3> QED
      BY <1>0, <3>1 DEF FreeTasks
  <2> QED
    BY <2>1, <2>2 DEF HostCall
<1>4. ~Queued(ready, p)
  BY <1>3 DEF QueueSound, Sound
<1>5. /\ pc'[p] = "begin" /\ target'[p] = t
      /\ \A u \in Tasks : u # p => pc'[u] = pc[u]
      /\ \A q \in Procs : q # p => target'[q] = target[q]
  BY <1>0, <1>2
<1>6. Sound(p)' /\ Aims(p)'
  <2>1. Sound(p)'
    BY <1>5 DEF Sound, Idle
  <2>2. t \in Callers => Ops[t] = {}
    BY <1>0, <1>1 DEF AimsOK
  <2>3. Aims(p)'
    BY <1>5, <2>2 DEF Aims
  <2> QED
    BY <2>1, <2>3
<1>7. Steady(p)
  <2>1. \A u \in Tasks \ {p} : pc[u] # "done" => pc'[u] = pc[u] /\ ncOf'[u] = ncOf[u]
    BY <1>2, <1>5
  <2>2. ASSUME NEW q \in Procs \ {p}
        PROVE  /\ target'[q] = target[q]
               /\ pc[q] = "done" => pc'[q] \in {"done", "sleep"}
               /\ pc[q] \in {"health", "run"} /\ target[q] # q /\ pc[target[q]] = "done" =>
                    pc'[target[q]] = "done" /\ ncOf'[target[q]] = ncOf[target[q]]
               /\ pc[q] = "pending" /\ Idle(target[q]) => Idle(target[q])'
    <3>1. target'[q] = target[q] /\ pc'[q] = pc[q]
      BY <1>5, <2>2, Disjoint
    <3>2. ASSUME pc[q] \in {"health", "run"}, pc[target[q]] = "done"
          PROVE  pc'[target[q]] = "done" /\ ncOf'[target[q]] = ncOf[target[q]]
      <4>1. target[q] \in Tasks /\ target[q] # p
        BY <1>3, <3>2, Disjoint DEF AimsOK, Aims, Idle
      <4> QED
        BY <1>2, <1>5, <3>2, <4>1
    <3>3. ASSUME pc[q] = "pending", Idle(target[q]) PROVE Idle(target[q])'
      <4>1. target[q] \in Tasks /\ target[q] # p
        BY <1>3, <3>3, Disjoint DEF AimsOK, Aims
      <4> QED
        BY <1>5, <3>1, <3>3, <4>1 DEF Idle
    <3> QED
      BY <3>1, <3>2, <3>3
  <2> QED
    BY <2>1, <2>2 DEF Steady
<1>8. Sane(p)
  BY <1>0, <1>2, <1>4, <1>6, <1>7, GoEntry, QueueAppended DEF Sane
<1>9. HandoverOK'
  BY <1>0, <1>2, <1>5, <1>8, AwaitKept DEF SameNode
<1> QED
  BY <1>3, <1>8, <1>9

\* A connection loop that stop() awaits is on its way out and never goes back to
\* waiting for the broker, whatever other calls, health loops and loops of other
\* contexts do meanwhile (node_context.py, stop() and _run()).
THEOREM AwaitedEnds == Spec => []AwaitedRunEnds
<1> USE LifecycleAssumption
<1> DEFINE Inv == QueueSound /\ AimsOK /\ HandoverOK
<1>1. Init => Inv
  <2> SUFFICES ASSUME Init PROVE Inv
    OBVIOUS
  <2>1. /\ ready = <<>> /\ startTask = None
        /\ \A t \in Tasks : pc[t] \in {"idle", "done"}
        /\ \A q \in Procs : target[q] = None
        /\ \A x \in Contexts : nc[x].runTask = None
    BY DEF Init, NewContext
  <2>2. QueueSound
    BY <2>1 DEF QueueSound, Single, Queued
  <2>3. AimsOK
    BY <2>1, Disjoint DEF AimsOK, Aims
  <2>4. HandoverOK
    BY <2>1, Disjoint DEF HandoverOK, Links, WaitOK, YieldOK, LineOK
  <2> QED
    BY <2>2, <2>3, <2>4
<1>2. TypeOK /\ TrackedLoopSleeps /\ Inv /\ [Next]_vars => Inv'
  <2> SUFFICES ASSUME TypeOK, TrackedLoopSleeps, QueueSound, AimsOK, HandoverOK, [Next]_vars
               PROVE  Inv'
    OBVIOUS
  <2>1. CASE UNCHANGED vars
    <3>1. UNCHANGED <<ready, pc, target, ncOf, nc, startTask>>
      BY <2>1 DEF vars, frame
    <3>2. QueueSound' /\ AimsOK'
      BY <3>1 DEF QueueSound, Sound, Idle, AimsOK, Aims
    <3>3. HandoverOK'
      BY <3>1 DEF HandoverOK, Links, WaitOK, YieldOK, LineOK, Leaving
    <3> QED
      BY <3>2, <3>3
  <2>2. ASSUME NEW p \in Tasks, Sane(p), HandoverOK',
               startTask' \in Callers => Ops[startTask'] = {}
        PROVE  Inv'
    BY <2>2, SaneStep
  <2>3. startTask' = startTask => (startTask' \in Callers => Ops[startTask'] = {})
    BY DEF AimsOK
  <2>4. ASSUME NEW p \in Procs, GatewayStep(p), startTask' = startTask PROVE Inv'
    BY <2>2, <2>3, <2>4, GatewayStepAwaits, Disjoint
  <2>5. ASSUME NEW l \in Loops, Tick(l) \/ HealthStep(l), startTask' = startTask PROVE Inv'
    BY <2>2, <2>3, <2>5, HealthStepAwaits, Disjoint
  <2>6. ASSUME NEW r \in Runs, RunTask(r), startTask' = startTask PROVE Inv'
    BY <2>2, <2>3, <2>6, RunTaskAwaits, Disjoint
  <2>7. ASSUME NEW r \in Runs, TransportEvent(r) PROVE Inv'
    BY <2>2, <2>3, <2>7, TransportAwaits, Disjoint DEF TransportEvent
  <2>8. ASSUME NEW c \in Callers, HostCall(c) PROVE Inv'
    BY <2>2, <2>8, HostCallAwaits, Disjoint
  <2>9. \/ Step \/ (\E c \in Callers : HostCall(c))
        \/ (\E l \in Loops : Tick(l)) \/ (\E r \in Runs : TransportEvent(r))
        \/ UNCHANGED vars
    BY DEF Next, HostCall
  <2> QED
    BY <2>1, <2>4, <2>5, <2>6, <2>7, <2>8, <2>9 DEF Step, Tick
<1>3. Inv => AwaitedRunEnds
  <2> SUFFICES ASSUME HandoverOK, NEW p \in Procs, pc[p] = "run"
               PROVE  \/ pc[target[p]] \in {"closing", "unwinding", "done"}
                            /\ (pc[target[p]] = "closing" => nc[ncOf[p]].stopped)
                      \/ pc[target[p]] = "recovering" /\ nc[ncOf[p]].stopped
                      \/ \E i \in 1..Len(ready) : ready[i] = Entry(target[p], "cancel")
    BY DEF AwaitedRunEnds
  <2>1. pc[target[p]] # "done" => nc[ncOf[p]].stopped /\ Leaving(target[p])
    BY DEF HandoverOK, WaitOK
  <2> QED
    BY <2>1 DEF Leaving, InQueue
<1> QED
  BY <1>1, <1>2, <1>3, TypeCorrect, WatchSleeps, PTL DEF Spec
=============================================================================
