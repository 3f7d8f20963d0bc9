\* One host: a coroutine that calls every operation and the facade's start()
\* and stop(), one after the other, except that the facade may be stopped at any
\* time.  The health interval is longer than the run (the integration tests
\* set it to 9999 s): the lifecycle as documented.
SPECIFICATION FairSpec
CONSTANTS
    c1 = c1
    f1 = f1
    f2 = f2
    f3 = f3
    None = None
    Callers = {c1, f1, f2, f3}
    Ops <- AnyOps
    Patient = TRUE
    Loops = {l1, l2}
    Runs = {r1, r2}
    Contexts = {x1, x2}
    Components = {k1, k2}
    Threshold = 2
    HealthChecks = FALSE
INVARIANTS
    StopIsFinal
    StartHolds
    OneConnection
    BoundOnce
    BoundToCurrent
PROPERTY
    CallsReturn
