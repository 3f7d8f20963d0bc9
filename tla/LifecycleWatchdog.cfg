\* One host task and live health loops that restart the gateway on their own.
SPECIFICATION FairSpec
CONSTANTS
    c1 = c1
    f1 = f1
    f2 = f2
    f3 = f3
    None = None
    Callers = {c1}
    Ops <- AnyOps
    Patient = TRUE
    Loops = {l1, l2, l3}
    Runs = {r1, r2, r3}
    Contexts = {x1, x2, x3}
    Components = {}
    Threshold = 2
    HealthChecks = TRUE
INVARIANTS
    TypeOK
    HealthIsHonest
    TrackedLoopSleeps
    AwaitedRunEnds
PROPERTY
    CallsReturn
