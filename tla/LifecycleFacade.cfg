\* A host that calls start() and stop() of the facade without waiting.
SPECIFICATION Spec
CONSTANTS
    c1 = c1
    f1 = f1
    f2 = f2
    f3 = f3
    None = None
    Callers = {f1, f2, f3}
    Ops <- AnyOps
    Patient = FALSE
    Loops = {l1, l2, l3, l4}
    Runs = {r1, r2, r3, r4}
    Contexts = {x1, x2, x3, x4}
    Components = {}
    Threshold = 1
    HealthChecks = FALSE
CHECK_DEADLOCK FALSE
INVARIANT
    OneConnection
