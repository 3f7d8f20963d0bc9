\* A health loop that restarts the gateway and the loop it starts.
SPECIFICATION Spec
CONSTANTS
    c1 = c1
    f1 = f1
    f2 = f2
    f3 = f3
    None = None
    Callers = {c1}
    Ops <- AnyOps
    Patient = TRUE
    Loops = {l1, l2, l3}
    Runs = {r1, r2, r3}
    Contexts = {x1, x2, x3}
    Components = {}
    Threshold = 1
    HealthChecks = TRUE
CHECK_DEADLOCK FALSE
INVARIANT
    OneHealthLoop
