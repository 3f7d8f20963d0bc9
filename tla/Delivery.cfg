\* The component, two subscribers on any of four overlapping patterns, a listener
\* of one event, which the host may create again; two registrations of handlers.
SPECIFICATION Spec
CONSTANTS
    Topics <- AllTopics
    Patterns <- AllPatterns
    External <- Plus
    Subs = {s1, s2}
    Listeners = {k1}
    Registrations = {h1, h2}
    EventOf <- Events
    k1 = k1
    k2 = k2
    None = None
INVARIANTS
    TypeOK
    RoutesToNarrowest
    OnePattern
    CalledOnce
    BusMatchesRegistry
