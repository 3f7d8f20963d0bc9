\* One listener on the topic of an event, beside the component.
SPECIFICATION Spec
CONSTANTS
    Topics <- TwoTopics
    Patterns <- TwoPatterns
    External <- Plus
    Subs = {s1}
    Listeners = {k1}
    Registrations = {}
    EventOf <- Events
    k1 = k1
    k2 = k2
    None = None
INVARIANT
    StoppedReleases
