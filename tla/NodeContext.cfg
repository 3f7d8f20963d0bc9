\* One context, a pattern, a command and an invalid pattern, four messages: two can
\* be lost, one each on two connections, with others before and after them.
SPECIFICATION FairSpec
CONSTANTS
    Topics = {pattern, command, wrong}
    Commands = {command}
    Invalid = {wrong}
    MaxSent = 4
INVARIANTS
    TypeOK
    InOrder
    AtMostOneLost
PROPERTIES
    ImplementsOutbox
    Drains
    StopEnds
    Poisoned
