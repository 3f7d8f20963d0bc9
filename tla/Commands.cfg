\* Two commands of which one may hang, one worker each so that three requests
\* compete for it, one of them a status request with async_backend, and two
\* starts of the services: one restart.
SPECIFICATION FairSpec
CONSTANTS
    CommandTopics = {status, config}
    Hanging = {config}
    Requests = {q1, q2, q3}
    StatusTopic = status
    Probes = {q3}
    Workers = 1
    MaxStarts = 2
    None = None
CHECK_DEADLOCK FALSE
INVARIANT
    TypeOK
PROPERTIES
    ImplementsRemoteCall
    StopRunsNoMore
    Isolated
    WorkersReturn
