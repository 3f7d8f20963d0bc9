\* A worker thread beside the event loop, a notifier and a log handler, one topic
\* of the host's, two messages and one restart.  A named logger, two
\* strategy-loaded callbacks, so that a restart leaves one of an earlier start
\* with the app, and an app that refuses to unregister the notifier up to twice.
SPECIFICATION PubSpec
CONSTANTS
    Loggers = {n1}
    MaxLoaded = 2
    MaxRefused = 2
    Main = main
    Workers = {w1}
    Outlets = {"notify", "log"}
    Users = {u1}
    MaxContext = 2
    MaxMade = 2
    None = None
INVARIANTS
    TypeOK
    Silent
    ForwardedOnce
    HandlersKnown
    PubTypeOK
    NumberedOnce
    InTurn
    AtMostOneLate
