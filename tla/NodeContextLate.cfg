\* A topic registered after the snapshot was taken.
SPECIFICATION Spec
CONSTANTS
    Topics = {pattern, command}
    Commands = {command}
    Invalid = {}
    MaxSent = 0
INVARIANT
    SubscribedWhileServing
