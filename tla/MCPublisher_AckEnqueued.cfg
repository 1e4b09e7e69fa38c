CONSTANTS
    Clients = {c1}
    Topics <- MCTopics
    Patterns <- MCPatterns
    Matches <- MCMatches
    IoLanes = {io1}
    MaxQueue = 2
    MaxMsgs = 2
    MaxCtl = 2

SPECIFICATION Spec

PROPERTY AckEnqueued

CHECK_DEADLOCK FALSE
