CONSTANTS
    Clients = {c1}
    Topics <- MCTopics
    Patterns <- MCPatterns
    Matches <- MCMatches
    IoLanes = {io1}
    MaxQueue = 2
    MaxMsgs = 2
    MaxCtl = 2

SPECIFICATION Spec

INVARIANT TypeOK
PROPERTY ChannelRefinement
PROPERTY QueuedDataEventuallyWritten

\* A failed socket write terminates the process (WriteError): every action
\* is then disabled, so the model really stops there.
CHECK_DEADLOCK FALSE
