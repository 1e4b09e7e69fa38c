CONSTANTS
    Ids = {r1}
    Segs = {"seg1", "seg2"}
    SegData <- MCSegData
    IndexInterval = 2
    CapTicks = 3
    MaxSessions = 1
    Stamps = {1, 2, 4, 9}
    MaxSeeks = 1
    Wrap = 1000

SPECIFICATION Spec

INVARIANT TypeOK
PROPERTY PlaybackTerminates

\* Session ids are not reused: once every id has been started and has
\* finished, no caller acts again and the replayer sits idle, as it may.
CHECK_DEADLOCK FALSE
