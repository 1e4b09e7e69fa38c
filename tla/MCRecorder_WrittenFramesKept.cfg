CONSTANTS
    Stamps <- MCStamps
    TicksPerSec = 2
    Sizes = {1, 2}
    HeaderBytes = 1
    RollBytes = 3
    IndexInterval = 2
    HeaderEvery = 2
    MaxFrames = 4

SPECIFICATION Spec

INVARIANT WrittenFramesKept
