CONSTANTS
    Symbols = {s1, s2}
    Workers = {w1, w2}
    MaxEvents = 3

SPECIFICATION Spec

INVARIANT TypeOK
PROPERTY RegistryRefinement
INVARIANT EveryEventOnce

\* Once the feed has generated its MaxEvents events and every frame has gone
\* as far as it can, every thread idles.
CHECK_DEADLOCK FALSE
