CONSTANTS
    Alphabet = {"a", "b", "."}
    PatAlphabet = {"a", ".", "*"}
    MaxLen = 3
    Bounds = {1, 2, 3, 4}
    MaxBuckets = 3
    Latencies = {0, 1, 2, 3, 4, 5}

SPECIFICATION Spec

INVARIANT GlobNoFalseNegatives
INVARIANT BucketSelectionAgrees

\* Each state is one input and stays as it is.
CHECK_DEADLOCK FALSE
