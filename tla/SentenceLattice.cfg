CONSTANTS
    Words <- MCWords
    Generated = {"a", "c"}
    Cutoffs = {1, 2}
    MaxLines = 4
SPECIFICATION LatticeSpec
INVARIANT LatticeComplete
INVARIANT PrintedAsExpected
CHECK_DEADLOCK FALSE
