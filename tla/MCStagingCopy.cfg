SPECIFICATION FairSpec
CONSTANTS
    c1 = c1
    Calls = {c1}
    Buffers = {"A", "B"}
    Tails = {"t"}
    Sources <- MCSources
    Limits = {1, 2}
INVARIANTS
    SuccessIsWhole
    ChecksumDescribesCopy
    FailureLeavesNothing
PROPERTY
    EveryCallReturns
