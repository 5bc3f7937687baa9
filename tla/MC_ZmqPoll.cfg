CONSTANTS
    s1 = s1
    f1 = f1
    Items <- MCItems
    IsSocket <- MCIsSocket
    Requested <- MCRequested
    Timeouts <- MCTimeouts
    MaxFlips = 3
    IntBits = 8

SPECIFICATION Spec
INVARIANT TypeOK
INVARIANT ReturnsCorrectly
PROPERTY FiniteTimeoutReturns
\* the call returns; after that nothing happens
CHECK_DEADLOCK FALSE
