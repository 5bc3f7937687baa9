CONSTANTS
    p1 = p1
    p2 = p2
    p3 = p3
    Pipes <- MCPipes
    NMsgs = 3
    MsgLen = 2
    HWM = 1

SPECIFICATION Spec
INVARIANT TypeOK
INVARIANT IndexConsistent
INVARIANT ActiveIffWritable
PROPERTY SendProgress
\* Once every pipe has gone and the application is blocked, a real socket
\* waits for a new connection; this model has none left to offer.
CHECK_DEADLOCK FALSE
