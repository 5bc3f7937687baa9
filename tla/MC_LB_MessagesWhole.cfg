CONSTANTS
    p1 = p1
    p2 = p2
    p3 = p3
    Pipes <- MCPipes
    NMsgs = 3
    MsgLen = 2
    HWM = 1

SPECIFICATION Spec
INVARIANT MessagesWhole
CHECK_DEADLOCK FALSE
