CONSTANTS
    ca = ca
    cb = cb
    Pipes <- MCPipes
    NReqs = 2
    HWM = 3
    NoPipe = NoPipe
    NoFrame = NoFrame

SPECIFICATION Spec
INVARIANT TypeOK
INVARIANT RepliesWhole
\* every client has sent everything and read every reply
CHECK_DEADLOCK FALSE
PROPERTY ReplyDelivered
