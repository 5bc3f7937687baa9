CONSTANTS
    ca = ca
    cb = cb
    Pipes <- MCPipes
    NReqs = 1
    HWM = 1
    NoPipe = NoPipe
    NoFrame = NoFrame

SPECIFICATION Spec
\* every client has sent everything and read every reply
CHECK_DEADLOCK FALSE
PROPERTY ReplyDelivered
