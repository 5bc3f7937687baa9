CONSTANTS
    pa = pa
    pb = pb
    Pipes <- MCPipes
    NReqs = 2
    ULen = 1
    RLen = 2
    Modes = {TRUE, FALSE}
    CanClose = TRUE
    NoPipe = NoPipe
    NoFrame = NoFrame

SPECIFICATION Spec
INVARIANT TypeOK
INVARIANT ReplyCorrelated
\* once the last reply is read, or every peer has gone, nothing is left to do
CHECK_DEADLOCK FALSE
PROPERTY RequestAnswered
