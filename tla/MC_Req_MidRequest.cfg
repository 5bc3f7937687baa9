CONSTANTS
    pa = pa
    pb = pb
    Pipes <- MCPipes
    NReqs = 1
    ULen = 2
    RLen = 1
    Modes = {TRUE}
    CanClose = TRUE
    NoPipe = NoPipe
    NoFrame = NoFrame

SPECIFICATION Spec
INVARIANT NoMidRequestRefusal
\* once the last reply is read, or every peer has gone, nothing is left to do
CHECK_DEADLOCK FALSE
