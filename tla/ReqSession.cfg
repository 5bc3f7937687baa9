CONSTANTS
    HWM = 2
    MaxConns = 2
    MaxFrames = 4

SPECIFICATION Spec
INVARIANT TypeOK
INVARIANT PipeWellFormed
INVARIANT ReplyNeverRefused
\* The peers send finitely many frames over finitely many connections, so
\* the session may end idle; that is not a hang.
CHECK_DEADLOCK FALSE
