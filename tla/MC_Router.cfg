CONSTANTS
    p1 = p1
    p2 = p2
    idA = idA
    idB = idB
    Pipes <- MCPipes
    UserIds <- MCUserIds
    Unknown = idB
    NoPipe = NoPipe
    NoFrame = NoFrame
    Empty = Empty
    NMsgs = 1
    MsgLen = 2
    NOut = 2
    BodyLen = 1
    HWM = 1
    RawSock = FALSE
    MandatoryModes = {FALSE, TRUE}
    ProbeRouter = FALSE
    PeerIdBits = 1

SPECIFICATION Spec
INVARIANT TypeOK
INVARIANT IdentityTable
INVARIANT SendStartClean
INVARIANT MoreOutTracksCaller
INVARIANT WriteActivationSafe
INVARIANT RecvFraming
\* Each pipe is attached, closes and terminates at most once and the peers
\* send finitely many messages, so the model may stop; that is not a hang.
CHECK_DEADLOCK FALSE
