CONSTANTS
    NMsgs = 1
    MsgLen = 2
    Capture = TRUE

SPECIFICATION Spec
PROPERTY MessagesForwarded
\* once both messages are through, or stuck, the loop keeps polling
CHECK_DEADLOCK FALSE
