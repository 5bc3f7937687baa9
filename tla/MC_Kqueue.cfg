CONSTANTS
    e1 = e1
    e2 = e2
    f1 = f1
    f2 = f2
    Entries <- MCEntries
    Fds <- MCFds
    ReadyStates <- MCReady
    MaxIoEvents = 256
    RetiredFd = RetiredFd
    NoCb = NoCb

SPECIFICATION Spec
INVARIANT TypeOK
INVARIANT NoUseAfterFree
INVARIANT KernelMatchesFlags
PROPERTY NoCallbackAfterRmFd
PROPERTY ReadyServed
\* after stop the I/O thread has left its loop
CHECK_DEADLOCK FALSE
