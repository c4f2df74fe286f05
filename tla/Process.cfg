SPECIFICATION ProcessSpec
CONSTANTS
    Threads <- MCThreads
    NoThread = NoThread
    Lost = Lost
    LibraryLocks = TRUE
    Num_Msgs = 2
    Viewers <- MCViewers
    NoViewer = NoViewer
    MaxFails = 0
PROPERTY StopsUnlessLocked
INVARIANTS ProcessTypeOK LogDepth LogFileAgrees
CHECK_DEADLOCK FALSE
