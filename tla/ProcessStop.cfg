SPECIFICATION ProcessSpec
CONSTANTS
    Threads <- MCThreads
    NoThread = NoThread
    Lost = Lost
    LibraryLocks = FALSE
    Num_Msgs = 1
    Viewers <- MCViewers
    NoViewer = NoViewer
    MaxFails = 1
PROPERTY StopEnds
CHECK_DEADLOCK FALSE
