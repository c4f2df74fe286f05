SPECIFICATION StreamingSpec
CONSTANTS
    Modules <- MCModules
    UpdateModules <- MCUpdateModules
    Lines = {}
    Reports = {}
    MaxTx = 0
    Viewers <- MCViewers
    NoViewer = NoViewer
    MaxFails = 1
INVARIANTS StreamingTypeOK NameWhileRecording
PROPERTIES ViewerServed NewcomerToldStream ViewerTold
CHECK_DEADLOCK FALSE
