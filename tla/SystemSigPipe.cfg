SPECIFICATION SystemSpec
CONSTANTS
    Conns <- MCTwo
    Fds = {f1, f2}
    NoFile = NoFile
    Lines <- MCLines
    MaxLines <- MCFirstOnce
    Backlog = 2
    SigPipeFatal = TRUE
    Modules <- MCModules
    UpdateModules <- MCUpdateModules
    ModList <- MCModList
    Reports = {}
    Watched = {}
    MaxTx = 0
    Ramp = 1
    MaxPower = 2
    AlarmList <- MCNoAlarms
    Muteable = {}
    Latching = {}
    Motors <- MCMotors
    mult <- MCMult
    MaxRx = 4
PROPERTY MotorsStopWithoutUsers
CHECK_DEADLOCK FALSE
