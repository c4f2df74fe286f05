SPECIFICATION SystemSpec
CONSTANTS
    Conns <- MCTwo
    Fds = {f1, f2}
    NoFile = NoFile
    Lines <- MCLines
    MaxLines <- MCFirstOnce
    Backlog = 2
    SigPipeFatal = FALSE
    Modules <- MCModules
    UpdateModules <- MCUpdateModules
    ModList <- MCModList
    Reports = {}
    Watched <- MCSecond
    MaxTx = 0
    Ramp = 1
    MaxPower = 2
    AlarmList <- MCNoAlarms
    Muteable = {}
    Latching = {}
    Motors <- MCMotors
    mult <- MCMult
    MaxRx = 4
INVARIANT TelemetryCurrent
PROPERTY MotorsStopWithoutUsers
PROPERTY PowerOnlyForUsers
