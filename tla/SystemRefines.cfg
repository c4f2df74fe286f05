SPECIFICATION SystemSpec
CONSTANTS
    Conns <- MCOne
    Fds = {f1, f2}
    NoFile = NoFile
    Lines <- MCTwoSpeeds
    MaxLines <- MCTwice
    Backlog = 2
    SigPipeFatal = FALSE
    Modules <- MCModules
    UpdateModules <- MCUpdateModules
    ModList <- MCModList
    Reports = {}
    Watched = {}
    MaxTx = 0
    Ramp = 1
    MaxPower = 2
    AlarmList <- MCOneAlarm
    Muteable = {}
    Latching <- MCLatching
    Motors <- MCMotors
    mult <- MCMult
    MaxRx = 4
PROPERTIES ImplementsNavigation SoleUserObeyed
