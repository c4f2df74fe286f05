SPECIFICATION NavSpec
CONSTANTS
    Ramp = 1
    MaxPower = 3
    AlarmList <- MCAlarmList
    Muteable = {}
    Latching <- MCLatching
    Modules <- MCModules
    UpdateModules <- MCUpdateModules
    Motors <- MCMotors
    mult <- MCMult
    Commands <- MCCommands
    MaxRx = 2
    MaxTx = 1
INVARIANTS NavTypeOK DisabledMeansStopped
PROPERTIES RampLimited Settles
