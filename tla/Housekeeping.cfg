SPECIFICATION HousekeepingSpec
CONSTANTS
    Modules <- MCModules
    UpdateModules <- MCUpdateModules
    Lines = {}
    Reports = {}
    MaxTx = 0
    AlarmList <- MCAlarmList
    Muteable = {}
    Latching <- MCLatching
    TempAlarm = "Pwm_Temp"
    Tolerance = 10
    Chanels <- MCChanels
    Voltages <- MCVoltages
    Temperatures <- MCTemperatures
INVARIANTS HousekeepingTypeOK PowerTelemetry LightTelemetry GroupIsHighest
PROPERTIES LatchedNeverFalls TrippedStaysDark LightsFollow
