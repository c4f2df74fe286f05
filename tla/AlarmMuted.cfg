SPECIFICATION AlarmSpec
CONSTANTS
    AlarmList <- MCAlarmList
    Muteable <- MCMuteable
    Latching <- MCLatching
INVARIANT MutedReturnsClear
