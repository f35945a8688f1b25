SPECIFICATION CliFairSpec
CONSTANTS
    Addr <- MCAddr
    Val <- MCVal
    Rejected <- MCRejected
    Configs <- MCConfigs
    Damageable = {"WriteAllVal"}
    Ops = {"WriteAll", "SetParam", "ReadParam", "CheckCrc", "Burn", "Version", "Bootloader"}
    Tries = 2
    DumpSends = 1
    MaxCalls = 0
    MaxCommands = 2
    MaxFaults = 1
    MaxResets = 1
    Prompt = FALSE
INVARIANTS ApplyMeansHeld ApplyBurnMeansPersisted SetMeansHeld
PROPERTIES ApplyFlashesOnlyItsList CommandsExit RefinesConfigStore
CHECK_DEADLOCK FALSE
