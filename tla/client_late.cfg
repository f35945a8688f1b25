SPECIFICATION Spec
CONSTANTS
    Addr <- MCAddr
    Val <- MCVal
    Rejected <- MCRejected
    Configs <- MCConfigs
    Damageable = {"ReadAllRsp"}
    Ops = {"WriteAll", "ReadAll", "Burn", "Version"}
    Tries = 2
    DumpSends = 2
    MaxCalls = 3
    MaxFaults = 1
    MaxResets = 1
    Prompt = FALSE
INVARIANTS OneFlashPerBurn
CHECK_DEADLOCK FALSE
