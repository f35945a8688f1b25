SPECIFICATION FairSpec
CONSTANTS
    Addr <- MCAddr
    Val <- MCVal
    Rejected <- MCRejected
    Configs <- MCConfigs
    Damageable = {"Write", "WriteAllVal", "ReadAllRsp"}
    Ops = {"WriteAll", "SetParam", "ReadParam", "ReadAll", "CheckCrc", "Burn"}
    Tries = 3
    DumpSends = 3
    MaxCalls = 3
    MaxFaults = 3
    MaxResets = 0
    Prompt = TRUE
INVARIANTS TypeOK DumpIsWhole
PROPERTIES CallsReturn RefinesConfigStore
CHECK_DEADLOCK FALSE
