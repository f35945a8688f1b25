SPECIFICATION Spec
CONSTANTS
    Addr <- MCAddr
    Val <- MCVal
    Rejected <- MCRejected
    Configs <- MCConfigs
    Damageable = {}
    Ops = {"SetParam"}
    Tries = 2
    DumpSends = 1
    MaxCalls = 2
    MaxFaults = 0
    MaxResets = 0
    Prompt = FALSE
INVARIANTS SetParamHolds
CHECK_DEADLOCK FALSE
