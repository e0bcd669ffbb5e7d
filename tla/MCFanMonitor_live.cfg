SPECIFICATION FairSpec
CONSTANTS
    f1 = f1
    f2 = f2
    s1 = s1
    s2 = s2
    v1 = v1
    v2 = v2
    Fan = {f1, f2}
    Sensor = {s1, s2}
    Service = {v1}
    FanOf <- TwoFanOf
    ServiceOf <- OneServiceOf
    TargetFrom <- OwnTarget
    CountFan = {f2}
    Threshold <- Threshold2
    NumSensorFails <- AllFansNeed1
    SetFuncOnPresent = {f1}
    FanMissingError = {}
    SensorError = {}
    NumNonfuncBeforeError = 2
    TrustGroup = {}
    InTrust = {}
    MaxPending = 2
PROPERTIES
    FaultFound
    FaultCleared
