SPECIFICATION Spec
CONSTANTS
    f1 = f1
    f2 = f2
    s1 = s1
    s2 = s2
    v1 = v1
    v2 = v2
    Fan = {f1}
    Sensor = {s1, s2}
    Service = {v1}
    FanOf <- OneFanOf
    ServiceOf <- OneServiceOf
    TargetFrom <- SharedTarget
    CountFan = {f1}
    Threshold <- Threshold2
    NumSensorFails <- AllFansNeed1
    SetFuncOnPresent = {f1}
    FanMissingError = {f1}
    SensorError = {s1, s2}
    NumNonfuncBeforeError = 2
    TrustGroup = {}
    InTrust = {}
    MaxPending = 1
INVARIANTS
    TypeOK
    HealthMatches
    ErrorOnlyForFault
PROPERTIES
    LatchedWhilePowered
    MissingFanTimed
