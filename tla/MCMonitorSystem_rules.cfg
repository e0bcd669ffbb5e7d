SPECIFICATION SystemSpec
CONSTANTS
    f1 = f1
    f2 = f2
    s1 = s1
    s2 = s2
    v1 = v1
    v2 = v2
    r1 = r1
    r2 = r2
    r3 = r3
    Fan = {f1}
    Sensor = {s1, s2}
    Rotor = {s1, s2}
    Service = {v1}
    FanOf <- OneFanOf
    ServiceOf <- OneServiceOf
    TargetFrom <- OwnTarget
    CountFan = {}
    Threshold <- Threshold1
    NumSensorFails <- AllFansNeed2
    SetFuncOnPresent = {}
    FanMissingError = {}
    SensorError = {}
    NumNonfuncBeforeError = 2
    TrustGroup = {}
    InTrust = {}
    MaxPending = 2
    Rule = {r1, r2, r3}
    Type <- RuleType
    Cause <- RuleCause
    Count <- RuleCount
    ValidState <- RuleState
INVARIANTS
    QuietWithoutPower
    OnePowerOffPerRule
    MissingFansActedOn
    FanFollowsSensors
