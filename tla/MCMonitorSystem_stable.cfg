SPECIFICATION SystemSpec

CONSTANTS
    f1 = f1
    f2 = f2
    s1 = s1
    s2 = s2
    v1 = v1
    v2 = v2
    r1 = r1
    r2 = r2
    r3 = r3
    Fan = {f1, f2}
    Sensor = {s1, s2}
    Rotor = {s1, s2}
    Service = {v1}
    FanOf <- TwoFanOf
    ServiceOf <- OneServiceOf
    TargetFrom <- OwnTarget
    CountFan = {}
    Threshold <- Threshold1
    NumSensorFails <- AllFansNeed1
    SetFuncOnPresent = {}
    FanMissingError = {}
    SensorError = {}
    NumNonfuncBeforeError = 1
    TrustGroup = {s1, s2}
    InTrust = {s1}
    MaxPending = 0
    Rule = {r1, r2}
    Type <- TwoRuleType
    Cause <- TwoRuleCause
    Count <- TwoRuleCount
    ValidState <- TwoRuleState

INVARIANTS
    ArmedWhileSatisfied
    TrustDecides
