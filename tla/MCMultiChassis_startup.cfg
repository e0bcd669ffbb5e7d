CHECK_DEADLOCK FALSE
SPECIFICATION Spec
CONSTANTS
    c0 = c0
    c1 = c1
    z0 = z0
    z1 = z1
    f0 = f0
    f1 = f1
    missing = missing
    epow = epow
    Chassis = {c0, c1}
    Zone = {z0, z1}
    Fan = {f0, f1}
    Rotor = {f0, f1}
    ChassisOf <- McChassisOf
    ZoneOf <- McZoneOf
    Main = c0
    UsesAvailable = {c1}
    Rule = {missing, epow}
    Type <- McType
    Cause <- McCause
    Count <- McCount
    ValidState <- McState
    RuleZone <- McRuleZone
    BeforeError = 1
    MaxChanges = 4
PROPERTIES
    StartsForMissingFans
