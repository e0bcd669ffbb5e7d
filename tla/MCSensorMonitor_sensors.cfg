SPECIFICATION FairSensorSpec
CONSTANTS
    a1 = a1
    a2 = a2
    i1 = i1
    i2 = i2
    Iface = {i1, i2}
    Alarm = {a1, a2}
    IfaceOf <- MCIfaceOf
    MaxInbox = 2
    ShutdownAlarm = {a1}
    Delay <- MCDelay
    MinAge = 1
    ThresholdAlarm = {a2}
    NotLogged = {}
    SkipPowerChecking = FALSE
INVARIANTS
    StampedWhileRunning
    DelayNotProlonged
    NoTimerWithoutPower
    LoggerInv
PROPERTIES
    ClearAfterSet
    DelayKept
    ShutdownFollows
