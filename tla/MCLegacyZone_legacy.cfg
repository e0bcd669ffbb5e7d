SPECIFICATION Spec
CONSTANTS
    self = self
    inv = inv
    sens = sens
    mode = mode
    occ = occ
    fan = fan
    t1 = t1
    t2 = t2
    t3 = t3
    missing = missing
    active = active
    sampling = sampling
    bounds = bounds
    owner = owner
    warm = warm
    cold = cold
    modes = modes
    late = late
    delayed = delayed
    Member = {mode, occ, fan, t1, t2, t3}
    Service = {self, inv, sens}
    Event = {missing, active, sampling, bounds, owner, warm, cold, modes, late, delayed}
    Value = {0, 1, 2, 3}
    NoValue = NoValue
    FullSpeed = 10
    DefaultFloor = 5
    Mode = mode
    Supported = {1, 2}
    DefaultMode = 1
    MaxChanges = 3
    ServiceOf <- McServiceOf
    InterfaceOf <- McInterfaceOf
    Def <- McDef
    Configs <- McConfigs
    Buses <- McBuses
INVARIANTS
    FullWhenUnmatched
    EventsFollowState
    LimitsFollow
PROPERTIES
    ModePersists
CHECK_DEADLOCK FALSE
