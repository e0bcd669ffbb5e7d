SPECIFICATION Spec
CONSTANTS
    inv = inv
    sens = sens
    slot = slot
    card = card
    temp1 = temp1
    temp2 = temp2
    powered = powered
    device = device
    vendor = vendor
    t1 = t1
    t2 = t2
    floors = floors
    pcie = pcie
    hold = hold
    count = count
    offset = offset
    retry = retry
    z1 = z1
    index = index
    altitude = altitude
    Service = {inv, sens}
    Iface = {slot, card, temp1, temp2}
    Object = {powered, device, vendor, t1, t2}
    Event = {floors, pcie, hold, count, offset, retry}
    Zone = {z1}
    Param = {index, altitude}
    Value = {1, 2}
    NoValue = NoValue
    NoFloor = NoFloor
    NoParam = NoParam
    FirstZone = z1
    Managed = {sens}
    MaxDisturbances = 3
    Preloads = {retry}
    ServiceOf <- McServiceOf
    NameOf <- McNameOf
    IfaceOf <- McIfaceOf
    Group <- McGroup
    Action <- McAction
    Triggers <- McTriggers
    ParamsOf <- McParamsOf
    Configs <- McConfigs
INVARIANTS
    CacheInv
    MissingServicesHeld
    CountHeld
    FloorsFollow
CHECK_DEADLOCK FALSE
