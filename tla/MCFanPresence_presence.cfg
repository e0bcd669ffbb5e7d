SPECIFICATION Spec
CONSTANTS
    f1 = f1
    f2 = f2
    t1 = t1
    t2 = t2
    g1 = g1
    t3 = t3
    r3 = r3
    r1 = r1
    r2 = r2
    Fan = {f1, f2}
    Tach = {t1, t2, t3}
    Gpio = {g1}
    Rotor = {r1, r2, r3}
    TachOf <- MCTachOf
    Methods <- MCMethods
    Before <- MCBefore
    MaxInbox = 2
    MaxEdges = 1
    AnyOf = {f1}
    Eeprom = {f1}
    ErrorFan = {f1}
INVARIANTS
    InventoryFollows
    ConflictsFollow
    BindOnlyPresent
    MissingTimed
