SPECIFICATION PartsSpec
CONSTANTS
    Workers = {w1, w2}
    NoWorker = NoWorker
    MaxRestarts = 1
    MaxCrashes = 1
    Ids = {i1, i2}
    Threads = {t1, t2}
    Nobody = Nobody
    Room = 1
    Limit = 2
    MaxTime = 3
    Requests = {r1, r2, r3, r4, r5}
    Accounts = {b1, b2}
    Conns = {e1}
    NoConn = NoConn
    HoldLimit = 4
    PerAccount = 2
    TurnLimit = 2
    TurnsPerAccount = 1
    Keys = {1, 2}
    Owners = {1, 2}
    OwnerOf <- MCOwnerOf
    PriorityOf <- MCPriorityOf
    Cap = 2
    Retries = 1
    MaxEpoch = 2
    Turns = {u1, u2}
    Singles = {x1, x2}
    Callers = {k1, k2}
    NoCaller = NoCaller
    Slots = 2
    Presses = {press1, press2}
    NoPress = NoPress
    Voice = Voice
    Tools = {tool1}
    ChoiceIds = {1, 2}
    Frames = {0, 1, 2, 3, 4}
    On <- MCOn
    NoFrame = NoFrame
    MaxPhone = 1
    MaxRetries = 1
    MaxPromises = 2
INVARIANTS
    SavesWhole
    PlacesKept
    NewestServed
    ApplyIsWhole
    ToldIsKept
    PromisesStand
    PlansStand
PROPERTIES
    LaneServes
CHECK_DEADLOCK FALSE
