SPECIFICATION LateCheckSpec
CONSTANTS
    w1 = w1
    door = door
    Workers = {w1}
    FrontDoor = door
    Children = {w1}
    MaxRestarts = 1
    HealthFailures = 1
    CheckIds = {1}
    ReapIds = {1}
    MaxStarts = 2
INVARIANTS
    ReadyAfterReady
CHECK_DEADLOCK FALSE
