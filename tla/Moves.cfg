SPECIFICATION MovesSpec
CONSTANTS
    s1 = s1
    s2 = s2
    c1 = c1
    c2 = c2
    a1 = a1
    narration = narration
    utility = utility
    NoTurn = NoTurn
    door = door
    m1 = m1
    alice = alice
    v1 = v1
    p1 = p1
    Links = {l1}
PROPERTIES
    QueueMoves
    CallsMove
    SupervisorMoves
    WorldTurnWaitEnds
    RevokedEnds
CHECK_DEADLOCK FALSE
