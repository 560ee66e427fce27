SPECIFICATION Spec
CONSTANTS
    s1 = s1
    s2 = s2
    c1 = c1
    c2 = c2
    a1 = a1
    narration = narration
    utility = utility
    NoAccount = NoAccount
    NoTurn = NoTurn
    Stories = {s1, s2}
    Accounts = {a1}
    Conns = {c1, c2}
    StoryOf <- MCStoryOf
    Lanes = {narration, utility}
    NARRATION = narration
    InitialLimit <- MCInitialLimit
    DEFAULT_LANE_LIMIT = 1
    Sizes = {1}
    MAX_RECLAIMED = 3
    MaxTickets = 3
    Calls = {1, 2, 3}
    WorkerOf <- MCWorkerOf
    LaneOf <- MCLaneOf
    AccountOf <- MCTwoAccounts
    TurnOf <- MCTurnOf
INVARIANTS
    NoOrphanTicket
    OneAnswerEach
    ReclaimsAgree
PROPERTIES
    QueueImplemented
CHECK_DEADLOCK FALSE
