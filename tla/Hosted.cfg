SPECIFICATION HostedSpec
CONSTANTS
    s1 = s1
    s2 = s2
    c1 = c1
    c2 = c2
    a1 = a1
    narration = narration
    utility = utility
    NoAccount = NoAccount
    Stories = {s1, s2}
    Accounts = {a1}
    Conns = {c1, c2}
    StoryOf <- MCStoryOf
    Lanes = {narration, utility}
    NARRATION = narration
    InitialLimit <- MCInitialLimit
    DEFAULT_LANE_LIMIT = 1
    Sizes <- MCSizes
    MAX_RECLAIMED = 1
    MaxTickets = 3
    r1 = r1
    r2 = r2
    q1 = q1
    q2 = q2
    saver = saver
    keeper = keeper
    Runs = {r1, r2}
    Requests = {q1, q2}
    Saver = saver
    Keeper = keeper
    NoSave = NoSave
    MaxBuilds = 2
    MaxPlays = 1
SYMMETRY MCSymmetry
INVARIANTS
    Capacity
    OneTurnPerAccount
    WorkConserving
    ArrivalOrder
    ClosedLeaveNothing
    OneLivePerAccount
    PurgeIsFinal
    EndingHasATurn
    DirtyIsScheduled
PROPERTIES
    NoSilentDrop
    DrainIsFinal
    SavesOnlyGrow
CHECK_DEADLOCK FALSE
