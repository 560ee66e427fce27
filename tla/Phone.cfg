SPECIFICATION PromptPhone
CONSTANTS
    m1 = m1
    m2 = m2
    w1 = w1
    w2 = w2
    q1 = q1
    alice = alice
    bob = bob
    Messages = {m1, m2}
    PersonOf <- MCPersonOf
    Faulty = {}
    Workers = {w1, w2}
    Players = {q1}
    Passes = {1, 2, 3}
    MaxPerPass = 2
    MaxAttempts = 2
SYMMETRY MCSymmetry
INVARIANTS
    OneReplyEach
    OneNarration
    
PROPERTIES
    NothingAfterLeaving
CHECK_DEADLOCK FALSE
