SPECIFICATION PromptSpec
CONSTANTS
    Presses = {p1, p2}
    NoPress = NoPress
    Voice = Voice
    Tools = {t1}
    ChoiceIds = {1, 2}
    Frames = {0, 1, 2, 3, 4}
    On <- MCOn
    NoFrame = NoFrame
    MaxPhone = 0
    MaxRetries = 1
INVARIANT ChosenIsOffered
CHECK_DEADLOCK FALSE
