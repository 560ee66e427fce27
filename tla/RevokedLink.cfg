SPECIFICATION FairRelaySpec
CONSTANTS
    Links = {l1, l2}
PROPERTIES
    RevokedEnds
CHECK_DEADLOCK FALSE
