SPECIFICATION PlansSpec
PROPERTY NeverStoodUpHere
CHECK_DEADLOCK FALSE
