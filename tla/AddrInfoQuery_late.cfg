CONSTANT Cancellers = {c1}
SPECIFICATION FairSpec
PROPERTY HandleLeftAlone
CHECK_DEADLOCK FALSE
