SPECIFICATION FairSpec
PROPERTY DisplayWakes
CHECK_DEADLOCK FALSE
