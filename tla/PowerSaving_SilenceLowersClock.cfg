SPECIFICATION FairSpec
PROPERTY SilenceLowersClock
CHECK_DEADLOCK FALSE
