SPECIFICATION FairSpec
INVARIANTS TypeOK LowClockQuiesced ParkedDisplayDark PowerInv
PROPERTIES NoLostWakeup EnteringSettles ShutdownCompletes
CHECK_DEADLOCK FALSE
