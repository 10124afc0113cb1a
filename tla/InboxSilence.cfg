\* A bad payload skips the flush.
SPECIFICATION Spec
CONSTANTS
    LogSize = 3
    Bad <- BadAtOne
    ChannelCap = 2
    MaxInboxBatch = 2
    AutoCommit <- OnlyOff
    OffsetReset <- OnlyLatest
    MaxFaults = 0
INVARIANT NothingWaitsInSilence
\* The log is finite: once it is stored nothing is left to do.
CHECK_DEADLOCK FALSE
