\* Five messages, one of them not JSON, with and without automatic commits,
\* starting at either end, fair scheduling, two faults.
SPECIFICATION FairSpec
CONSTANTS
    LogSize = 5
    Bad <- BadAtOne
    ChannelCap = 2
    MaxInboxBatch = 3
    AutoCommit <- OnAndOff
    OffsetReset <- LatestAndEarliest
    MaxFaults = 2
INVARIANTS
    IInv
    PolledIsAccountedFor
    RowsAreTrue
PROPERTIES
    SilenceOnlyAfterBad
    EverythingIsStored
    KeepsPromise
\* The log is finite: once it is stored nothing is left to do.
CHECK_DEADLOCK FALSE
