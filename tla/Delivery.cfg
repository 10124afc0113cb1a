\* Two subscribers, one call at a time, fair scheduling.
SPECIFICATION FairSpec
CONSTANTS
    Subs = {s1, s2}
    FailureThreshold = 3
    SuccessThreshold = 2
    FanOut = 1
INVARIANT NoAnswerWhileOpen
PROPERTIES
    OpensAfterFailuresInARow
    ClosesAfterProbesInARow
    FanOutEnds
    OpenIsProbed
    CacheFollowsTable
