\* Two overlapping calls, pages of two, two faults, fair scheduling.
SPECIFICATION FairSpec
CONSTANTS
    t1 = t1
    t2 = t2
    Entries = {1, 2, 3}
    Topics = {t1, t2}
    TopicOf <- MCTopicOf
    Callers = {c1, c2}
    NoEntry = NoEntry
    Limit = 2
    MaxFaults = 2
INVARIANTS
    CopiesBounded
    CountsAddUp
    IInv
PROPERTY EveryEntryIsReprocessed
\* Once every entry is reprocessed nothing is left to do.
CHECK_DEADLOCK FALSE
