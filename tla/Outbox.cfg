\* Two publishers; two of three messages, of two ids, are published; one fault.
SPECIFICATION FairSpec
CONSTANTS
    p1 = p1
    p2 = p2
    Publishers <- MCTwoPublishers
    Messages <- MCMessages
    Id <- MCId
    NoOne = NoOne
    MaxRetries = 1
    EnableDlq = FALSE
    BatchSize = 2
    MaxPublished = 2
    MaxFaults = 1
INVARIANTS
    IInv
    RetryBudget
    ClaimsDisjoint
PROPERTIES
    GivenStaysGiven
    CancelledIsLetGo
    KeepsPromise
    EverythingSettles
\* Once every message is settled there is nothing left to do.
CHECK_DEADLOCK FALSE
