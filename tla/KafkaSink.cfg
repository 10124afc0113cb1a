\* One publisher with a queue for two records, two messages, one fault and one loss.
SPECIFICATION KafkaFairSpec
CONSTANTS
    Publishers = {p1}
    Messages <- MCMessages
    Id <- MCId
    NoOne = NoOne
    MaxRetries = 1
    EnableDlq = TRUE
    BatchSize = 2
    MaxPublished = 2
    MaxFaults = 1
    QueueCap = 2
    MaxLosses = 1
INVARIANT TakenIsAccountedFor
PROPERTIES
    IsAnOutbox
    SettlesUnlessClogged
    PublishedArrives
\* Once every message is settled there is nothing left to do.
CHECK_DEADLOCK FALSE
