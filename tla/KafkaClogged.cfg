\* One publisher whose producer has room for one record, and two messages.
SPECIFICATION KafkaFairSpec
CONSTANTS
    Publishers = {p1}
    Messages <- MCMessages
    Id <- MCId
    NoOne = NoOne
    MaxRetries = 1
    EnableDlq = TRUE
    BatchSize = 2
    MaxPublished = 2
    MaxFaults = 0
    QueueCap = 1
    MaxLosses = 0
PROPERTY BackpressureEnds
CHECK_DEADLOCK FALSE
