\* One gRPC and one SSE stream, a channel of two events, four events.
SPECIFICATION FairSpec
CONSTANTS
    grpc = grpc
    sse = sse
    Streams <- MCStreams
    SseStreams <- MCSseStreams
    Texts <- MCTexts
    Blank = ""
    AllTopics <- MCAllTopics
    AllPatterns <- MCAllPatterns
    StartsWith <- MCStartsWith
    Topics <- MCTopics
    PatternSets <- MCPatternSets
    Capacity = 2
    MaxEvents = 4
INVARIANTS
    MatchesAsDocumented
    StreamsAreFaithful
PROPERTIES
    OnlyOvertakenEventsAreMissing
    StreamsCatchUp
