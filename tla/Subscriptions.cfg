\* Two subscribers, two concurrent updates, one fault.
SPECIFICATION Spec
CONSTANTS
    s1 = s1
    s2 = s2
    e1 = e1
    e2 = e2
    P1 = P1
    P2 = P2
    u1 = u1
    u2 = u2
    None = None
    Subscribers <- MCSubscribers
    Endpoints <- MCEndpoints
    PatternSets <- MCPatternSets
    Updates <- MCUpdates
    Requests <- MCRequests
    MaxFaults = 1
SYMMETRY Symmetry
INVARIANT SubscriptionInv
PROPERTIES
    OnlyOverlapsUndo
    OnlyUpdatesRevive
