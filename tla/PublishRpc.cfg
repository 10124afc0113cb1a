\* Three concurrent or repeated RPCs, two cancels, one fault.
SPECIFICATION Spec
CONSTANTS
    c1 = c1
    c2 = c2
    c3 = c3
    x1 = x1
    x2 = x2
    a = a
    b = b
    g1 = g1
    g2 = g2
    None = None
    BadId = BadId
    Calls <- MCCalls
    Cancels <- MCCancels
    Named <- MCNamed
    Generated <- MCGenerated
    Inputs <- MCInputs
    MaxFaults = 1
SYMMETRY CallSymmetry
INVARIANTS
    PublishInv
    AnswersAreTrue
\* Every RPC ends.
CHECK_DEADLOCK FALSE
