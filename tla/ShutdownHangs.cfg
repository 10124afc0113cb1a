\* One process and one call: an open connection holds the shutdown.
SPECIFICATION Spec
CONSTANTS
    p1 = p1
    p2 = p2
    c1 = c1
    c2 = c2
    None = None
    Processes = {p1}
    Calls = {c1}
    Launches <- MCDefaultLaunch
    MaxFaults = 0
PROPERTY ShutdownIsBounded
CHECK_DEADLOCK FALSE
