\* Two processes that may overlap, two calls at once, one fault.
SPECIFICATION Spec
CONSTANTS
    p1 = p1
    p2 = p2
    c1 = c1
    c2 = c2
    None = None
    Processes <- MCProcesses
    Calls <- MCCalls
    Launches <- MCLaunches
    MaxFaults = 1
INVARIANTS
    IInv
    WorksWhileItServes
    SettingsAsDocumented
PROPERTY NothingElseHoldsMain
\* Every process ends.
CHECK_DEADLOCK FALSE
