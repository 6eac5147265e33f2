SPECIFICATION FairSpec
CONSTANTS
    None = None
    g1 = g1
    g2 = g2
    p1 = p1
    p2 = p2
    k1 = k1
    k2 = k2
    read = read
    restart = restart
    python = python
    Grants = {g1, g2}
    First = g1
    MaxOps = 2
    MaxRequests = 2
    Procs = {p1, p2}
    Calls = {k1, k2}
    MaxSteps = 2
    Requests <- MCRequests
    Commands = {read, restart, python}
    Risky = {restart, python}
    Barred = {}
    Permitted <- MCPermitted
    Carriers = {python}
    Shell = {g1}
    Outcomes = {"succeeded", "canceled"}
    Plans <- MCPlans
    MaxFaults = 1
    MaxCalls = 2
    MaxDisturbances = 1
CHECK_DEADLOCK FALSE
INVARIANT RecoverableOperations
INVARIANT SequentialOrder
INVARIANT ReportsStayTrue
INVARIANT RefusedForCause
PROPERTY CallsReturn
