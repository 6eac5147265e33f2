SPECIFICATION Spec
CONSTANTS
    None = None
    g1 = g1
    r1 = r1
    r2 = r2
    read = read
    restart = restart
    python = python
    Grants = {g1}
    Grant = g1
    Requests = {r1, r2}
    Commands = {read, restart, python}
    Risky = {restart, python}
    Barred = {}
    Permitted <- MCPermitted
    Scope = {read, restart, python}
    Outcomes = {"succeeded", "expired"}
    MaxCommands = 2
    MaximumFailedAuth = 2
    SessionTTL = 1
    Bodies <- MCBodies
    PageSize = 4
    Earlier = 0
    MaxComments = 2
    MaxDisturbances = 1
    MaxFaults = 1
CHECK_DEADLOCK FALSE
INVARIANT CloseDisables
