SPECIFICATION Spec
CONSTANTS
    None = None
    read = read
    restart = restart
    shell = shell
    wipe = wipe
    inspect = inspect
    service = service
    code = code
    destroy = destroy
    ScopeKeys = {inspect, service, code, destroy}
    ShellScopes = {code}
    Risk <- MCRisk
    Commands = {read}
    Requests = {r1}
    Operators = {o1, o2}
    MaxGrants = 1
    MaxApprovals = 0
    MaxJobs = 1
    MaxEpoch = 2
    EpochBound = 3
    MaxFaults = 1
SYMMETRY OperatorSymmetry
INVARIANT TypeOK
INVARIANT RestartLosesOnlyKillSwitch
INVARIANT EnabledWasRequested
PROPERTY ConfirmedRevocationStopsStarts
