SPECIFICATION Spec
CONSTANTS
    None = None
    read = read
    restart = restart
    shell = shell
    wipe = wipe
    inspect = inspect
    service = service
    code = code
    destroy = destroy
    ScopeKeys = {inspect, service, code, destroy}
    ShellScopes = {code}
    Risk <- MCRisk
    Commands = {shell, wipe}
    Requests = {r1, r2}
    Operators = {o1}
    MaxGrants = 1
    MaxApprovals = 1
    MaxJobs = 2
    MaxEpoch = 9
    EpochBound = 1
    MaxFaults = 2
INVARIANT AllowOnceAuthorizesOne
INVARIANT FilesConsistent
INVARIANT UnauditedNeverRuns
