SPECIFICATION Spec
CONSTANTS
    None = None
    read = read
    restart = restart
    shell = shell
    wipe = wipe
    inspect = inspect
    service = service
    code = code
    destroy = destroy
    ScopeKeys = {inspect, service, code, destroy}
    ShellScopes = {code}
    Risk <- MCRisk
    Commands = {shell}
    Requests = {r1}
    Operators = {o1}
    MaxGrants = 1
    MaxApprovals = 1
    MaxJobs = 1
    MaxEpoch = 9
    EpochBound = 0
    MaxFaults = 1
PROPERTY RetryRecovers
