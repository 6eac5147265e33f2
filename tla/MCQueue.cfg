SPECIFICATION FairSpec
CONSTANTS
    None = None
    t1 = t1
    t2 = t2
    read = read
    restart = restart
    shell = shell
    wipe = wipe
    inspect = inspect
    service = service
    code = code
    destroy = destroy
    ScopeKeys = {inspect, service, code, destroy}
    ShellScopes = {code}
    Risk <- MCRisk
    Requests = {r1, r2}
    Targets = {t1}
    Commands = {read}
    Workers = {w1, w2}
    GrantScopes <- OneScope
    GrantTTL = 2
    ClaimTTL = 1
    JobTTLs = {1, 3}
    MaxGrants = 1
    MaxClaims = 0
    MaxApprovals = 0
    MaxJobs = 2
    MaxTime = 2
    MaxEpoch = 9
    EpochBound = 0
PROPERTY PublishedWorkEnds
INVARIANT AuditMatchesJobs
PROPERTY JobsFollowLifecycle
