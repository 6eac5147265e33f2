SPECIFICATION Spec
CONSTANTS
    None = None
    t1 = t1
    t2 = t2
    read = read
    restart = restart
    shell = shell
    wipe = wipe
    inspect = inspect
    service = service
    code = code
    destroy = destroy
    ScopeKeys = {inspect, service, code, destroy}
    ShellScopes = {code}
    Risk <- MCRisk
    Requests = {r1, r2}
    Targets = {t1}
    Commands = {restart, shell, wipe}
    Workers = {w1}
    GrantScopes <- OneScope
    GrantTTL = 1
    ClaimTTL = 1
    JobTTLs = {1}
    MaxGrants = 1
    MaxClaims = 0
    MaxApprovals = 2
    MaxJobs = 2
    MaxTime = 1
    MaxEpoch = 0
    EpochBound = 0
INVARIANT AllowOnceSpentOnce
INVARIANT OneJobPerRequest
INVARIANT ApprovalBinding
INVARIANT TypeOK
INVARIANT PublishedIsAuthorized
