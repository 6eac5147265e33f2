SPECIFICATION Spec
CONSTANTS
    None = None
    t1 = t1
    t2 = t2
    read = read
    restart = restart
    shell = shell
    wipe = wipe
    inspect = inspect
    service = service
    code = code
    destroy = destroy
    ScopeKeys = {inspect, service, code, destroy}
    ShellScopes = {code}
    Risk <- MCRisk
    Requests = {r1}
    Targets = {t1}
    Commands = {read}
    Workers = {w1}
    GrantScopes <- MixedScopes
    GrantTTL = 2
    ClaimTTL = 1
    JobTTLs = {1, 3}
    MaxGrants = 2
    MaxClaims = 1
    MaxApprovals = 1
    MaxJobs = 1
    MaxTime = 3
    MaxEpoch = 9
    EpochBound = 1
INVARIANT RevokedStayDead
INVARIANT JobWithinGrant
INVARIANT ClaimYieldsOneGrant
PROPERTY RevokedNeverStart
