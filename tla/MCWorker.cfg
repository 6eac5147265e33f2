SPECIFICATION FairSpec
CONSTANTS
    None = None
    t1 = t1
    t2 = t2
    plain = plain
    powerful = powerful
    MaxJobs = 1
    Workers = {w1, w2}
    Sessions = {s1, s2}
    Targets = {t1}
    Grants = {plain, powerful}
    GrantOf <- MCGrantOf
    TargetOf <- MCTargetOf
    Expires <- MCExpires
    GrantExpires <- MCGrantExpires
    ShellJobs = {}
    ShellGrants = {powerful}
    CertTTL = 1
    Backdate = 0
    MaxTime = 2
    MaxEpoch = 1
PROPERTY RowsFollowLifecycle
INVARIANT RevokedBeforeCheckNeverConnects
PROPERTY AuthorityLossStops
