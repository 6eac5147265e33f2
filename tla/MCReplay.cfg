SPECIFICATION Spec
CONSTANTS
    None = None
    t1 = t1
    t2 = t2
    plain = plain
    powerful = powerful
    MaxJobs = 2
    Workers = {w1}
    Sessions = {s1, s2}
    Targets = {t1, t2}
    Grants = {plain, powerful}
    GrantOf <- MCGrantOf
    TargetOf <- MCTargetOf
    Expires <- MCExpires
    GrantExpires <- MCGrantExpires
    ShellJobs = {1, 2}
    ShellGrants = {powerful}
    CertTTL = 2
    Backdate = 1
    MaxTime = 1
    MaxEpoch = 1
INVARIANT TypeOK
INVARIANT AtMostOnce
INVARIANT RunsAsAuthorized
INVARIANT SuccessIsReal
SYMMETRY SessionSymmetry
