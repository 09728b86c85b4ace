SPECIFICATION Spec
CONSTANTS
    None = None
    ann = ann
    bob = bob
    mitigator = mitigator
    inc1 = inc1
    inc2 = inc2
    MaxLength <- Bits
    Floor <- Widest
    MinDuration = 1
    MinApprovalWindow = 1
    MaxApprovalWindow = 2
    MaxDuration = 2
    MaxRate = 1
    N = 2
    Asks <- SameMatch
    Actors <- OnePerson
    RoleOf <- Roles
    TenantOf <- Acme
    Mitigator = mitigator
    Sessions = {s1}
    Workers = {w1}
    ApiConfigs <- LiveOnly
    Configs <- LiveOnly
    IdemKeys = {None}
    Incidents = {}
    MaxSwitch = 1
    BATCH = 500
    CandidateOf <- Suggests
    ProposalsEnabled = FALSE
    LockMayDrop = FALSE
    LateAdds = FALSE
    MaxFaults = 0
INVARIANTS
    ActiveHasItsRoute
