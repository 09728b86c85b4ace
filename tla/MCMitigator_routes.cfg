SPECIFICATION Spec
CONSTANTS
    None = None
    ann = ann
    bob = bob
    mitigator = mitigator
    inc1 = inc1
    inc2 = inc2
    MaxLength <- Bits
    Floor <- Widest
    MinDuration = 1
    MinApprovalWindow = 1
    MaxApprovalWindow = 2
    MaxDuration = 2
    MaxRate = 1
    N = 2
    Asks <- AskOutside
    Actors <- OnePerson
    RoleOf <- Roles
    TenantOf <- Acme
    Mitigator = mitigator
    Sessions = {s1}
    Workers = {w1}
    ApiConfigs <- LiveOnly
    Configs <- LiveOrDry
    IdemKeys = {None}
    Incidents = {inc1, inc2}
    MaxSwitch = 2
    BATCH = 500
    CandidateOf <- Suggests
    ProposalsEnabled = TRUE
    LockMayDrop = FALSE
    LateAdds = FALSE
    MaxFaults = 1
INVARIANTS
    RouteHasCause
    ActiveHasItsRoute
    OneLivePerKey
PROPERTIES
    MSpec
