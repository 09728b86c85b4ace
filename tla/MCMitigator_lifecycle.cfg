SPECIFICATION Spec
CONSTANTS
    None = None
    ann = ann
    bob = bob
    mitigator = mitigator
    inc1 = inc1
    inc2 = inc2
    MaxLength <- Bits
    Floor <- Widest
    MinDuration = 1
    MinApprovalWindow = 1
    MaxApprovalWindow = 2
    MaxDuration = 2
    MaxRate = 1
    N = 1
    Asks <- TwoAllowed
    Actors <- TwoPeople
    RoleOf <- TwoRoles
    TenantOf <- BothAcme
    Mitigator = mitigator
    Sessions = {s1, s2}
    Workers = {w1, w2}
    ApiConfigs <- FourEyedOnly
    Configs <- FourEyedOnly
    IdemKeys = {k1}
    Incidents = {}
    MaxSwitch = 1
    BATCH = 500
    CandidateOf <- Suggests
    ProposalsEnabled = FALSE
    LockMayDrop = TRUE
    LateAdds = TRUE
    MaxFaults = 1
INVARIANTS
    FourEyes
    HistoryIsTheRecord
    RouteIsApproved
PROPERTIES
    WrittenOnce
ACTION_CONSTRAINT RacesComeFirst
SYMMETRY Alike
