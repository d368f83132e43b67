SPECIFICATION TreeSpec
CONSTANTS
    IPs = {ip1, ip2}
    RuleCnt = 2
    IpSpecs = {2}
    DefaultSpec = 2
    Params <- AllParams
    NoPar <- ZeroPar
    RefBound = 0
    CountBound = 0
    LanDev = lan
    WanDevs = {ifb0, wan0}
    ifb0 = ifb0
    DevMtu <- Mtus
    WanIfs = 2
    Profiles <- Uniform
SYMMETRY Symmetry
CONSTRAINT Explored
INVARIANTS
    TreeTypeOK
    TreeFollowsTable
    OwnClass
    RatesHonoured
