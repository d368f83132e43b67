SPECIFICATION ControlSpec
CONSTANTS
    IPs = {ip1}
    RuleCnt = 2
    IpSpecs = {2}
    DefaultSpec = 2
    Params = {p1}
    NoPar = NoPar
    RefBound = 2
    CountBound = 0
    Timed = {1}
    Configs <- AllConfigs
    Lists <- SomeLists
    MaxWaiting = 1
    StartsOnce = TRUE
    Overlap = FALSE
    LateReports = FALSE
    MayKill = FALSE
INVARIANTS
    InstalledInChain
