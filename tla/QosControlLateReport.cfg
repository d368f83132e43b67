SPECIFICATION ControlSpec
CONSTANTS
    IPs = {ip1}
    RuleCnt = 2
    IpSpecs = {2}
    DefaultSpec = 2
    Params = {p1}
    NoPar = NoPar
    RefBound = 1
    CountBound = 0
    Timed = {2}
    Configs <- EnableConfigs
    Lists <- SomeLists
    MaxWaiting = 2
    StartsOnce = TRUE
    Overlap = FALSE
    LateReports = TRUE
    MayKill = FALSE
INVARIANTS
    InstalledAreEnabled
