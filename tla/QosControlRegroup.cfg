SPECIFICATION ControlSpec
CONSTANTS
    IPs = {ip1, ip2}
    RuleCnt = 1
    IpSpecs = {2}
    DefaultSpec = 2
    Params = {p1}
    NoPar = NoPar
    RefBound = 1
    CountBound = 0
    Timed = {}
    Configs <- OneConfig
    Lists <- One
    MaxWaiting = 1
    StartsOnce = TRUE
    Overlap = FALSE
    LateReports = TRUE
    MayKill = FALSE
INVARIANTS
    StoredMarksAllocated
