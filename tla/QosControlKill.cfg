SPECIFICATION ControlSpec
CONSTANTS
    IPs = {ip1}
    RuleCnt = 2
    IpSpecs = {2}
    DefaultSpec = 2
    Params = {p1}
    NoPar = NoPar
    RefBound = 1
    CountBound = 0
    Timed = {2}
    Configs <- OneConfig
    Lists <- SomeLists
    MaxWaiting = 1
    StartsOnce = FALSE
    Overlap = FALSE
    LateReports = TRUE
    MayKill = TRUE
INVARIANTS
    ControlTypeOK
    ReadyServes
    TreeFollowsRules
    StoppedQuiet
    UnlockedClean
