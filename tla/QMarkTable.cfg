SPECIFICATION Spec
CONSTANTS
    IPs = {ip1, ip2, ip3}
    RuleCnt = 2
    IpSpecs = {2, 3}
    DefaultSpec = 2
    Params = {p1}
    NoPar = NoPar
    RefBound = 2
    CountBound = 0
SYMMETRY Symmetry
CONSTRAINT Rewritten
INVARIANTS
    TypeOK
    Isolation
    MarksBacked
    RuleCountExact
    SharedRuleMark
    ResetQuiet
    ElemNumExact
    PanicOnlyAfterRewrite
PROPERTIES
    TcFollowsMarks
    ImplementsService
