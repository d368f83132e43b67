SPECIFICATION ConnSpec
CONSTANTS
    IPs = {ip1, ip2}
    RuleCnt = 1
    IpSpecs = {2}
    DefaultSpec = 2
    Params = {p1}
    NoPar = NoPar
    RefBound = 3
    CountBound = 0
    Conns = {c1, c2, c3}
    RuleBits = 2
SYMMETRY Symmetry
CONSTRAINT Explored
INVARIANTS
    ConnTypeOK
    MarkedAsBound
    CountExact
    ConnIsolation
PROPERTIES
    LastOneUnbinds
