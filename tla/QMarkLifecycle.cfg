SPECIFICATION Spec
INVARIANTS
    TypeOK
    NothingLeft
    TablesOutliveUsers
    BadNeedsExcuse
