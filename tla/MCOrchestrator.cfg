CONSTANTS
    MaxUint64 = 5
    Workers = {w1, w2}
SPECIFICATION FairSpec
INVARIANTS
    TypeOK
    NilMeansComplete
    AtMostOneAfterCancel
PROPERTIES
    RangesDisjoint
    ImplementsCoverage
    Terminates
CHECK_DEADLOCK FALSE
