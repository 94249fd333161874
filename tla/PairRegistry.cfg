SPECIFICATION Spec
CONSTANTS
    Thread = {t1, t2}
    Files = {f1, f2}
    MaxId = 2
    MaxRequests = 3
SYMMETRY Symmetry
INVARIANTS
    OneRecordPerId
    GrantedPairsStay
PROPERTY OneRecordPerWrite
CHECK_DEADLOCK FALSE
