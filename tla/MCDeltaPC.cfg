CONSTANTS
    PtrBits = 5
    IntBits = 5
    NJmps = 4
    NOps = 2
    TableBase = 24
    Pcs <- ILP32Pcs
    Tid = 1
    MaxEvents = 3
SPECIFICATION Spec
INVARIANT TypeOK
INVARIANT PcsRecovered
