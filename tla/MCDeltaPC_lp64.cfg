CONSTANTS
    PtrBits = 6
    IntBits = 4
    NJmps = 4
    NOps = 2
    TableBase = 56
    Pcs <- LP64Pcs
    Tid = 1
    MaxEvents = 2
SPECIFICATION Spec
INVARIANT PcsRecovered
