CONSTANTS
    t1 = t1
    t2 = t2
    Threads <- MCThreads
    MaxGen = 2
    MaxAcc = 2
SPECIFICATION Spec
SYMMETRY ThreadSymmetry
INVARIANT LoadBeforeStoreStamped
