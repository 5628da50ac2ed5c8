\* One thread counted in rvp_log2_nthreads (ggen_threshold 4) or eight
\* (ggen_threshold 0).
CONSTANTS
    NSlots <- MCNSlots
    Sizes <- MCSizes
    MaxWords <- MCMaxWords
    HdrLen <- MCHdrLen
    Log2NThreads = {0, 3}
SPECIFICATION Spec
INVARIANT TypeOK
INVARIANT GgenOncePerLap
INVARIANT ConsumerIndexNamesUnread
PROPERTY RefinesRingQueue
PROPERTY FullRingDrains
