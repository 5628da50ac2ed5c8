CONSTANTS
    ISlots = 8
    MaxRecs = 10
SPECIFICATION Spec
INVARIANT TypeOK
INVARIANT WalkFollowsQueue
PROPERTY RefinesRingQueue
