\* A spin loop of the code is not a step of the model: a thread spinning
\* for ever shows as a state without successors, which this run judges by
\* FullRingDrains instead of reporting it as a deadlock.
CONSTANTS
    m = m  a = a  b = b  c = c
    h1 = h1  h2 = h2  h3 = h3  hm = hm
    nohandle = nohandle  nothread = nothread
    Threads <- MCThreads2
    Main = m
    Handles <- MCHandles1
    MainHandle = hm
    NoHandle = nohandle
    NoThread = nothread
    NSlots = 4
    PtrWords = 1
    IdBits = 2
    MaxCreates = 3
    PcFar = {FALSE}
    Creators = {m}
SPECIFICATION Spec
PROPERTY FullRingDrains
CHECK_DEADLOCK FALSE
