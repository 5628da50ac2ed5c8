CONSTANTS
    m = m  a = a  b = b  c = c
    h1 = h1  h2 = h2  h3 = h3  hm = hm
    nohandle = nohandle  nothread = nothread
    Threads <- MCThreads3
    Main = m
    Handles <- MCHandles2
    MainHandle = hm
    NoHandle = nohandle
    NoThread = nothread
    NSlots = 4
    PtrWords = 1
    IdBits = 2
    MaxCreates = 3
    PcFar = {FALSE}
    Creators = {m}
SPECIFICATION Spec
SYMMETRY Symmetry3
INVARIANT TypeOK
INVARIANT DemuxByMarkers
INVARIANT TidsUnique
INVARIANT ListedRecordsLive
