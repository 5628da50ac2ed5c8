CONSTANTS
    m = m  a = a  b = b  c = c
    h1 = h1  h2 = h2  h3 = h3  hm = hm
    nohandle = nohandle  nothread = nothread
    Threads <- MCThreads4
    Main = m
    Handles <- MCHandles2
    MainHandle = hm
    NoHandle = nohandle
    NoThread = nothread
    NSlots = 8
    PtrWords = 1
    IdBits = 3
    MaxCreates = 3
    PcFar = {FALSE}
    Creators = {m, a}
SPECIFICATION Spec
SYMMETRY SymmetryBC
CONSTRAINT SerializerStalled
INVARIANT FreedOnlyWhenReaped
