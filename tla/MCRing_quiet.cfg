CONSTANTS
    NSlots <- MCNSlots
    Sizes <- MCSizes
    MaxWords <- MCMaxWords
    HdrLen <- MCHdrLen
    Log2NThreads = {0, 3}
SPECIFICATION Spec
PROPERTY AllWordsWritten
CHECK_DEADLOCK FALSE
