\* A regular input file, a 2-event buffer of 3-byte events, inputs up to
\* 20 bytes: several chunks, a last partial chunk and truncated inputs.
CONSTANTS
    EvSize = 3
    BufEvs = 2
    MaxLen = 20
    Pipe = FALSE
SPECIFICATION Spec
INVARIANT SuccessOnlyWhenComplete
INVARIANT WholeInputDumped
