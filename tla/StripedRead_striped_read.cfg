\* Reads of 0, 2 and 4 bytes at offsets 0, 1 and 3 of a 5-byte file, with
\* stripe sizes 1 and 2, stripe counts 1 to 3 and two CPUs: reads cross the
\* end of the file, span up to four stripes and oversubscribe the semaphore.
CONSTANTS
    FileLen = 5
    Offsets = {0, 1, 3}
    Sizes = {0, 2, 4}
    StripeCounts = {1, 2, 3}
    StripeSizes = {1, 2}
    NumCPU = 2
    IOFaults = TRUE
SPECIFICATION Spec
INVARIANT ChunksTileRange
INVARIANT ReadResultCorrect
PROPERTY PlanRefinement
PROPERTY ReadReturns
