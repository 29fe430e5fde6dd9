CONSTANTS
    N = 2
    MaxOut = 2
    Pipefail = TRUE
    Edge <- Edges
    Chunk <- Chunks
    Descriptor <- Edges
    Root <- OutAndErr
    Capacity = 1
    Maximum <- Unlimited
    MaxIo = 2
    MaxReads = 1
    None = None
SPECIFICATION PipelineFairSpec
INVARIANTS SuccessIsComplete NobodyWaitsForTheDead
PROPERTIES EverythingSettles
CHECK_DEADLOCK FALSE
