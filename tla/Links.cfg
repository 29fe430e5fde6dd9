CONSTANTS
    Dir = {d, e}
    Leaf = {x, y}
    Body = {Empty, Full}
    Empty = Empty
    Full = Full
    Bytes <- OneByte
    Handle = {h1, h2}
    Quota = 3
    MaxIno = 3
    MaxLinks = 3
    None = None
SPECIFICATION Spec
INVARIANTS UsageExact
SYMMETRY NamesAndHandlesInterchangeable
CHECK_DEADLOCK FALSE
