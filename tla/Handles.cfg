CONSTANTS
    Dir = {d, e}
    Leaf = {x, y}
    Body = {Empty, Full}
    Empty = Empty
    Full = Full
    Bytes <- OneByte
    Handle = {h1, h2}
    Quota = 2
    MaxIno = 4
    MaxLinks = 2
    None = None
SPECIFICATION Spec
INVARIANTS TypeOK UsageExact
PROPERTIES ImplementsInodes
SYMMETRY NamesAndHandlesInterchangeable
CHECK_DEADLOCK FALSE
