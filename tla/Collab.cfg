CONSTANTS
    Path = {p, q}
    Height = 2
    Value = {a, b}
    Op = {o1, o2}
    Publisher = {o1, o2}
    Caller = {o1}
    Reconciler = {o1}
    MaxChanges = 7
    None = None
SPECIFICATION Spec
INVARIANTS TypeOK KnownBase CleanIsPublished
PROPERTIES NoEditLost GuardedWriteSaw
SYMMETRY ValuesAndPathsInterchangeable
CHECK_DEADLOCK FALSE
