CONSTANTS
    Path = {p, q}
    Height = 2
    Value = {a, b}
    Op = {o1}
    Publisher = {o1}
    Caller = {}
    Reconciler = {}
    MaxChanges = 9
    None = None
SPECIFICATION Spec
PROPERTIES FlushSeesWhatItReplaces
SYMMETRY ValuesAndPathsInterchangeable
CHECK_DEADLOCK FALSE
