SPECIFICATION Spec
CONSTANTS
    Proc = {p1, p2}
    Key = {k1, k2}
    Value = {a, b}
    None = None
    expunged = expunged
    nil = nil
    MaxEntries = 8
INVARIANTS Linearizable DirtyComplete
SYMMETRY Symmetry
VIEW View
