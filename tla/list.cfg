SPECIFICATION Spec
CONSTANTS
    Lists = {l1, l2}
    Elems = {e1, e2, e3, e4}
    Values = {v1, v2}
    Nil = Nil
    ReuseCleared = FALSE
INVARIANTS TypeOK Mem CopyLoop Detached Traversal
PROPERTY RefinesListSpec
