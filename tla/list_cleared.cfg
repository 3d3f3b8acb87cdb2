SPECIFICATION Spec
CONSTANTS
    Lists = {l1}
    Elems = {e1, e2, e3}
    Values = {v1}
    Nil = Nil
    ReuseCleared = TRUE
PROPERTY UnknownElementLeavesList
