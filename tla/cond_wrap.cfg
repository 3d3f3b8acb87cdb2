SPECIFICATION Spec
CONSTANTS
    Proc = {p1, p2, p3}
    Wrap = 8
    MaxLag = 5
CHECK_DEADLOCK FALSE
INVARIANT NotifiedStaysAwake
