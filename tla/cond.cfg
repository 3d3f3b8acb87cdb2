SPECIFICATION FairSpec
CONSTANTS
    Proc = {p1, p2, p3}
    Wrap = 8
    MaxLag = 4
INVARIANT Asleep
PROPERTIES Delivered NotifiedReturns
CHECK_DEADLOCK FALSE
