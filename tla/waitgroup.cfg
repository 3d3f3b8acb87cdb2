SPECIFICATION FairSpec
CONSTANTS
    Proc = {p1, p2, p3, p4}
    Addr = {a}
    sema = a
    MaxUnits = 2
    Nil = Nil
INVARIANT WaitersCounted
PROPERTIES ReturnsAtZero WaitReturns
