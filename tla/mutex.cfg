SPECIFICATION MCSpec
CONSTANTS
    Proc = {p1, p2, p3}
    Addr = {s}
    sema = s
    Nil = Nil
    MaxCalls = 5
INVARIANTS MutualExclusion NoThrow Sleepers NoLostWakeup OneWakeup
PROPERTIES NoBarging LockReturns
