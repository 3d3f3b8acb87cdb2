SPECIFICATION MCSpec
CONSTANTS
    Proc = {p1, p2, p3}
    Addr = {s, t}
    Nil = Nil
    MaxCalls = 4
INVARIANTS WaitersCounted Asleep NoMissedWakeup
PROPERTIES RefinesSemaphore PermitReachesSleeper
