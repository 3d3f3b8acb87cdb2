SPECIFICATION FairSpec
CONSTANTS
    Proc = {p1, p2, p3, p4}
    Addr = {rs, ws}
    readerSem = rs
    writerSem = ws
    rwmutexMaxReaders = 8
    Nil = Nil
INVARIANTS Counts Exclusion OneSignal
PROPERTIES WriterLocks ReadersReturn
