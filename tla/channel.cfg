SPECIFICATION ChanSpec
CONSTANTS
    unbuffered = unbuffered
    buffered = buffered
    size = 2
    Chan = {unbuffered, buffered}
    G = {g1, g2, g3}
    dataqsiz <- Sizes
    MaxItems = 4
    MaxLooking = 1
INVARIANTS Delivered Parked
PROPERTY NonBlockingHonest
SYMMETRY Symmetry
CHECK_DEADLOCK FALSE
