SPECIFICATION PoolSpec
CONSTANTS
    Producer = prod
    Consumer = {c1, c2}
    Item = {a, b, c}
    NoItem = NoItem
    initSize = 1
    dequeueLimit = 2
    Wrap = 4
    MaxElts = 3
INVARIANTS SlotOwned Conserved
PROPERTY Ends
SYMMETRY Symmetry
