SPECIFICATION ContextSpec
CONSTANTS
    User = {u1, u2}
    Ctx = {c1, c2, t}
    timed = {t}
    Background = Background
    Foreign = Foreign
    Nil = Nil
INVARIANTS Cancelled Released Unstuck
SYMMETRY Symmetry
