SPECIFICATION Spec
CONSTANTS
    Pools = {p1, p2, p3}
    Pushers = {w1, w2}
    Listener = listener
    Null = null
INVARIANTS Linked OwnedOnce PopLocal
PROPERTY ImplementsStack
SYMMETRY PoolSymmetry
