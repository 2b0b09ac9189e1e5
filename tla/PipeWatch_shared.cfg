SPECIFICATION Spec
CONSTANTS
    Conn = {c1, c2}
    None = None
    Cap = 2
    MaxRev = 2
    MaxFaults = 1
SYMMETRY Symmetry
INVARIANTS
    OnlyCurrentIsAlive
    ClosedIsUnregistered
    StarterMissesNothing
    OnceInOrder
