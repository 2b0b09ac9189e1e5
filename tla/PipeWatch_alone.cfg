SPECIFICATION FairSpec
CONSTANTS
    Conn = {c1}
    None = None
    Cap = 2
    MaxRev = 4
    MaxFaults = 1
INVARIANTS
    TypeOK
PROPERTIES
    ServedHears
