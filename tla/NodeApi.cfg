SPECIFICATION Spec
CONSTANTS
    operator = operator
    tool = tool
    c1 = c1
    c2 = c2
    c3 = c3
    Client = {operator, tool}
    Call = {c1, c2, c3}
    Created = Created
    None = None
    MaxFaults = 1
INVARIANTS AcknowledgedIsSeen
