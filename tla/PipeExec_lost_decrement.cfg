SPECIFICATION Spec
CONSTANTS
    build = build
    test = test
    scan = scan
    deploy = deploy
    None = None
    Node = {build, test, deploy}
    Edge <- JoinEdge
    InDegree <- GraphInDegree
    Worker <- OneEach
    NodeOf <- Identity
    Outcome = {"Succeeded"}
    MaxFaults = 0
    MaxCrashes = 0
    MaxDeletes = 0
INVARIANTS JoinStarts
