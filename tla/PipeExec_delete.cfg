SPECIFICATION Spec
CONSTANTS
    build = build
    test = test
    scan = scan
    deploy = deploy
    None = None
    Node = {build, test, scan}
    Edge <- ChainEdge
    InDegree <- IsolatedInDegree
    Worker <- TwiceBuild
    NodeOf <- First
    Outcome = {"Succeeded", "Failed"}
    MaxFaults = 1
    MaxCrashes = 0
    MaxDeletes = 2
INVARIANTS StartsAreCounted
