SPECIFICATION Spec
CONSTANTS
    build = build
    test = test
    scan = scan
    deploy = deploy
    None = None
    Node = {build, test, deploy}
    Edge <- JoinEdge
    InDegree <- GraphInDegree
    Worker <- TwiceBuildBefore
    NodeOf <- First
    Outcome = {"Succeeded", "Failed"}
    MaxFaults = 2
    MaxCrashes = 1
    MaxDeletes = 0
INVARIANTS StartsAreCounted NoPrematureStart
