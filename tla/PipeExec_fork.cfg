SPECIFICATION FairSpec
CONSTANTS
    build = build
    test = test
    scan = scan
    deploy = deploy
    None = None
    Node = {build, test, scan}
    Edge <- ForkEdge
    InDegree <- GraphInDegree
    Worker <- OneEach
    NodeOf <- Identity
    Outcome = {"Succeeded", "Failed"}
    MaxFaults = 2
    MaxCrashes = 1
    MaxDeletes = 0
INVARIANTS TypeOK SuccessMeansAllSucceeded CleanAfterSuccess
PROPERTIES ImplementsDag PipelineCompletes
