SPECIFICATION Spec
CONSTANTS
    build = build
    test = test
    deploy = deploy
    Name = {build, test, deploy}
    MaxEdges = 4
    EdgeLists <- AllEdgeLists
    NodeLists <- SomeNodeLists
    NoGraph = NoGraph
INVARIANTS
    TypeOK
    CreatedIsRunnable
    RefusedIsCyclicOrRepeats
