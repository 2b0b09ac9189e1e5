SPECIFICATION FairSpec
CONSTANTS
    build = build
    builder = builder
    ns = ns
    go = go
    gopher = gopher
    Blank = Blank
    None = None
    Key = {build, builder}
    Namespace = {ns}
    Kind = {go, gopher}
    KeyNamespace <- OneNamespace
    KeyKind <- LongerKind
    WantedKind = go
    operator = operator
    Handler = {operator}
    Cap = 1
    MaxRev = 3
    MaxEvents = 3
    MaxTime = 1
    MaxFaults = 1
INVARIANTS TypeOK StoreIndexed HandlersFollowStore LateHandlerComplete NothingMissing
PROPERTIES ImplementsReplica StoreConverges
