SPECIFICATION FairSpec
CONSTANTS
    main = main
    worker = worker
    task = task
    check = check
    Caller = {main, worker}
    Key = {task, check}
    MaxInformers = 3
INVARIANTS TypeOK WaitMeansSynced
PROPERTIES WaitEnds
