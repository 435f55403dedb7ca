\* Process ids are given once; snitchit is in a pid namespace; other sessions start.
SPECIFICATION Spec
CONSTANTS
    Root = Root
    InitPid = InitPid
    Free = Free
    Pids = {p1, p2, p3}
    ReusePids = FALSE
    SeedPid = LocalPid
    MaxTracked = 4
    MaxMessages = 3
    Tuples = {t1}
    MaxDepth = 3
    NoWalk = NoWalk
    Collectors <- AllCollectors
SYMMETRY Symmetry
INVARIANTS TypeOK OnlyRecordedTrees EveryExec FinalScanCatches OncePerConnection
CHECK_DEADLOCK FALSE
