\* Another session is started while this one observes.
SPECIFICATION Spec
CONSTANTS
    Root = Root
    InitPid = InitPid
    Free = Free
    Pids = {p1, p2, p3}
    ReusePids = FALSE
    SeedPid = Root
    MaxTracked = 4
    MaxMessages = 3
    Tuples = {t1}
    MaxDepth = 3
    NoWalk = NoWalk
    Collectors <- OnlyEbpf
INVARIANTS OnlyTheTree
CHECK_DEADLOCK FALSE
