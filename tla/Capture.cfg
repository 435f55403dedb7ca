\* Keys in chunks, output in chunks, hooks and kernel events.
SPECIFICATION Spec
CONSTANTS
    Absent = Absent
    Matches <- MatchesDef
    Random <- RandomDef
    Shows <- ShowsDef
    MaxPerType = 1
    Width <- WidthDef
    SummaryMax = 2
    InputMax = 4
    CodeMax = 255
    Slot = 4
    Keys <- KeysDef
    Prints <- PrintsDef
    Calls <- CallsDef
    Execs <- ExecsDef
    Connects <- ConnectsDef
    CommandLines <- CommandLinesDef
    Program = "agent"
    WaitCodes <- WaitCodesDef
    Budgets <- BudgetsDef
INVARIANTS LinesAsTyped TranscriptAsPrinted NothingSecretStored EverySecretReported
    ShownAsHappened KernelComplete
