\* Faults anywhere but between the first byte of a line and its newline.
SPECIFICATION FairSpec
CONSTANTS
    Recorder = Recorder
    Hook1 = Hook1
    Hook2 = Hook2
    Nobody = Nobody
    Writers = {Recorder, Hook1, Hook2}
    Batch <- MCBatch
    CrashAt <- OutsideWindow
    IoErrorAt <- FallibleOutsideWindow
    PowerLoss = FALSE
INVARIANTS OneRecordPerLine
PROPERTIES ImplementsChainLog AppendReturns
