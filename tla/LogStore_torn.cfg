\* A writer may be killed at any step: readers lose events that were recorded.
SPECIFICATION Spec
CONSTANTS
    Recorder = Recorder
    Hook1 = Hook1
    Hook2 = Hook2
    Nobody = Nobody
    Writers = {Recorder, Hook1}
    Batch <- MCBatch
    CrashAt <- AnyStep
    IoErrorAt <- NoStep
    PowerLoss = FALSE
INVARIANTS OneRecordPerLine
