\* Every fault at every step.
SPECIFICATION Spec
CONSTANTS
    Recorder = Recorder
    Hook1 = Hook1
    Hook2 = Hook2
    Nobody = Nobody
    Writers = {Recorder, Hook1, Hook2}
    Batch <- MCBatch
    CrashAt <- AnyStep
    IoErrorAt <- FallibleStep
    PowerLoss = TRUE
SYMMETRY HookSymmetry
INVARIANTS TypeOK LinkDiscipline NoFalseBreak InOrderOnce AckedDurable
PROPERTIES NeverRewrites
