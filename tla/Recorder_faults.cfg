\* Every fault.
SPECIFICATION Spec
CONSTANTS
    Signal = Signal
    NoCode = NoCode
    Codes <- CodesAndSignal
    MaxLines = 2
    MaxOutput = 2
    MaxExecs = 2
    MaxBackground = 1
    MaxHooks = 1
    RingSize = 1
    Faults <- AllFaults
INVARIANTS TypeOK TranscriptComplete ExecsComplete NoGaps OnlyInputDropped TerminalRestored
