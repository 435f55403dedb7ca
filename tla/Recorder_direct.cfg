\* Seen from outside: the faults under which the agent is to run undisturbed.
SPECIFICATION FairSpec
CONSTANTS
    Signal = Signal
    NoCode = NoCode
    Codes <- TwoCodes
    MaxLines = 1
    MaxOutput = 1
    MaxExecs = 1
    MaxBackground = 1
    MaxHooks = 1
    RingSize = 1
    Faults <- HarmlessFaults
PROPERTIES ImplementsDirectRun SessionEnds
