\* The PTY's handles cannot be had after the agent was spawned.
SPECIFICATION Spec
CONSTANTS
    Signal = Signal
    NoCode = NoCode
    Codes <- OneCode
    MaxLines = 1
    MaxOutput = 1
    MaxExecs = 1
    MaxBackground = 0
    MaxHooks = 0
    RingSize = 1
    Faults <- HandlesFault
INVARIANTS AgentStartedOnce
