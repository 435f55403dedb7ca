\* Nested and simultaneous sessions, with every kind of data directory.
SPECIFICATION Spec
CONSTANTS
    DataDirs <- BothDirs
    Dirs <- DirsDef
    Home = "home"
    Programs <- ProgramsDef
    AgentSession <- AgentSessionDef
    Instants <- InstantsDef
    MaxSessions = 2
    MaxTyped = 1
    MaxWrites <- WritesDef
INVARIANTS TypeOK HookInInnermost SessionsApart LatestIsLastWritten TimelineNearlyChronological
\* The bounds run out.
CHECK_DEADLOCK FALSE
