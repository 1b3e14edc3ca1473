\* Scripts that start scripts; the longest lose their last line when they are
\* started with exec.
CONSTANTS
    Script <- NestedScripts
    UserCommands <- NestedCommands
    FRAMESTORE_LENGTH = 4
    MAX_INT = 100
    StdioLines = 7
    MaxPid = 4
SPECIFICATION Spec
CHECK_DEADLOCK FALSE
INVARIANTS
    QueueIntegrity
    TableEntryValid
PROPERTIES
    PromptReturns
