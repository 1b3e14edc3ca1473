\* One frame more than "make run" has: the seventh is past the smallest table.
CONSTANTS
    Script <- FlatScripts
    UserCommands <- FlatCommands
    FRAMESTORE_LENGTH = 7
    MAX_INT = 100
    StdioLines = 50
    MaxPid = 3
SPECIFICATION Spec
CHECK_DEADLOCK FALSE
INVARIANTS
    PagesAhead
    ExecutesScript
    DeadPagesInTheWay
