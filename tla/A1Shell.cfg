\* Two slots, so that the third variable finds the table full; three open
\* files, so that a script that runs itself meets the limit.
\* The shell may end: no check for deadlock.
CONSTANTS
    Word <- AllStrings
    Slots = 2
    Names = {"x", "y", "z"}
    VariableOf <- SmallVariableOf
    Root = "/"
    Resolve <- SmallResolve
    MaxOpen = 3
    Inputs <- SmallInputs
    Scripts <- SmallScripts
SPECIFICATION Spec
CHECK_DEADLOCK FALSE
INVARIANTS
    LineMeaning
    OpenWhileRunning
PROPERTIES
    RefinesVarStore
    LineReturns
