SPECIFICATION ContextSpec
CONSTANTS
    NumContexts = 3
    NumOwned = 2
    Runs = 2
INVARIANT ContextIsComplete
