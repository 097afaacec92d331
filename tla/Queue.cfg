SPECIFICATION FairSpec
CONSTANTS
    Jobs = {j1, j2}
    Handled = {j1}
    Workers = {w1, w2}
    Clients = {c1}
    Budgets = {0, 2}
    Verbose = {w2}
    MaxLosses = 1
    Free = Free
    None = None
INVARIANTS
    TypeOK
    OneRunner
    WithinBudget
    NothingLeftLocked
PROPERTIES
    ImplementsLedger
    JobsEnd
