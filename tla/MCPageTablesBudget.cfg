SPECIFICATION Spec
CONSTANTS
    H = 512
    K = 8
    Sizes = {249, 501, 502, 505, 506, 2039}
INVARIANT
    BudgetSuffices
\* Initialisation ends.
CHECK_DEADLOCK FALSE
