SPECIFICATION Spec
CONSTANTS
    c1 = c1
    c2 = c2
    Checkouts = {c1, c2}
    Shells = {s1, s2}
    Work <- MCWork
    MaxMoves <- MCMaxMoves
    MaxMishaps = 1
    Operator = Operator
    None = None
INVARIANTS
    OnlyItsOwnGame
    LeavesNoTrace
SYMMETRY Symmetry
CHECK_DEADLOCK FALSE
