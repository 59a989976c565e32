CONSTANTS
    Inherited = 1
    MaxEvents = 6
    None = None
    Tokens = {t1}
    Threads = {r1, r2}
    MaxAsked = 3
SPECIFICATION Spec
SYMMETRY Symmetry
INVARIANTS LabelsAreHonest FrontierHolds LedgerBalances
CHECK_DEADLOCK FALSE
