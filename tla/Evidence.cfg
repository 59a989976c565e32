CONSTANTS
    Base = Base
    Candidate = Candidate
    None = None
    MaxEdits = 1
    MaxCommands = 3
SPECIFICATION Spec
INVARIANTS
    AdmittedRuntimeWasProven
    UpdatesAreReversible
    SelectionIsRecorded
CHECK_DEADLOCK FALSE
