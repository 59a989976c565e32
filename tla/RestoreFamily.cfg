CONSTANTS
    Services = {s1}
    MaxChildren = 2
    MaxCalls = 3
    MaxRows = 4
    Reserve = 2
    Actual = 1
    Cap = 5
    RaisedCaps = {6, 7}
SPECIFICATION Spec
INVARIANTS SharedAllowance CrashesStayRestorable AdmissionsReconcile
PROPERTIES WonFamiliesStayClosed
CHECK_DEADLOCK FALSE
