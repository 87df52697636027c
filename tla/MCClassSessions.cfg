SPECIFICATION Spec
CONSTANTS
    Sessions = {a, b}
    Codes = {x, y}
    NoRow = NoRow
    Callers = {ip}
    Requests = {q1, q2}
    Idle = Idle
    Durations = {1, 3}
    TokenTtl = 2
    MaxCreates = 2
    CreateWindow = 2
    MaxJoins = 1
    JoinWindow = 1
    MaxTime = 2
    MaxRestarts = 1
    MaxStudents = 1
SYMMETRY Symmetric
INVARIANTS
    LimiterExact
    CodeNamesOneClass
PROPERTIES
    OverForGood
CHECK_DEADLOCK FALSE
