SPECIFICATION Spec
CONSTANTS
    s1 = s1
    s2 = s2
    Students = {s1, s2}
    Fetches = {1, 2}
    Begun <- InTheMiddle
    MaxBytes = 3
    MaxClasses = 2
    MaxChanges = 2
INVARIANTS
    EfficiencyAgrees
PROPERTIES
    EventuallyAccurate
CHECK_DEADLOCK FALSE
