SPECIFICATION Spec
CONSTANTS
    s1 = s1
    s2 = s2
    s3 = s3
    s4 = s4
    s5 = s5
    Callers = {s1, s2, s3, s4, s5}
    Rate = 2
    Windows = 3
SYMMETRY CallerSymmetry
INVARIANTS
    TypeOK
    RatePerWindow
    RefusedOnlyWhenUsedUp
CHECK_DEADLOCK FALSE
