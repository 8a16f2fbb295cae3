SPECIFICATION Spec
CONSTANTS
    s1 = s1
    s2 = s2
    v1 = v1
    v2 = v2
    v3 = v3
    Sends = {s1, s2}
    Verifies = {v1, v2, v3}
    Anonymous = {s2}
    MaxAttempts = 3
    MaxCrashes = 0
    WrongCode = WrongCode
    NoCode = NoCode
SYMMETRY VerifySymmetry
INVARIANT
    AttemptsAreLimited
CHECK_DEADLOCK FALSE
