SPECIFICATION Spec
CONSTANTS
    s1 = s1
    s2 = s2
    v1 = v1
    v2 = v2
    v3 = v3
    Sends = {s1, s2}
    Verifies = {v1, v2, v3}
    Anonymous = {s2}
    MaxAttempts = 2
    MaxCrashes = 1
    WrongCode = WrongCode
    NoCode = NoCode
SYMMETRY VerifySymmetry
INVARIANTS
    TypeOK
    AcceptedOnceUnlessExcused
    StoredIsLatest
    MailedCodeStaysUsable
    PublishMetricsAgree
CHECK_DEADLOCK FALSE
