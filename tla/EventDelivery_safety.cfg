SPECIFICATION Spec
CONSTANTS
    Deliveries = {d1, d2}
    Events = {otp1, otp2, inapp, anon, bad}
    MailEvents = {bad}
    OtpEvents = {otp1, otp2}
    InAppEvents = {inapp, anon}
    Malformed = {bad}
    Keyed = {otp1, otp2, inapp, bad}
    Retries = 2
    SendRetries = 2
    MaxCrashes = 1
    MaxRemovals = 1
    NoId = NoId
    NoCode = NoCode
    OtherCode = OtherCode
    Addresses = {inbox}
    inbox = inbox
    AddressOf <- OneAddress
SYMMETRY DeliverySymmetry
INVARIANTS
    TypeOK
    MarkedAfterEffect
    MailedOnceUnlessExcused
    PushedOnceUnlessDeleted
    StoredCodeWasMailed
