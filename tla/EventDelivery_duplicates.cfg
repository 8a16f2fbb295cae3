SPECIFICATION Spec
CONSTANTS
    Deliveries = {d1, d2}
    Events = {mail, inapp, anon, bad}
    MailEvents = {mail, bad}
    OtpEvents = {}
    InAppEvents = {inapp, anon}
    Malformed = {bad}
    Keyed = {mail, inapp, bad}
    Retries = 2
    SendRetries = 2
    MaxCrashes = 0
    MaxRemovals = 0
    NoId = NoId
    NoCode = NoCode
    OtherCode = OtherCode
    Addresses = {}
    inbox = inbox
    AddressOf <- OneAddress
SYMMETRY DeliverySymmetry
INVARIANT
    NoDuplicateDelivery
