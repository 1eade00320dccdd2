\* One desktop window and one command line, two ids, one licence, two days.
SPECIFICATION Spec
CONSTANTS
    Windows = {window}
    Commands = {command}
    DeviceIds = {d1, d2}
    NoId = NoId
    NoToken = NoToken
    Provisioned = TRUE
    Terms <- MCTerms
    MaxTime = 1
    MaxIssued = 1
INVARIANTS
    VaultIsTrusted
PROPERTIES
    HeldIsGranted
    IdStays
    CommandsEnd
