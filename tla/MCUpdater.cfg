\* Two windows, a trusted and an untrusted version, two blocks.
SPECIFICATION Spec
CONSTANTS
    Windows = {w1, w2}
    v1 = v1
    v2 = v2
    Versions <- MCVersions
    Trusted <- MCTrusted
    Length = 2
    NoFile = NoFile
    NoVersion = NoVersion
INVARIANTS
    LaunchedIsTrusted
    PreparedStaysWhole
    NoLeftovers
PROPERTIES
    TasksEnd
