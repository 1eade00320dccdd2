\* One window, one command line, two candidates, two edits.
SPECIFICATION Spec
CONSTANTS
    x = x
    secret = secret
    Windows = {window}
    Commands = {command}
    Absent = Absent
    NoPack = NoPack
    NoApproval = NoApproval
    NoStaging = NoStaging
    Torn = Torn
    Requested <- MCRequested
    Dest <- MCDest
    Contents <- MCContents
    Secret <- MCSecret
    Estates <- MCEstates
    Selections <- MCSelections
    Documents <- MCDocuments
    MaxEdits = 2
    MaxApprovals = 1
    MaxPublished = 2
    MaxSessions = 1
INVARIANTS
    TypeOK
    PublishedIsApproved
    NothingBlockedLeaves
    SessionIsApproved
PROPERTIES
    NothingReplaced
