\* Two projects, a copy of one and a ZIP file; estates with up to two features.
SPECIFICATION Spec
CONSTANTS
    None = None
    NoName = NoName
    MaxFeatures = 2
    MaxFile = 4
    MaxMembers = 2
    MaxTotal = 4
    Capability <- MCCapability
    Claims <- MCClaims
    Words <- MCWords
    Canonical <- MCCanonical
    MinStructure = 3
    EvidenceKept = 2
    MinimumEvidence = 35
    MaxOpportunities = 2
    Disks <- MCDisks
    Requests <- MCRequests
    MaxParse = 2
    MaxNodes = 21
    MaxFlows = 1
    Depth = 8
CHECK_DEADLOCK FALSE
INVARIANTS
    TypeOK
    OneCopyStays
    VerifiedIsReal
    NegativesAreCovered
    OffersAreGrounded
