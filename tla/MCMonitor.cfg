\* Two drops; a debounce of two polls; an envelope of two items.
SPECIFICATION Spec
CONSTANTS
    None = None
    Drop <- MCDrop
    Versions <- MCVersions
    Looks <- MCLooks
    Finds <- MCFinds
    Cites <- MCCites
    Debounce = 2
    Configs <- MCConfigs
    Slug <- MCSlug
    Item <- MCItem
    MaxCandidates = 2
    MaxItems = 2
    MaxInput = 2
    Anchors <- MCAnchors
INVARIANTS
    AdviceFollowsReports
    AdviceIsGrounded

    
