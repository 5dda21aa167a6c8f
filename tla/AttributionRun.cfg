SPECIFICATION Spec
CONSTANTS
    None = None
    Versions <- MCVersions
    Texts <- MCTexts
    Emit <- MCEmit
    Seed <- MCSeed
    Anchors <- MCAnchors
    Requests <- MCRequests
    MaxInvocations = 2
    MaxEdits = 3
INVARIANTS
    SelfCompileMeasured
    FullRunIsConsistent
CHECK_DEADLOCK FALSE
