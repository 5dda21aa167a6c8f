SPECIFICATION Spec
CONSTANTS
    site1 = site1
    site2 = site2
    inner = inner
    Site <- MCSite
    Inner <- MCInner
    Home <- MCHome
    Line <- MCLine
    Slots = 4
    Units = {0, 2}
    MaxUpdates = 3
INVARIANTS ReportIsExact
PROPERTIES ImplementsCallCounts HitsEnd
CHECK_DEADLOCK FALSE
