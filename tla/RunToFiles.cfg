SPECIFICATION Spec
CONSTANTS
    None = None
    Descendant = {d1, d2}
    ReportSize = 2
INVARIANTS
    OkIsTheProgramsOwn
    SignalsOwnNumber
    NothingGoesOn
    DescriptorsClosed
PROPERTY
    Returns
CHECK_DEADLOCK FALSE
