SPECIFICATION Spec
CONSTANTS
    None = None
    Pid = {p1, p2}
    Path = path
    Target = {a, b}
    Attempts = 2
    MaxSize = 1
    MaxWrites = 2
INVARIANTS
    TargetWhole
    ResultIsTrue
PROPERTIES
    LinkSurvives
    WritesEnd
CHECK_DEADLOCK FALSE
