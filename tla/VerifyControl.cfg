CONSTANTS
    list1 = list1
    list2 = list2
    text1 = text1
    text2 = text2
    char1 = char1
    char2 = char2
    Cell <- MCCell
    Literal <- MCLiteral
    EmptyRoot = {}
    Handle = {h1, h2}
    Atom = {char1, char2}
    None = None
    Layout <- MCLayout
    Stores <- MCStores
    Updatable = {"String", "List"}
    Boxed = {}
    LiteralText <- MCLiteralText
    MaxLength = 1
    LiteralBase = 4
    MaxValues = 3
    MaxOwners = 3
    MaxCalls = 2
    MaxBlocks = 2
SPECIFICATION Spec
CONSTRAINT CallsOrBlocks
VIEW ReadableState
SYMMETRY Interchangeable
INVARIANTS
    OwnersAreObligations
    NeverLeaks
CHECK_DEADLOCK FALSE
