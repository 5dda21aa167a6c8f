CONSTANTS
    string1 = string1
    list1 = list1
    list2 = list2
    text = text
    empty = empty
    char = char
    Cell <- MCCell
    Literal = {text}
    EmptyRoot = {empty}
    Handle = {h1, h2, h3}
    Atom = {char}
    None = None
    Layout <- MCLayout
    Stores <- MCStores
    Updatable = {"String", "List"}
    Boxed = {}
    LiteralText <- MCLiteralText
    MaxLength = 2
    LiteralBase = 4
    MaxValues = 5
    MaxOwners = 4
    MaxCalls = 1
    MaxBlocks = 0
SPECIFICATION Spec
VIEW ReadableState
SYMMETRY Interchangeable
INVARIANTS
    BorrowsAreLive
PROPERTIES
    ReadableUnchanged
    KeepsHeapContract
CHECK_DEADLOCK FALSE
