CONSTANTS
    string1 = string1
    list1 = list1
    list2 = list2
    text = text
    empty = empty
    char1 = char1
    char2 = char2
    Cell <- MCCell
    Literal = {text}
    EmptyRoot = {empty}
    Handle = {h1, h2, h3}
    Atom = {char1, char2}
    None = None
    Layout <- MCLayout
    Stores <- MCStores
    Updatable = {"String", "List"}
    Boxed = {}
    LiteralText <- MCLiteralText
    MaxLength = 2
    LiteralBase = 4
SPECIFICATION Spec
SYMMETRY Interchangeable
INVARIANTS
    CountExact
    NoDangling
    LeakCheckExact
PROPERTY
    ImplementsValueSemantics
CHECK_DEADLOCK FALSE
