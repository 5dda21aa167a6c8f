CONSTANTS
    node1 = node1
    node2 = node2
    node3 = node3
    list1 = list1
    text = text
    char = char
    Cell <- MCCell
    Literal = {text}
    EmptyRoot = {}
    Handle = {h1, h2, h3}
    Atom = {char}
    None = None
    Layout <- MCLayout
    Stores <- MCStores
    Updatable = {"String", "List"}
    Boxed = {"Chain"}
    LiteralText <- MCLiteralText
    MaxLength = 2
    LiteralBase = 4
SPECIFICATION Spec
SYMMETRY Interchangeable
INVARIANTS
    DestroyedOnce
    NoCycles
    ChainsUnwind
CHECK_DEADLOCK FALSE
