SPECIFICATION Spec
CONSTANTS
    Reuse = Reuse
    None = None
    UsesOf <- MCUsesOf
    Parameters <- MCParameters
    Pinned = {0}
INVARIANT KeptIsFinal
PROPERTY SolvesLeast
CHECK_DEADLOCK FALSE
