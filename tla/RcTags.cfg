SPECIFICATION Spec
CONSTANTS
    CATEGORY_BITS = 3
    Programs <- MCPrograms
    MaxDepth = 8
INVARIANTS CategoryIsDue FunctionIsCaller
CHECK_DEADLOCK FALSE
