SPECIFICATION Spec
INVARIANTS
    RewriteIsExact
    
    AllocationsAreExact
    RcTablesAreExact
CHECK_DEADLOCK FALSE
