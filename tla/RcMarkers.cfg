SPECIFICATION MarkerSpec
CONSTANTS
    Blocks <- MCBlocks
    StepsAfter <- MCStepsAfter
    OutputsOf <- MCOutputsOf
INVARIANTS
    ObligationsEndOnce
    BorrowsAreBacked
    DropsHaveOneOrigin
    PairsAgree
    ReasonsNameTheirStep
    ReportAccounts
CHECK_DEADLOCK FALSE
