CONSTANTS
    Vals  <- MCVals
    Calls <- MCCalls
SPECIFICATION Spec
INVARIANTS
    TypeOK
    
    MergeProgress
    SortsInput
