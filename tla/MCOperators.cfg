CONSTANTS
    Vals <- MCVals
    MaxLeft <- MCMaxLeft
    MaxRight <- MCMaxRight
    Ops <- MCOps
    Projs <- MCProjs
SPECIFICATION Spec
INVARIANTS TypeOK NoSpuriousRow ResultMatches
PROPERTY Terminates
CHECK_DEADLOCK FALSE
