\* One thread; three levels, splits of the root and of inner nodes below it.
CONSTANTS
    Threads = {t1}
    Keys = {1, 2, 3, 4, 5, 6, 7, 8}
    Values = {v, w}
    Usual = v
    Nothing = Nothing
    LeafCapacity = 3
    InnerCapacity = 5
    FirstKeys = {1, 8}
    MaxGap = 1
    MaxRare = 1
SPECIFICATION FairSpec
INVARIANTS NothingStranded AssertionsHold SearchIsLowerBound NoPageStaysFixed
PROPERTIES ImplementsMap CallsReturn
