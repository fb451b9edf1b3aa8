\* Two threads in a tree of two levels.
CONSTANTS
    Threads = {t1, t2}
    Keys = {1, 2, 3, 4, 5, 6}
    Values = {v}
    Usual = v
    Nothing = Nothing
    LeafCapacity = 3
    InnerCapacity = 5
    FirstKeys = {1}
    MaxGap = 1
    MaxRare = 0
SPECIFICATION FairSpec
INVARIANT ArrivesAtItsLeaf
