\* Two slots and three pages, two of them fixed at a time by each of two threads.
CONSTANTS
    v0 = v0
    v1 = v1
    Threads = {t1, t2}
    NumPages = 3
    PageCount = 2
    Values = {v0, v1}
    Zero = v0
    Changed = {1}
    MaxFixed = 2
    MaxCalls = 0
SPECIFICATION Spec
SYMMETRY Symmetry
INVARIANTS TypeOK NoLostUpdate UsersExact LatchesExclusive SlotsDistinct ListsMatchFrames
CHECK_DEADLOCK FALSE
