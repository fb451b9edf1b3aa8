\* Three threads that make two calls each and then stop.
CONSTANTS
    v0 = v0
    v1 = v1
    Threads = {t1, t2, t3}
    NumPages = 2
    PageCount = 1
    Values = {v0}
    Zero = v0
    Changed = {}
    MaxFixed = 1
    MaxCalls = 2
SPECIFICATION FairSpec
PROPERTY FixReturns
CHECK_DEADLOCK FALSE
