\* Up to eleven runs of three or four values: passes with even and odd numbers of runs.
CONSTANTS
    ShortLength = 8
    LongLengths = {9, 10, 12, 13, 16, 19, 20, 22, 33, 34}
    Values <- MCValues
    Inputs <- MCInputs
    MemSizes = {3, 4, 5, 7}
    Spare = {0, 1}
SPECIFICATION Spec
INVARIANTS OutputSorted RunsDescribeFile MergeConserves AssertionsHold
PROPERTY SortReturns
CHECK_DEADLOCK FALSE
