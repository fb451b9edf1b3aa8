\* Plans of up to three levels over tables of up to three tuples.
CONSTANTS
    Tuples <- MCTuples
    LeftMax = 3
    RightMax = 2
    Plans <- MCPlans
    LeftRows <- MCLeftRows
    RightRows <- MCRightRows
SPECIFICATION Spec
INVARIANTS ResultIsRight SortedByAllCriteria NoIteratorOverrun
PROPERTY PlanEnds
CHECK_DEADLOCK FALSE
