\* A record is used after a resize has redirected it.
CONSTANTS
    PageSize = 18
    HeaderSize = 2
    SlotSize = 1
    Bytes = {zero, one}
    ZeroByte = zero
    AnyByte = any
    NewSizes = {1}
    Sizes = {1, 6, 12}
    MaxRecords = 4
    MaxPages = 3
    MaxCalls = 9
SPECIFICATION Spec
INVARIANT AssertionsHold
