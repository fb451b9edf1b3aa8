\* Four records that grow from one byte to half a page and more: redirects arise, move on and move back.
CONSTANTS
    PageSize = 18
    HeaderSize = 2
    SlotSize = 1
    Bytes = {zero, one}
    ZeroByte = zero
    AnyByte = any
    NewSizes = {1}
    Sizes = {1, 6, 12}
    MaxRecords = 4
    MaxPages = 3
    MaxCalls = 9
SPECIFICATION Spec
INVARIANTS InventoryIsSafe PagesSound OneRedirect RedirectsElsewhere RecordsKept ReusesEmptySlots
