\* Three transactions: addWaiters throws with the shared_mutex taken.
CONSTANTS
    Txns = {t1, t2, t3}
    b1 = b1
    b2 = b2
    i1 = i1
    i2 = i2
    Items = {i1, i2}
    Modes = {"Shared", "Exclusive"}
    Buckets = {b1}
    hash <- OneBucket
    Locks = {l1, l2, l3}
    AddressReuse = FALSE
    NoLock = NoLock
    NoItem = NoItem
SPECIFICATION Spec
SYMMETRY Symmetry
INVARIANT NoLeakedLock
CHECK_DEADLOCK FALSE
