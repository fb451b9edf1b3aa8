\* Two transactions, two chains, fair threads.
CONSTANTS
    Txns = {t1, t2}
    b1 = b1
    b2 = b2
    i1 = i1
    i2 = i2
    Items = {i1, i2}
    Modes = {"Shared", "Exclusive"}
    Buckets = {b1, b2}
    hash <- TwoBuckets
    Locks = {l1, l2, l3}
    AddressReuse = FALSE
    NoLock = NoLock
    NoItem = NoItem
SPECIFICATION FairSpec
PROPERTY EveryTransactionEnds
