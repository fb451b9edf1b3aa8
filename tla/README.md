# modern_dbs in TLA+

A verification development for `src/`: the seven tasks of a course on modern
database systems, written in C++. Each task is a library of its own with its
own copy of what it needs; nothing is linked across tasks, so each is modelled
by itself. Paths below are relative to `src/`.

1. Inventory: what the system consists of
2. Plan: what has been built, and what is left
3. The modules and how they correspond to the code
4. The runs, their bounds and what they show
5. Fairness
6. The proofs
7. What is only model-checked, what is not modelled
8. Observations that no run states

## 1. Inventory

| Component | Sources | State | Operations | What is hard | What makes it correct |
|---|---|---|---|---|---|
| Waits-for graph | `task-lock-manager/{include/moderndbs/lock_manager.h,src/lock_manager.cc}` | the edges of every transaction | `addWaitsFor`, `addWaiters`, `removeTransaction`, the search | the search starts from some nodes only | every cycle is caught by the call that closes it |
| Lock manager | the same | chains of `Lock` objects; of each its `shared_mutex`, owners, waiters, mode; `Transaction::locks` | `addLock`/`acquireLock`, `~Transaction`, `getLockMode` | threads; reference counts read without a latch decide what is freed; exceptions in the middle | mutual exclusion, strict two-phase locking, no undetected deadlock, everybody ends |
| Buffer manager | `task-buffer-manager/.../buffer_manager.{h,cc}` | frames, 2Q lists, slots, the segment files | `fix_page`, `unfix_page`, construction and destruction | threads; the global mutex is dropped for I/O and for latches | no write is lost, slots and lists are consistent, user counts are exact, calls return |
| Slotted page | `task-slotted-pages/.../slotted_page.{h,cc}` | header, slot directory, data | `allocate`, `relocate`, `erase`, `compactify` | space accounting, reuse of slots | records do not overlap, `free_space` is exact |
| Free-space inventory | `fsi_segment.cc`, `segment.h` | four bits per page | `update`, `find` | logarithmic rounding | never promises more than there is |
| Slotted-page segment | `sp_segment.cc`, `segment.h` | slotted pages, inventory, redirects | `allocate`, `read`, `write`, `resize`, `erase` | redirects over two pages that move on and back | TIDs stay valid over at most one redirect, records keep their bytes |
| 2Q replacer | `task-slotted-pages/{include,src}/buffer/2Q_replacer.{h,cc}` | FIFO and LRU lists, the hash table with a mark per frame, two counters | `Victim`, `Pin`, `Unpin`, `Size` | the same fact is kept in a list, a mark and a counter; pinned frames stay in the lists | the three agree; the victim is never pinned and is the one that 2Q prescribes |
| Disk manager, segment buffer manager | `task-slotted-pages/src/{disk,buffer}` | segment files; pages in memory | read and write pages; fix, unfix | check-then-act on file sizes | files do not shrink |
| Schema segment, database | `schema_segment.cc`, `schema.cc`, `database.cc` | a JSON document, tables | read, write, insert rows | nothing: formatting and I/O | |
| B+-tree | `task-btree/include/moderndbs/btree.h` | nodes in pages, the root's page id | `lookup`, `insert`, `erase` | preemptive splits at every level, lock coupling | it is a map; no page stays fixed |
| External sort | `task-external-sort/src/external_sort.cc` | runs in a temporary file, merge buffers | `external_sort` | bookkeeping by hand over passes, blocks that do not divide runs | the output is the sorted input |
| Operators | `task-operators/{src/algebra.cc,include/moderndbs/algebra.h}` | what each operator has materialised; iterators | `open`, `next`, `close` of twelve operators | state kept from one `next` to the following, composition | the result relational algebra says |
| Expressions, JIT | `task-expressions/` | none | build, evaluate, compile | nothing stateful | |

Interaction. Inside a task components call each other directly. Threads meet in
the lock manager (a latch per chain, a `shared_mutex` and a metadata latch per
lock, one latch for the graph), in the buffer manager (`global_mutex`,
`directory_latch` of the segment files, one `shared_mutex` per frame) and in the
B+-tree (the latches of its pages). Everything else is used by one thread.
Nothing sends messages. Only the buffer manager's files outlive the process, and
they are written completely by its destructor.

`PROJECT.json` lists, under "hazards", what is hard to test in this code, with
the line where it bites and the property that would catch it.

## 2. Plan

Done, in this order: the lock manager with its abstract specification and its
proofs; the buffer manager; slotted page, inventory and segment; the B+-tree
with its abstract map; external sort; the operators; the 2Q replacer with its
abstract base class; the B+-tree with two threads; the proofs of the buffer
manager, of the 2Q replacer with its refinement, of the B+-tree with its
refinement, of the external sort, of the slotted pages and of the operators'
iterators.

What could still be done:

1. `BufferManager`: an abstract page store (what `fix_page` shows is the last
   thing written) that the buffer manager implements; the invariant that the
   refinement needs is proved already.
2. `BTree`: what two threads keep of the tree as long as neither splits.

## 3. The modules

| Module | What it models |
|---|---|
| `WaitsForGraph` | the methods of the graph as operators; the search by what it finds |
| `WaitsForGraphSearch` | the search as written (recursive, so it is kept out of the proofs) |
| `LockTable` | abstract specification: strict two-phase locking |
| `LockManager` | transactions on threads |
| `LockManagerInv` | the inductive invariant, by parts |
| `LockManagerProofs` | lemmas: every step preserves every part; the theorems |
| `MCLockManager` | hash functions and symmetry for TLC; `SearchFindsCycles` |
| `BufferManager`, `MCBufferManager` | threads that fix and unfix pages |
| `BufferManagerInv` | the inductive invariant, by parts |
| `BufferManagerProofs` | lemmas: the outcomes of the loop of `fix_page`, every step preserves every part; the theorems |
| `SlottedPage` | a page of bytes and its methods |
| `FSISegment` | the code table of the inventory, `update`, `find` |
| `SPSegment` | the segment: composes the two above |
| `SPSegmentInv` | the inductive invariant, by parts: pages, inventory, records |
| `SPSegmentProofs` | lemmas on pages, on the segment and on its records; every method preserves the invariant; the theorems |
| `Replacer` | abstract specification: what a replacer promises the buffer pool |
| `TwoQReplacer` | the 2Q replacer and, as far as it calls it, the pool |
| `TwoQReplacerProofs` | its inductive invariant and the theorems |
| `ListLemmas` | lemmas on lists without duplicates and their order, used by all proofs but those of the lock manager and the operators |
| `KeyMap` | abstract specification: a map with calls that take effect once |
| `BTreeNode` | inner nodes and leaves and their methods |
| `BTree` | walks of threads through the tree, splits |
| `BTreeInv` | the inductive invariants: for one thread, and what any number keep fixed |
| `BTreeProofs` | lemmas on nodes (search, insertion, erasure, splits) and on trees of them; every step preserves the invariants; the theorems |
| `ExternalSort`, `MCExternalSort` | runs, passes, merges |
| `ExternalSortInv` | the inductive invariant, by parts |
| `ExternalSortProofs` | lemmas on runs, blocks and counts; every step preserves the invariant; the theorems |
| `Operators`, `MCOperators` | plans of operators that ask each other for tuples |
| `OperatorsInv` | the inductive invariant behind `NoIteratorOverrun`: who has ended, and who may still be asked |
| `OperatorsProofs` | lemmas: what a call of `next` may do, and that every operator does one of these; the theorems |

A definition that a comment calls a *mutant* is a plausible mistake in the
definition after it. Replacing the one by the other must make a property fail;
`PROJECT.json` says which.

**Lock manager.** A step is a maximal section under one latch. `walk` and
`promote` are the chain walk of `acquireLock` (`lock_manager.cc:138-180`):
expired locks are deleted one by one (`DeleteExpired`), the lock of the item is
found (`Find`) and a `shared_ptr` is taken from it (`Promote`) or cannot be
(`PromoteFails`), or a new one is built (`Construct`). `TryLock` and
`TryLockFails` are `try_lock` under the metadata latch, `WaitFor` and
`WaitForThrows` are `addWaitsFor` with and without the exception, `WakeUp` is the
return from the `shared_mutex`, `Register` is what follows. `End`, `RemoveOwner`,
`Unlock` and `DropRef` are the steps of `~Transaction`, in the code's order: out
of the graph first, then lock by lock. A `Lock` lives at an address of `heap`;
who has a `shared_ptr` is a function of `locks` and `lock`, as the reference
count is in the code. An exception of `addWaiters` leaves the mutex taken by
nobody: `orphan`. Transactions are addresses; with `AddressReuse` a new one may
get the address of an old one, to which edges may still lead.

**Buffer manager.** A step is a section under `global_mutex`, or what happens
between two of them: waiting for a frame, a block of I/O. Frames are records per
page number with the states of the code and "ABSENT". `LookUp` is the top of the
loop of `fix_page`, including finding a victim; `WriteBlock`, `Evicted` and
`Reloaded` are an eviction; `ReadBlock` and `Loaded` a load; `WaitNew` and
`Recheck` are the wait for a frame somebody else is bringing in; `Restart` is the
destructor followed by a new constructor on the same files. `truth` and `wrote`
are the client's view: what was last written to every page.

**Slotted pages.** A page is a record with its header fields, its slots and its
bytes; a slot is a record instead of 64 bits. All sizes are bytes, of small
pages. A method of the segment is one action, as one thread uses it; assertions
are on, and a failed one ends the program (`aborted`).

**2Q replacer.** Every method runs under the replacer's latch and is an action.
The pool that would call it is commented out in `task-slotted-pages`
(`buffer_manager.cc:28-146`), so it is modelled from the comments on the methods
(`2Q_replacer.h:32-50`): `Pin` for a page in the pool, `Unpin` when a pin count
becomes 0, `Victim` when no frame is free, and a victim is pinned without a call
of `Pin`. `TakeFree` and `DropPin` are what the pool does without the replacer
hearing of it. `Unpin` may also come once more for a frame that is not pinned,
for which the code has a case of its own (`2Q_replacer.cc:90`). `unpinned` and
`again` are history: the order of the last `Unpin` of each frame, and the frames
unpinned more than once.

**B+-tree.** A step ends where the code calls `fix_page`. `FixRoot` to `Arrive`
are `get_leaf_page`, the other actions are the methods after it. `pages` is the
segment; a node has its keys and as many children or values, the invalid last
key of an inner node included. `held` says who has fixed what. Keys come near
keys that are there (`MaxGap`), so that few keys make a deep tree.

**External sort.** The value is the unit of size. `SortRun` sorts one run,
`BeginPass`, `LoadPair`, `MergePair` and `FinishPair` are `not_full_way_merge`,
`LoadAll`, `MergeAll` and `FinishAll` the last merge. Both merges share
`MergeOne`, which moves one value, writes a full output buffer and loads an empty
input buffer. Fresh memory and resized files hold 0, which is no input, so a
value that is used before it is loaded shows.

**Operators.** All `next()` methods have one form: ask an input until there is
something to answer. The state is a stack of such calls; every operator has
actions for a tuple from its input, for the end of its input, and for answering
from what it has stored. Hash tables are walked in any order. The sources are
those of the tests and not part of the code.

## 4. The runs

States are distinct states, times those of two workers.

| Run | Bounds | Why they are enough | What it shows |
|---|---|---|---|
| `LM_three` | 3 transactions, 2 items in one chain, 3 lock addresses | deadlocks of two through one item (upgrades are not possible) need two items, those that a third transaction joins need three; all walk the same chain, and a third address lets a lock be built while two are there (174,571 states under symmetry) | `MutualExclusion`, `ChainIntegrity`, `OwnershipTruthful`; `CyclesAreCaught`, `NoUndetectedDeadlock`; the search as written is equivalent to reachability of a cycle (`SearchFindsCycles`); refinement of `LockTable` |
| `LM_live` | 2 transactions, 2 chains, fair | the deadlock of two is reached and broken | `EveryTransactionEnds` |
| `LM_leak` | as `LM_three` | | *violation*: an exception of `addWaiters` leaves a `shared_mutex` locked by nobody |
| `BM_pages` | 2 threads with 2 fixed pages each, 3 pages, 2 slots, 2 values of one page, restarts | a thread evicts while the other fixes the victim again, or waits for a frame whose creator then finds the buffer full; slots change hands while the other is free; both lists have entries. Pages are alike, so clients change one of them (`Changed`) and only read the others. Calls are unbounded (1,448,344 states under symmetry) | `NoLostUpdate`, `UsersExact`, `LatchesExclusive`, `SlotsDistinct`, `ListsMatchFrames` |
| `BM_livelock` | 3 threads, 2 calls each, fair | | *violation*: two waiters for a frame that has failed retry for ever |
| `SEG_records` | 4 records of 1, 6 or 12 bytes, 3 pages of 18 bytes with slots of 1, 9 calls | a page has room for two records of 6 or one of 12, so records that grow leave their page, and the pages they are on run out of room again: redirects arise, move on and move back; new records reuse slots that were erased (389,006 states) | `InventoryIsSafe`, `PagesSound`, `OneRedirect`, `RedirectsElsewhere`, `RecordsKept`, `ReusesEmptySlots` |
| `SEG_assert` | the same | | *violation*: a redirected record cannot be written or erased |
| `BT_map` | 1 thread, 8 keys inserted from either end, leaves of 3, inner nodes of 5, one erase or change | eight keys make three levels; roots, inner nodes and leaves split (54,978 states) | `NothingStranded`, `AssertionsHold`, `SearchIsLowerBound`, `NoPageStaysFixed`; refinement of `KeyMap`; `CallsReturn` |
| `BT_threads` | 2 threads, 6 keys, leaves of 3, insertions from one key upwards or downwards | two levels, so that a leaf has a parent | *violation*: a thread comes to a leaf that its key does not belong to |
| `SORT` | all inputs of up to 8 values out of two, four inputs of each of ten lengths up to 34; memory for 3, 4, 5 or 7 values | two values suffice for every order of two runs; the long inputs make 12 runs, so passes begin with even and odd numbers and with a last run longer than the others (74,252 states) | `OutputSorted`, `RunsDescribeFile`, `MergeConserves`, `AssertionsHold`, `SortReturns` |
| `REPL` | 4 frames, up to 2 pins at a time | two frames in each list, one of them a pinned placeholder, so that victims are chosen past it (119,890 states) | `AssertionsHold`, `MarksAreTrue`, `VictimIsOldest`; refinement of `Replacer` |
| `OPS` | 15 plans of up to three levels, left tables of up to 3, right of up to 2 out of three tuples | duplicates on either side, empty tables, every comparison and every aggregate occur (319,690 states) | `ResultIsRight`, `SortedByAllCriteria`, `NoIteratorOverrun`, `PlanEnds` |

Symmetry (transactions, lock addresses, threads) is used only in runs without
liveness. No run reuses addresses of transactions: with three transactions that
come and go for ever the state space is too large. The proofs cover it. Deadlock is not checked where the system may stop: lock addresses of
the bound may run out, clients that hold all slots may wait, `external_sort` and
a plan return.

## 5. Fairness

- `LM_live`: weak fairness of every thread inside a method, and of ending a
  transaction: threads are scheduled, a client does not keep a transaction for
  ever. No fairness of the `shared_mutex` among waiters is assumed. Addresses are
  not reused: with an unbounded stream of readers a writer may starve in a
  `shared_mutex`, and the code does nothing against that.
- `BM_livelock`: the same for threads inside the buffer manager, and clients
  unfix what they have fixed. The counterexample is fair: both threads run for
  ever.
- `BT_map`, `SORT`, `OPS`: one thread goes on. `BT_threads`: both do; its
  counterexample is finite.

## 6. The proofs

All theorems hold for every value of the constants that the named assumption of
the component's module allows; the assumptions only give the constants their
types, capacities a minimum, and sets that the code counts a finite size. In
each component the safety properties are not inductive, so there is a
strengthening `IInv` by parts; `Invariant` says that it always holds, and the
other theorems follow from it. Bounds of a run (`MaxCalls`, `MaxFixed`,
`Changed`, `MaxGap`, ...) are constants as well: the proofs hold for any bound.

### Lock manager

`LockManagerProofs` proves, for all sets of transactions, items, buckets, hash
functions and lock addresses, with and without reuse of addresses
(`ConstantsAssumption`):

| Theorem | Statement |
|---|---|
| `Invariant` | `Spec => []IInv` |
| `TypeCorrect` | `Spec => []TypeOK` |
| `MutualExclusionHolds` | `Spec => []MutualExclusion` |
| `ChainIntegrityHolds` | `Spec => []ChainIntegrity` |
| `OwnershipTruthfulHolds` | `Spec => []OwnershipTruthful` |
| `CyclesAreCaughtHolds` | `Spec => []CyclesAreCaught` |
| `NoUndetectedDeadlockHolds` | `Spec => []NoUndetectedDeadlock` |
| `Refinement` | `Spec => ImplementsLockTable` |

None of the properties is inductive. That no second lock of an
item is built (`ChainIntegrity`) needs that the walk has seen no such lock in
what it has visited (`WalkInv`), which needs that nobody else is in the chain
(`ChainLatchInv`). Mutual exclusion needs that the `shared_mutex` excludes
(`MutexInv`), that whoever holds it has the lock among its own or is about to
(`HoldersInv`), and that there is one lock per item. That a deadlock is seen
needs that waiters and owners are listed where the other side looks
(`ListedOf`), so that every blocked transaction has an edge to every registered
owner of its lock (`EdgeOf`), and that the graph has no cycle without an aborted
transaction (`CyclesAreCaught`): a set of transactions that wait for each other
would be such a cycle. `LockManagerProofs` has a lemma per part, with a step per
action; parts that an action does not touch are handled by frame lemmas.

Acyclicity is stated without recursion or closure: a graph has no cycle among a
set of nodes if every non-empty subset has a node without an edge into it
(`AcyclicOn`). The search is used in the proofs by what it finds
(`FindDuplicate`); that the recursive search finds just that is `SearchFindsCycles`,
checked by TLC on every graph of three transactions that occurs.

### Buffer manager

`BufferManagerProofs`, for any finite set of threads, any number of pages, of
slots and of calls, and with restarts (`BufferAssumption`):

| Theorem | Statement |
|---|---|
| `Invariant` | `Spec => []IInv` |
| `TypeCorrect` | `Spec => []TypeOK` |
| `NoLostUpdateHolds` | `Spec => []NoLostUpdate` |
| `UsersExactHolds` | `Spec => []UsersExact` |
| `LatchesExclusiveHolds` | `Spec => []LatchesExclusive` |
| `SlotsDistinctHolds` | `Spec => []SlotsDistinct` |
| `ListsMatchFramesHolds` | `Spec => []ListsMatchFrames` |

That no update is lost needs to know, for every page, where its last value is:
in its slot once it has been loaded, in the file before, and in both while it is
clean and no thread is about to flag it (`PagesInv`). An eviction makes this
true of the file in two steps, with `global_mutex` dropped in between: what it
has copied is the last value as long as the frame is still `EVICTING`
(`CopiesInv`), since whoever fixes the page meanwhile turns it into `RELOADED`.
That needs the states of frames and the program counters of threads to agree
(`CallsInv`, `FrameInv`), and that no two threads evict the same page
(`VictimsInv`). A new frame gets the slot numbered by the count of frames with
memory; that it is free needs that the slots in use are the first ones, and that
all of them are while any frame waits for one (`SlotsInv`). `num_users` may be
decremented without an underflow because it counts the threads that need the
frame (`UsersExact`), which is where the finiteness of the set of threads is
used. `BufferManagerProofs` states first what one round of the loop of `fix_page` may
come to, each outcome with what it changes, and has a lemma for each of them and
for every other action.

### 2Q replacer

`TwoQReplacerProofs`, for any finite set of frames and any order of calls
(`ReplacerAssumption`):

| Theorem | Statement |
|---|---|
| `Invariant` | `Spec => []IInv` |
| `AssertionsNeverFail` | `Spec => []AssertionsHold` |
| `MarksAreTrueHolds` | `Spec => []MarksAreTrue` |
| `VictimIsOldestHolds` | `Spec => VictimIsOldest` (an action property) |
| `Refinement` | `Spec => ImplementsReplacer` |

`Victim` chooses the list by a counter and then expects a frame in it. The
counters count marks (`MarksAreTrue`), and a mark says what the pool knows: a
frame is evictable if it is in use and not pinned (`PinsAreTrue`), which the
refinement needs to give the pool a frame that it may take. That the victim is
the one unpinned first is not visible in the lists alone; `HistoryIsTrue` relates
their order to the order of calls: a list is in the opposite order of the history
of its frames. `ListLemmas` proves what inserting and removing does to such
orders and finds the last element of a kind by the minimum of a set of numbers
in place of an induction.

### B+-tree

`BTreeProofs`, for all keys (numbers), values, capacities of leaves from 3 and of
inner nodes from 5 (`CapacityAssumption`, `BTreeAssumption`) and any sequence of calls:

| Theorem | Statement |
|---|---|
| `Invariant` | `OneThread => (Spec => []IInv)` |
| `NothingStrandedHolds` | `OneThread => (Spec => []NothingStranded)` |
| `AssertionsHoldHolds` | `OneThread => (Spec => []AssertionsHold)` |
| `SearchIsLowerBoundHolds` | `OneThread => (Spec => []SearchIsLowerBound)` |
| `ImplementsMapHolds` | `OneThread => (Spec => ImplementsMap)` |
| `NoPageStaysFixedHolds` | `Spec => []NoPageStaysFixed`, for any number of threads |

`OneThread` says that `Threads` has no more than one element. It cannot be left out: with two
threads the code does come to wrong leaves, which `BT_threads` shows, and two
threads that find the tree empty both make a root (section 8).

The invariant says which keys belong to each page: there is an assignment `own`
of sets of keys to pages, all keys to the root, such that every page is a node for
its keys (`NodeFor`), the children of an inner node own what it routes to them
(`ChildrenFor`), and two pages of one level own nothing in common (`Tree`). `own`
is a witness of the invariant, no variable: a split divides the keys of one page
at the separator, and nothing else changes. So the recursive structure of the tree
needs no induction: one page, its children and its level suffice, and the walk
for a key descends one level with each step. `NodeFor` includes the leftover key
behind the last valid one of an inner node, which the code reads in an assertion;
it must not equal the next separator. Where the thread stands is `Stands`: while
it descends, its key belongs to the page it is at, and an insert has room for a
separator in the page above (`Safe`), which is what the preemptive splits are for.
Between the split of a leaf and the insertion of its separator the last page is
not in the tree yet (`HasSplit`, the state "split").

`ImplementsMapHolds` follows from what each step does to what the leaves store
(`Stored`): splits nothing, an erase or insert one key. That the map is well
defined needs that no key is in two leaves (`Sound`), which the tree gives.
Binary search is a recursive function over parts of the keys; that it finds the
lower bound (`LowerBoundCuts`) is proved with a smallest counterexample.
`NoPageStaysFixedHolds` has an invariant of its own, `HeldInv`: which pages a
thread has fixed follows from where it is, whatever the others do.

### External sort

`ExternalSortProofs`, for all inputs of positive numbers, any number of values to
be sorted and any memory of three values or more (`SortAssumption`):

| Theorem | Statement |
|---|---|
| `Invariant` | `Spec => []IInv` |
| `OutputSortedHolds` | `Spec => []OutputSorted` |
| `RunsDescribeFileHolds` | `Spec => []RunsDescribeFile` |
| `MergeConservesHolds` | `Spec => []MergeConserves` |
| `AssertionsNeverFail` | `Spec => []AssertionsHold` |

`OutputSorted` speaks of the end only, so the invariant says for every point what
has been achieved: how much of the file is in sorted runs (`SortInv`), that a pass
with `it` pairs merged has runs of twice the size before that point and the old
ones behind it (`Runs`), and that the file holds what the input holds (`Agree`).
The hard part is inside a merge (`MergeInv`). The input buffer of a run is a window
into it, which `BufferOf` describes: where it begins follows from how many values
of the run are gone and from the position in the buffer, so that a load of any
size goes on where the last one ended, also when the last block is short and old
values stay behind it. `Written` says of the output buffer and the part of the
file before it together that they ascend, that no run has anything left that is
less, and that they hold every value as often as the positions given away do.
That is a count over a set of positions, so that one value moved is one position
more, and no induction over the input is needed; at the end all positions have
been given away. `RunsAfterPair` and the lemmas after it show that the sizes
which the code updates by hand, with the last three runs of an odd number merged
in two steps, are those of the runs which are then there.

### Slotted pages

`SPSegmentProofs`, for any sizes of pages, headers and slots, any sizes of records
that leave room for a slot and a TID on a page, and any number of pages, records
and calls (`PageAssumption`, `SegmentAssumption`):

| Theorem | Statement |
|---|---|
| `Invariant` | `Spec => []SegmentInv` |
| `InventoryIsSafeHolds` | `Spec => []InventoryIsSafe` |
| `PagesSoundHolds` | `Spec => []PagesSound` |
| `ReusesEmptySlotsHolds` | `Spec => []ReusesEmptySlots` |
| `OneRedirectHolds` | `Spec => []OneRedirect` |
| `RecordsKeptHolds` | `Spec => []RecordsKept` |
| `RedirectsElsewhereHolds` | `Spec => []RedirectsElsewhere` |

The properties need each other. A record keeps its bytes only if records do not
overlap; they do not only if a page has room when `allocate` or `relocate` takes
it, which `free_space` must tell exactly and the inventory must not overstate; a
page has the room in one piece after `compactify` only if the accounting was
right before; and a slot that is reused must be nobody's. `GoodEntry` has this
for one page and its entry, `GoodRecords` says how the records of the client are
found: each TID leads to one slot, over at most one redirect to another page,
different TIDs to different slots, and every slot with data is reached. The last
two are what makes it possible to erase one record and know that no other is
touched.

The proof goes up by levels, with a frame at each. `CompactifyShifts` is about one
page: after some turns of the loop the highest records are packed at the end, the
others are where they were, and no move overwrites bytes still to be moved. Every
method of a page keeps all slots but its own, and their bytes (`PageStep`); every
method of the segment all addresses but those of the record at hand
(`SegmentStep`). A redirect touches two or three pages; it is taken apart into the
steps of the code (erase the old target, allocate, redirect, fill), each with such
a frame (`LinkedKeeps`, `FreedKeeps`). `OthersKept` then carries all other records
over, and only the one at hand is looked at. That `resize` never redirects onto
the page of the slot needs no invariant of its own: the inventory would have to
promise the new size, a TID and a slot there, and `resize` goes elsewhere just
because the page has less.

The theorems hold up to the call in which an assertion fails, as the code does:
the model has those failures (`SEG_assert`), and nothing is said of a program
built without assertions.

### Operators

`OperatorsProofs`, for all plans that meet the hypothesis, and all tables:

| Theorem | Statement |
|---|---|
| `Invariant` | `AggregationsReadOnce => (Spec => []IInv)` |
| `NoIteratorOverrunHolds` | `AggregationsReadOnce => (Spec => []NoIteratorOverrun)` |

`AggregationsReadOnce` says that plans are trees, in which every operator has the
inputs it takes, and that no `HashAggregation` is among the objects that a `HashJoin`
builds from, at whatever depth: a join asks its left input again after it has ended
(`algebra.cc:306`), and what lies below is asked again with it. Such a plan does
move an end iterator (section 8), so the hypothesis cannot be left out. `MCOperators`
has TLC evaluate that the plans of `OPS` meet it.

`next()` of a `HashAggregation` is safe unless it is called again after it has
answered false, and whether it is depends on every operator above it. The
invariant names the objects that have ended: there is a set `ended`, a witness and
no variable, such that no object in it runs, and no object outside it that is not
asked again itself will ask one of them (`AskedOnce`). What an object will ask
follows from the input it is asking now, or begins with (`FirstInput`): that one
and those after it (`MayAsk`). So `Union` must remember that its left input has
ended (`seen_input`), `Sort` and `Except` must not ask once they have sorted or
counted, and a caller must stop at false. The object that has answered false a
moment ago belongs to `ended` already, while the object that asked it has not yet
looked at the answer (`Waiting`). The calls in progress are a path in the tree
(`Stack`), so that an object that returns is asked by nobody but the call behind it.
A call can return, go on with an input or call one: each is a lemma, and each
operator is shown to do one of these.

## 7. Only model-checked, and not modelled

Only model-checked:

- liveness (`EveryTransactionEnds`, `CallsReturn`, `SortReturns`, `PlanEnds`): the
  proof system has no backend for fairness and ENABLED.
- `SearchFindsCycles`, the search of the waits-for graph as written: recursion.
- what the operators compute (`ResultIsRight`, `SortedByAllCriteria`): it is defined
  by recursion over the plan and over its tables, which is induction over data.
- the violations (`LM_leak`, `BM_livelock`, `SEG_assert`, `BT_threads`), which are
  counterexamples. Of several threads in the B+-tree nothing is proved but that
  no page stays fixed.

Not modelled: expressions and JIT (no state), schema and database (formatting
and I/O over the segment that is modelled), tools and benchmarks, file errors
(`errno`), `WaitsForGraph::save` (drawing), the in-memory buffer manager of the
B+-tree and the one of the segments (maps without latches or eviction; the model
of the tree uses the latches that its comments speak of), and the disk manager,
which nothing in the build calls (section 8 has what was seen of it).
Byte layouts are abstracted, except in slotted pages, where properties are about
them.

Abstractions to keep in mind. C++ undefined behaviour of containers (an iterator
kept over a rehash, `buffer_manager.cc:135`) is not represented. Vectors whose
order nothing depends on are sets. The B+-tree moves entries, not bytes: its
`memmove` of children counts `sizeof(ValueT)` (`btree.h:163,186`), which is right
for values of eight bytes only.

## 8. Observations that no run states

Found while modelling, each visible in the model or in the code:

- `lock_manager.cc:204`: edges of a wait that is over stay in the graph until the
  transaction ends, and `lock_manager.cc:21` removes a transaction from the graph
  before it leaves `owners`: both lead to a `DeadLockError` without a deadlock.
- `slotted_page.cc:156`: after slots are erased out of order, `first_free_slot` may
  exceed `slot_count`, since `slotted_page.cc:40` has no break; the next `allocate` on
  the page fails in its assertion (`slotted_page.cc:33`). Records of one byte on one
  page show it after about ten calls. It is one of the failures that `AssertionsHold`
  is about; `SEG_assert` stops at a shorter one.
- `sp_segment.cc:368`: `resize` gives up the page of an old target for lack of room
  and erases the target, which also gives back the empty slots before it at the end of
  the directory. With two or more of them the nested `allocate` may find the same page,
  against the assertion at line 380 ("Should allocate in another page having enough
  space."). About eight calls lead there; `AssertionsHold` is about it as well.
- `sp_segment.cc:351`: a record that is resized inside its redirect target
  becomes unreadable (`spoiled` in `SPSegment`).
- `btree.h:571`: the root is created without synchronisation; two threads that
  find an empty tree both create one. `ArrivesAtItsLeaf` does not ask for the
  leaves of the tree that is lost, so that `BT_threads` shows what follows from
  `btree.h:510` alone: the parent is unfixed before it is returned, though the
  comment at line 342 says both pages are fixed. `btree.h:622` unfixes it again.
- `2Q_replacer.cc:13`: `Victim` asserts that a frame was unpinned before, where
  `2Q_replacer.h:34` has it return false. `2Q_replacer.h:80` places pinned hot
  frames in the FIFO list; they are in the LRU list.
- `disk_manager.cc:37`: `ReadPage` compares the size of the file before it takes
  `file_latch_`. Of two threads that read behind the end, the second may resize
  the file to less than the first has just made of it, and the assertion after it
  (line 48) fails in the first.
- `database.cc`, `schema_segment.cc`: a schema segment that was never written
  cannot be loaded, and `segment.h:50` asks to track the number of slotted pages
  on disk, which `allocate` leaves to the next write of the schema.
- `external_sort.cc:405`: the first load may read past the end of the file, which
  `file.h:33` forbids. `external_sort.cc:177`: the copy of a merged pair uses
  more memory than `mem_size`, as the comment there says.
- `algebra.cc:166`: `Projection` gives the first attributes instead of the chosen
  ones. `algebra.cc:324`: `HashJoin` joins one match per probe. `algebra.cc:306`:
  `ht_build` is never set, so the left input is asked again after its end; if it
  is a `HashAggregation`, `algebra.cc:410` moves an end iterator. The plans of
  `OPS` project prefixes only and have no aggregation left of a join, and
  `ResultIsRight` asks for unique left keys.
