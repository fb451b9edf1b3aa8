----------------------------- MODULE LockManager -----------------------------
(***************************************************************************)
(* The strict two-phase lock manager of task-lock-manager: transactions on *)
(* their own threads lock data items through a hash table of chains of     *)
(* Lock objects, wait on the shared_mutex of a Lock, detect deadlocks with *)
(* a waits-for graph, and release everything in ~Transaction.              *)
(*                                                                         *)
(* A step of this module is a maximal section under one latch.             *)
(*   - A chain latch is held exactly at "walk" and "promote", a metadata   *)
(*     latch exactly at "refused": the scoped guards of the code make the  *)
(*     holder a function of the program counters, so no latch variable is  *)
(*     needed (ChainLatchFree, MetadataLatchFree).                         *)
(*   - Vectors whose order no step depends on (owners, waiters, locks) and *)
(*     the linked list of a chain are sets.                                *)
(*   - A Transaction is named by its address.  When AddressReuse holds, a  *)
(*     later transaction may live at the address of an ended one, as the   *)
(*     stack slot in the tests' loops does.                                *)
(***************************************************************************)
EXTENDS WaitsForGraph

CONSTANTS
    Items,         \* the data items
    Modes,         \* the modes clients ask for, out of Shared and Exclusive
    Buckets,       \* the buckets of the hash table
    hash,          \* the bucket of each item
    Locks,         \* the addresses at which Lock objects live
    AddressReuse,  \* may a transaction live at the address of an ended one?
    NoLock,        \* the null Lock pointer
    NoItem         \* the item of a Lock address that holds no object

LockModes == {"Shared", "Exclusive"}

ASSUME ConstantsAssumption ==
    /\ Modes \subseteq LockModes
    /\ hash \in [Items -> Buckets]
    /\ AddressReuse \in BOOLEAN
    /\ NoLock \notin Locks
    /\ NoItem \notin Items

VARIABLES
    pc,     \* pc[t]: where the thread of t is
    want,   \* want[t]: the item and mode of the running acquireLock
    todo,   \* todo[t]: the part of the chain the walk has still to visit
    lock,   \* lock[t]: the local variable lock of acquireLock and ~Transaction
    locks,  \* locks[t]: Transaction::locks, the shared_ptrs a transaction keeps
    chain,  \* chain[b]: the Lock objects linked in bucket b
    heap,   \* heap[l]: the Lock object at address l
    graph   \* the waits-for graph

vars == <<pc, want, todo, lock, locks, chain, heap, graph>>

PCs == {"none",       \* no transaction at this address
        "running",    \* in client code
        "walk",       \* in the chain, at the top of the loop
        "promote",    \* in the chain, found the item, about to take a shared_ptr
        "request",    \* has a shared_ptr, about to take the metadata latch
        "refused",    \* try_lock failed, holds the metadata latch
        "blocked",    \* in lock->lock.lock() or lock_shared()
        "awake",      \* owns the shared_mutex, about to take the metadata latch
        "aborted",    \* DeadLockError thrown, before ~Transaction
        "releasing",  \* in the loop of ~Transaction, or destroying its members
        "unlocking",  \* in that loop, no longer an owner, before the unlock
        "ended"}      \* destroyed, and the address is not used again

Requests == [item : Items, mode : Modes]

NoRequest == [item |-> NoItem, mode |-> "Unlocked"]

(***************************************************************************)
(* A Lock object.  The shared_mutex `lock` of the code is the fields       *)
(* writers and readers, which record who holds it, and orphan: the mode in *)
(* which it is held by a transaction that has dropped its pointer without  *)
(* unlocking it ("Unlocked" when there is none).                           *)
(***************************************************************************)
LockRecords ==
    [item      : Items \cup {NoItem},
     writers   : SUBSET Txns,
     readers   : SUBSET Txns,
     orphan    : LockModes \cup {"Unlocked"},
     owners    : SUBSET Txns,
     waiters   : SUBSET Txns,
     ownership : LockModes \cup {"Unlocked"}]

(* Mutant of NewLock: the lock mode is not initialised. *)
UninitialisedLock(i) ==
    [item |-> i, writers |-> {}, readers |-> {}, orphan |-> "Unlocked",
     owners |-> {}, waiters |-> {}, ownership |-> "Undefined"]

NewLock(i) ==
    [item |-> i, writers |-> {}, readers |-> {}, orphan |-> "Unlocked",
     owners |-> {}, waiters |-> {}, ownership |-> "Unlocked"]

Freed == NewLock(NoItem)

Holders(l) == heap[l].writers \cup heap[l].readers

(* A shared_ptr of t keeps the Lock at l from expiring. *)
HasRef(t, l) == l \in locks[t] \/ (lock[t] = l /\ pc[t] # "promote")

(* Mutant of Expired: a lock without owners counts as dead. *)
WithoutOwners(l) == heap[l].owners = {}

Expired(l) == \A t \in Txns : ~HasRef(t, l)

MyChain(t) == chain[hash[want[t].item]]

(* Mutant of ChainLatchFree: the latch is given up when the item is found. *)
LatchFreeOnceFound(b) ==
    \A t \in Txns : pc[t] = "walk" => hash[want[t].item] # b

ChainLatchFree(b) ==
    \A t \in Txns : pc[t] \in {"walk", "promote"} => hash[want[t].item] # b

MetadataLatchFree(l) == \A t \in Txns : pc[t] = "refused" => lock[t] # l

(* Mutants of Available: blind for readers, and blind for a writer. *)
AvailableDespiteReaders(l, mode) ==
    heap[l].writers = {} /\ heap[l].orphan # "Exclusive"

AvailableDespiteWriter(l, mode) ==
    mode = "Exclusive" =>
        heap[l].writers = {} /\ heap[l].readers = {} /\ heap[l].orphan = "Unlocked"

(* Would try_lock() or try_lock_shared() of the shared_mutex succeed? *)
Available(l, mode) ==
    /\ heap[l].writers = {}
    /\ heap[l].orphan # "Exclusive"
    /\ mode = "Exclusive" => heap[l].readers = {} /\ heap[l].orphan = "Unlocked"

Init ==
    /\ pc = [t \in Txns |-> "none"]
    /\ want = [t \in Txns |-> NoRequest]
    /\ todo = [t \in Txns |-> {}]
    /\ lock = [t \in Txns |-> NoLock]
    /\ locks = [t \in Txns |-> {}]
    /\ chain = [b \in Buckets |-> {}]
    /\ heap = [l \in Locks |-> Freed]
    /\ graph = EmptyGraph

(* A transaction is constructed. *)
Begin(t) ==
    /\ pc[t] = "none"
    /\ pc' = [pc EXCEPT ![t] = "running"]
    /\ UNCHANGED <<want, todo, lock, locks, chain, heap, graph>>

(***************************************************************************)
(* addLock enters acquireLock and takes the chain latch.  Clients lock an  *)
(* item at most once in a transaction, as every test does (alreadyLocked): *)
(* a second lock() of a shared_mutex by its owner is undefined.            *)
(***************************************************************************)
AddLock(t, i, mode) ==
    /\ pc[t] = "running"
    /\ \A l \in locks[t] : heap[l].item # i
    /\ ChainLatchFree(hash[i])
    /\ pc' = [pc EXCEPT ![t] = "walk"]
    /\ want' = [want EXCEPT ![t] = [item |-> i, mode |-> mode]]
    /\ todo' = [todo EXCEPT ![t] = chain[hash[i]]]
    /\ UNCHANGED <<lock, locks, chain, heap, graph>>

(* delete expired_lock: unlinked from the chain and freed. *)
Delete(t, l) ==
    /\ chain' = [chain EXCEPT ![hash[want[t].item]] = @ \ {l}]
    /\ heap' = [heap EXCEPT ![l] = Freed]

(* The walk frees the expired locks it meets, whatever their item. *)
DeleteExpired(t, l) ==
    /\ pc[t] = "walk"
    /\ l \in todo[t]
    /\ Expired(l)
    /\ Delete(t, l)
    /\ todo' = [todo EXCEPT ![t] = @ \ {l}]
    /\ UNCHANGED <<pc, want, lock, locks, graph>>

(* The walk goes past a live lock of another item. *)
Skip(t, l) ==
    /\ pc[t] = "walk"
    /\ l \in todo[t]
    /\ ~Expired(l)
    /\ heap[l].item # want[t].item
    /\ todo' = [todo EXCEPT ![t] = @ \ {l}]
    /\ UNCHANGED <<pc, want, lock, locks, chain, heap, graph>>

(* The walk meets the lock of the item; so far lock[t] is a raw pointer. *)
Find(t, l) ==
    /\ pc[t] = "walk"
    /\ l \in todo[t]
    /\ ~Expired(l)
    /\ heap[l].item = want[t].item
    /\ pc' = [pc EXCEPT ![t] = "promote"]
    /\ lock' = [lock EXCEPT ![t] = l]
    /\ todo' = [todo EXCEPT ![t] = {}]
    /\ UNCHANGED <<want, locks, chain, heap, graph>>

(* weak_from_this().lock() succeeds: a shared_ptr, and the latch is given up. *)
Promote(t) ==
    /\ pc[t] = "promote"
    /\ ~Expired(lock[t])
    /\ pc' = [pc EXCEPT ![t] = "request"]
    /\ UNCHANGED <<want, todo, lock, locks, chain, heap, graph>>

(* The lock has expired since Find: it is freed and the walk gives up. *)
PromoteFails(t) ==
    /\ pc[t] = "promote"
    /\ Expired(lock[t])
    /\ Delete(t, lock[t])
    /\ pc' = [pc EXCEPT ![t] = "walk"]
    /\ lock' = [lock EXCEPT ![t] = NoLock]
    /\ UNCHANGED <<want, todo, locks, graph>>

(* No lock of the item: a new one goes into the chain, the latch is given up. *)
Construct(t, l) ==
    /\ pc[t] = "walk"
    /\ todo[t] = {}
    /\ heap[l].item = NoItem
    /\ heap' = [heap EXCEPT ![l] = NewLock(want[t].item)]
    /\ chain' = [chain EXCEPT ![hash[want[t].item]] = @ \cup {l}]
    /\ lock' = [lock EXCEPT ![t] = l]
    /\ pc' = [pc EXCEPT ![t] = "request"]
    /\ UNCHANGED <<want, todo, locks, graph>>

(* Mutant of Owned: the lock mode is not updated. *)
OwnedSilently(rec, t) == [rec EXCEPT !.owners = @ \cup {t}, !.waiters = @ \ {t}]

(***************************************************************************)
(* The end of acquireLock, under the metadata latch, once t owns the       *)
(* shared_mutex of l: ownership, owners, addWaiters.  On return addLock    *)
(* keeps the shared_ptr.  When addWaiters throws, the shared_ptr is gone   *)
(* but the shared_mutex stays locked and t stays among the owners.         *)
(***************************************************************************)
Owned(rec, t) == [rec EXCEPT !.ownership = want[t].mode,
                             !.owners = @ \cup {t},
                             !.waiters = @ \ {t}]

Acquired(rec, t) == IF want[t].mode = "Shared"
                    THEN [rec EXCEPT !.readers = @ \cup {t}]
                    ELSE [rec EXCEPT !.writers = @ \cup {t}]

Orphaned(rec, t) == [rec EXCEPT !.readers = @ \ {t},
                                !.writers = @ \ {t},
                                !.orphan = want[t].mode]

BecomeOwner(t, rec) ==
    LET l == lock[t]
        throws == AddWaitersThrows(graph, t, rec.waiters \ {t})
    IN  /\ graph' = AddWaiters(graph, t, rec.waiters \ {t})
        /\ heap' = [heap EXCEPT ![l] = IF throws THEN Orphaned(Owned(rec, t), t)
                                                 ELSE Owned(rec, t)]
        /\ locks' = [locks EXCEPT ![t] = IF throws THEN @ ELSE @ \cup {l}]
        /\ pc' = [pc EXCEPT ![t] = IF throws THEN "aborted" ELSE "running"]
        /\ lock' = [lock EXCEPT ![t] = NoLock]
        /\ want' = [want EXCEPT ![t] = NoRequest]
        /\ UNCHANGED <<todo, chain>>

(* try_lock succeeds.  t is not yet among the waiters. *)
TryLock(t) ==
    /\ pc[t] = "request"
    /\ MetadataLatchFree(lock[t])
    /\ Available(lock[t], want[t].mode)
    /\ BecomeOwner(t, Acquired(heap[lock[t]], t))

(* try_lock fails; the metadata latch stays taken. *)
TryLockFails(t) ==
    /\ pc[t] = "request"
    /\ MetadataLatchFree(lock[t])
    /\ ~Available(lock[t], want[t].mode)
    /\ pc' = [pc EXCEPT ![t] = "refused"]
    /\ UNCHANGED <<want, todo, lock, locks, chain, heap, graph>>

(* addWaitsFor finds no cycle: t becomes a waiter and gives up the latch. *)
WaitFor(t) ==
    /\ pc[t] = "refused"
    /\ ~AddWaitsForThrows(graph, t, heap[lock[t]].owners)
    /\ graph' = AddWaitsFor(graph, t, heap[lock[t]].owners)
    /\ heap' = [heap EXCEPT ![lock[t]].waiters = @ \cup {t}]
    /\ pc' = [pc EXCEPT ![t] = "blocked"]
    /\ UNCHANGED <<want, todo, lock, locks, chain>>

(* addWaitsFor throws DeadLockError out of acquireLock. *)
WaitForThrows(t) ==
    /\ pc[t] = "refused"
    /\ AddWaitsForThrows(graph, t, heap[lock[t]].owners)
    /\ graph' = AddWaitsFor(graph, t, heap[lock[t]].owners)
    /\ pc' = [pc EXCEPT ![t] = "aborted"]
    /\ lock' = [lock EXCEPT ![t] = NoLock]
    /\ want' = [want EXCEPT ![t] = NoRequest]
    /\ UNCHANGED <<todo, locks, chain, heap>>

(* lock->lock.lock() or lock_shared() returns. *)
WakeUp(t) ==
    /\ pc[t] = "blocked"
    /\ Available(lock[t], want[t].mode)
    /\ heap' = [heap EXCEPT ![lock[t]] = Acquired(@, t)]
    /\ pc' = [pc EXCEPT ![t] = "awake"]
    /\ UNCHANGED <<want, todo, lock, locks, chain, graph>>

(* After a wait: no longer a waiter, then as for a lock got at once. *)
Register(t) ==
    /\ pc[t] = "awake"
    /\ MetadataLatchFree(lock[t])
    /\ BecomeOwner(t, heap[lock[t]])

(* ~Transaction, at the end of the scope or on an exception: out of the graph. *)
End(t) ==
    /\ pc[t] \in {"running", "aborted"}
    /\ graph' = RemoveTransaction(graph, t)
    /\ pc' = [pc EXCEPT ![t] = "releasing"]
    /\ UNCHANGED <<want, todo, lock, locks, chain, heap>>

(* The loop of ~Transaction, for the next lock: out of its owners. *)
RemoveOwner(t, l) ==
    /\ pc[t] = "releasing"
    /\ l \in locks[t]
    /\ t \in Holders(l)
    /\ MetadataLatchFree(l)
    /\ heap' = [heap EXCEPT ![l].owners = @ \ {t}]
    /\ lock' = [lock EXCEPT ![t] = l]
    /\ pc' = [pc EXCEPT ![t] = "unlocking"]
    /\ UNCHANGED <<want, todo, locks, chain, graph>>

(* The unlock trusts lock->ownership, read without the metadata latch. *)
Released(rec, t) == IF rec.ownership = "Shared"
                    THEN [rec EXCEPT !.readers = @ \ {t}]
                    ELSE [rec EXCEPT !.writers = @ \ {t}]

Unlock(t) ==
    /\ pc[t] = "unlocking"
    /\ heap' = [heap EXCEPT ![lock[t]] = Released(@, t)]
    /\ lock' = [lock EXCEPT ![t] = NoLock]
    /\ pc' = [pc EXCEPT ![t] = "releasing"]
    /\ UNCHANGED <<want, todo, locks, chain, graph>>

(* After the loop the vector of shared_ptrs is destroyed, one at a time. *)
DropRef(t, l) ==
    /\ pc[t] = "releasing"
    /\ \A k \in locks[t] : t \notin Holders(k)
    /\ l \in locks[t]
    /\ locks' = [locks EXCEPT ![t] = @ \ {l}]
    /\ UNCHANGED <<pc, want, todo, lock, chain, heap, graph>>

(* The Transaction object is gone. *)
Ended(t) ==
    /\ pc[t] = "releasing"
    /\ locks[t] = {}
    /\ pc' = [pc EXCEPT ![t] = IF AddressReuse THEN "none" ELSE "ended"]
    /\ UNCHANGED <<want, todo, lock, locks, chain, heap, graph>>

(* What the thread of t does inside the lock manager. *)
Work(t) ==
    \/ \E l \in Locks : \/ DeleteExpired(t, l) \/ Skip(t, l) \/ Find(t, l)
                        \/ Construct(t, l)
                        \/ RemoveOwner(t, l) \/ DropRef(t, l)
    \/ Promote(t) \/ PromoteFails(t)
    \/ TryLock(t) \/ TryLockFails(t)
    \/ WaitFor(t) \/ WaitForThrows(t)
    \/ WakeUp(t) \/ Register(t)
    \/ Unlock(t) \/ Ended(t)

(* What its client decides. *)
Client(t) ==
    \/ Begin(t)
    \/ \E i \in Items, mode \in Modes : AddLock(t, i, mode)
    \/ End(t)

AllEnded == \A t \in Txns : pc[t] = "ended"

Next ==
    \/ \E t \in Txns : Work(t) \/ Client(t)
    \/ AllEnded /\ UNCHANGED vars

Spec == Init /\ [][Next]_vars

(***************************************************************************)
(* A thread inside the lock manager keeps running, and so does its client: *)
(* every transaction reaches the end of its scope.  What a client asks for *)
(* before that is its own choice.                                          *)
(***************************************************************************)
FairSpec == Spec /\ \A t \in Txns : WF_vars(Work(t)) /\ WF_vars(End(t))

------------------------------------------------------------------------------

(* getLockMode, which takes only the chain latch. *)
GetLockMode(i) ==
    LET found == {l \in chain[hash[i]] : heap[l].item = i}
    IN  IF \E l \in found : ~Expired(l)
        THEN heap[CHOOSE l \in found : ~Expired(l)].ownership
        ELSE "Unlocked"

(* t is in the middle of ~Transaction. *)
Leaving(t) == pc[t] \in {"releasing", "unlocking"}

ModeOf(t, l) == IF t \in heap[l].writers THEN "Exclusive" ELSE "Shared"

(* The items t has locked, with their modes: granted and not yet unlocked. *)
Granted(t) ==
    {[item |-> heap[l].item, mode |-> ModeOf(t, l)] :
        l \in {k \in locks[t] : t \in Holders(k)}}

------------------------------------------------------------------------------

TypeOK ==
    /\ pc \in [Txns -> PCs]
    /\ want \in [Txns -> Requests \cup {NoRequest}]
    /\ todo \in [Txns -> SUBSET Locks]
    /\ lock \in [Txns -> Locks \cup {NoLock}]
    /\ locks \in [Txns -> SUBSET Locks]
    /\ chain \in [Buckets -> SUBSET Locks]
    /\ heap \in [Locks -> LockRecords]
    /\ graph \in Graphs

(***************************************************************************)
(* Two transactions never hold locks of the same item of which one is      *)
(* exclusive, not even through two different Lock objects: the lazy        *)
(* deletion of expired locks (lock_manager.cc:147-165) must never free or  *)
(* replace a Lock that somebody still uses.                                *)
(***************************************************************************)
MutualExclusion ==
    \A t, u \in Txns :
        t # u => \A g \in Granted(t), h \in Granted(u) :
                    g.item = h.item => g.mode = "Shared" /\ h.mode = "Shared"

(***************************************************************************)
(* Every pointer a thread holds is to an object that is still in the chain *)
(* of its item, and a chain has at most one object of an item: the chain   *)
(* walk (lock_manager.cc:143-179) frees nothing that is referenced and     *)
(* constructs no second lock.                                              *)
(***************************************************************************)
ChainIntegrity ==
    /\ \A t \in Txns, l \in Locks :
           HasRef(t, l) => /\ heap[l].item \in Items
                           /\ l \in chain[hash[heap[l].item]]
    /\ \A b \in Buckets : \A k, l \in chain[b] :
           /\ heap[l].item \in Items
           /\ hash[heap[l].item] = b
           /\ heap[k].item = heap[l].item => k = l

(***************************************************************************)
(* lock->ownership, which ~Transaction reads without a latch to choose     *)
(* between unlock_shared and unlock (lock_manager.cc:29) and getLockMode   *)
(* reports, is the mode of whoever has been granted the lock.              *)
(***************************************************************************)
OwnershipTruthful ==
    \A t \in Txns : \A g \in Granted(t) : GetLockMode(g.item) = g.mode

(***************************************************************************)
(* No cycle of the waits-for graph survives without a transaction that has *)
(* been thrown a DeadLockError and is about to leave: every edge that      *)
(* closes one is caught by the search of that call                         *)
(* (lock_manager.cc:79-89,104-111), although the search starts from the    *)
(* owners only and addWaiters leaves its edges in place when it throws.    *)
(***************************************************************************)
CyclesAreCaught == AcyclicOn(graph, {t \in Txns : pc[t] # "aborted"})

(* The registered owners that keep t from getting lock[t]. *)
Blockers(t) ==
    heap[lock[t]].writers
        \cup (IF want[t].mode = "Exclusive" THEN heap[lock[t]].readers ELSE {})

(***************************************************************************)
(* No set of transactions waits for each other for good: the graph has all *)
(* the edges a deadlock needs, whatever the order in which owners register *)
(* and waiters queue up (lock_manager.cc:183-213).                         *)
(***************************************************************************)
NoUndetectedDeadlock ==
    ~ \E D \in SUBSET {t \in Txns : pc[t] = "blocked"} :
        /\ D # {}
        /\ \A t \in D : Blockers(t) \cap D # {}

(***************************************************************************)
(* "Strict 2Pl, only releases the locks, when txn ends" (lock_manager.h:52)*)
(* and it releases them then: no lock is held by nobody.                   *)
(***************************************************************************)
NoLeakedLock == \A l \in Locks : heap[l].orphan = "Unlocked"

(***************************************************************************)
(* Every transaction that asks for a lock gets an answer and ends: the     *)
(* lock, or a DeadLockError that breaks the deadlock.                      *)
(***************************************************************************)
EveryTransactionEnds == \A t \in Txns : pc[t] = "running" ~> pc[t] = "ended"

(***************************************************************************)
(* The lock manager implements the lock table: a lock counts as granted    *)
(* from the return of acquireLock to its unlock in ~Transaction.  Blocked  *)
(* and aborted requests, orphaned mutexes and the life of Lock objects are *)
(* invisible there.                                                        *)
(***************************************************************************)
PhaseOf(t) ==
    IF pc[t] \in {"none", "ended"} THEN "out"
    ELSE IF Leaving(t) THEN "shrinking" ELSE "growing"

Table == INSTANCE LockTable
            WITH granted <- [t \in Txns |-> Granted(t)],
                 phase <- [t \in Txns |-> PhaseOf(t)]

ImplementsLockTable == Table!TableSpec
==============================================================================
