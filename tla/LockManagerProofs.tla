-------------------------- MODULE LockManagerProofs --------------------------
(***************************************************************************)
(* Theorems about the lock manager.  Every step preserves each part of the *)
(* inductive invariant (LockManagerInv): one lemma a part, one case an     *)
(* action; from it follow the safety properties, and that the lock manager *)
(* implements the lock table.  For any numbers of transactions, items,     *)
(* buckets and Lock addresses, and with address reuse or without.          *)
(***************************************************************************)
EXTENDS LockManagerInv, TLAPS

USE DEF LockModes, PCs

(***************************************************************************)
(* The graph methods keep a graph a graph.                                 *)
(***************************************************************************)
LEMMA GraphMethodsType ==
    ASSUME NEW g \in Graphs, NEW t \in Txns, NEW S \in SUBSET Txns
    PROVE  /\ AddWaitsFor(g, t, S) \in Graphs
           /\ AddWaiters(g, t, S) \in Graphs
           /\ RemoveTransaction(g, t) \in Graphs
  BY DEF Graphs, AddWaitsFor, WithWaitsFor, AddWaiters, RemoveTransaction

(* A set field of a Lock object takes any set of transactions. *)
LEMMA FieldUpdatesType ==
    ASSUME NEW rec \in LockRecords, NEW S \in SUBSET Txns
    PROVE  /\ [rec EXCEPT !.writers = S] \in LockRecords
           /\ [rec EXCEPT !.readers = S] \in LockRecords
           /\ [rec EXCEPT !.owners = S] \in LockRecords
           /\ [rec EXCEPT !.waiters = S] \in LockRecords
  BY DEF LockRecords

(* And what is in a set field is one. *)
LEMMA FieldsType ==
    ASSUME NEW rec \in LockRecords
    PROVE  /\ rec.writers \in SUBSET Txns
           /\ rec.readers \in SUBSET Txns
           /\ rec.owners \in SUBSET Txns
           /\ rec.waiters \in SUBSET Txns
  BY DEF LockRecords

(* The four updates of a Lock object keep it one. *)
LEMMA LockUpdatesType ==
    ASSUME NEW rec \in LockRecords, NEW t \in Txns
    PROVE  /\ Released(rec, t) \in LockRecords
           /\ ConstantsAssumption /\ want[t] \in Requests =>
                 /\ Owned(rec, t) \in LockRecords
                 /\ Acquired(rec, t) \in LockRecords
                 /\ Orphaned(rec, t) \in LockRecords
  <1>1. Released(rec, t) \in LockRecords
    BY FieldUpdatesType, FieldsType DEF Released
  <1>2. ASSUME ConstantsAssumption, want[t] \in Requests
        PROVE  want[t].mode \in LockModes
    BY <1>2 DEF Requests, ConstantsAssumption
  <1>3. QED
    BY <1>1, <1>2 DEF Owned, Acquired, Orphaned, LockRecords

(* A lock just made by acquireLock is a lock record. *)
LEMMA NewLockType ==
    ASSUME NEW i \in Items \cup {NoItem}
    PROVE  NewLock(i) \in LockRecords
  BY DEF NewLock, LockRecords

(* Entering a transaction as owner of its lock preserves the types. *)
LEMMA BecomeOwnerType ==
    ASSUME TypeOK, NEW t \in Txns, lock[t] \in Locks, want[t] \in Requests,
           NEW rec \in LockRecords, BecomeOwner(t, rec), ConstantsAssumption
    PROVE  TypeOK'
  <1>1. rec.waiters \ {t} \in SUBSET Txns
    BY DEF LockRecords
  <1>2. graph' \in Graphs
    BY <1>1, GraphMethodsType DEF BecomeOwner, TypeOK
  <1>3. /\ Owned(rec, t) \in LockRecords
        /\ Orphaned(Owned(rec, t), t) \in LockRecords
    BY LockUpdatesType
  <1>4. heap' \in [Locks -> LockRecords]
    BY <1>3 DEF BecomeOwner, TypeOK
  <1>5. QED
    BY <1>2, <1>4 DEF BecomeOwner, TypeOK

(***************************************************************************)
(* Type correctness is preserved.                                          *)
(***************************************************************************)
LEMMA TypeStep ==
    ASSUME TypeOK, LocalsInv, ConstantsAssumption, Next
    PROVE  TypeOK'
  <1> USE DEF TypeOK
  <1>1. ASSUME NEW t \in Txns, Begin(t) PROVE TypeOK'
    BY <1>1 DEF Begin
  <1>2. ASSUME NEW t \in Txns, NEW i \in Items, NEW mode \in Modes, AddLock(t, i, mode)
        PROVE TypeOK'
    BY <1>2 DEF AddLock, Requests, ConstantsAssumption
  <1>3. ASSUME NEW t \in Txns, NEW l \in Locks, DeleteExpired(t, l) PROVE TypeOK'
    BY <1>3, NewLockType DEF DeleteExpired, Delete, Freed
  <1>4. ASSUME NEW t \in Txns, NEW l \in Locks, Skip(t, l) PROVE TypeOK'
    BY <1>4 DEF Skip
  <1>5. ASSUME NEW t \in Txns, NEW l \in Locks, Find(t, l) PROVE TypeOK'
    BY <1>5 DEF Find
  <1>6. ASSUME NEW t \in Txns, NEW l \in Locks, Construct(t, l) PROVE TypeOK'
    <2>1. want[t].item \in Items
      BY <1>6 DEF Construct, LocalsInv, Asking, InChain, Requests
    <2>2. QED
      BY <1>6, <2>1, NewLockType DEF Construct
  <1>7. ASSUME NEW t \in Txns, Promote(t) PROVE TypeOK'
    BY <1>7 DEF Promote
  <1>8. ASSUME NEW t \in Txns, PromoteFails(t) PROVE TypeOK'
    BY <1>8, NewLockType DEF PromoteFails, Delete, Freed
  <1>9. ASSUME NEW t \in Txns, TryLock(t) PROVE TypeOK'
    <2>1. lock[t] \in Locks /\ want[t] \in Requests
      BY <1>9 DEF TryLock, LocalsInv, Asking, HasLock
    <2>2. Acquired(heap[lock[t]], t) \in LockRecords
      BY <2>1, LockUpdatesType
    <2>3. QED
      BY <1>9, <2>1, <2>2, BecomeOwnerType DEF TryLock
  <1>10. ASSUME NEW t \in Txns, TryLockFails(t) PROVE TypeOK'
    BY <1>10 DEF TryLockFails
  <1>11. ASSUME NEW t \in Txns, WaitFor(t) PROVE TypeOK'
    <2>1. lock[t] \in Locks
      BY <1>11 DEF WaitFor, LocalsInv, HasLock
    <2>2. heap[lock[t]].owners \in SUBSET Txns
      BY <2>1 DEF LockRecords
    <2>3. graph' \in Graphs
      BY <1>11, <2>2, GraphMethodsType DEF WaitFor
    <2>4. heap' \in [Locks -> LockRecords]
      <3> DEFINE rec == heap[lock[t]]
      <3>1. rec \in LockRecords /\ rec.waiters \cup {t} \in SUBSET Txns
        BY <2>1, FieldsType
      <3>2. [rec EXCEPT !.waiters = rec.waiters \cup {t}] \in LockRecords
        BY <3>1, FieldUpdatesType
      <3>3. QED
        BY <1>11, <2>1, <3>2 DEF WaitFor
    <2>5. QED
      BY <1>11, <2>3, <2>4 DEF WaitFor
  <1>12. ASSUME NEW t \in Txns, WaitForThrows(t) PROVE TypeOK'
    <2>1. lock[t] \in Locks
      BY <1>12 DEF WaitForThrows, LocalsInv, HasLock
    <2>2. heap[lock[t]].owners \in SUBSET Txns
      BY <2>1 DEF LockRecords
    <2>3. graph' \in Graphs
      BY <1>12, <2>2, GraphMethodsType DEF WaitForThrows
    <2>4. QED
      BY <1>12, <2>3 DEF WaitForThrows
  <1>13. ASSUME NEW t \in Txns, WakeUp(t) PROVE TypeOK'
    <2>1. lock[t] \in Locks /\ want[t] \in Requests
      BY <1>13 DEF WakeUp, LocalsInv, Asking, HasLock
    <2>2. Acquired(heap[lock[t]], t) \in LockRecords
      BY <2>1, LockUpdatesType
    <2>3. QED
      BY <1>13, <2>1, <2>2 DEF WakeUp
  <1>14. ASSUME NEW t \in Txns, Register(t) PROVE TypeOK'
    <2>1. lock[t] \in Locks /\ want[t] \in Requests
      BY <1>14 DEF Register, LocalsInv, Asking, HasLock
    <2>2. QED
      BY <1>14, <2>1, BecomeOwnerType DEF Register
  <1>15. ASSUME NEW t \in Txns, End(t) PROVE TypeOK'
    BY <1>15, GraphMethodsType DEF End
  <1>16. ASSUME NEW t \in Txns, NEW l \in Locks, RemoveOwner(t, l) PROVE TypeOK'
    <2> DEFINE rec == heap[l]
    <2>1. rec \in LockRecords /\ rec.owners \ {t} \in SUBSET Txns
      BY FieldsType
    <2>2. [rec EXCEPT !.owners = rec.owners \ {t}] \in LockRecords
      BY <2>1, FieldUpdatesType
    <2>3. QED
      BY <1>16, <2>2 DEF RemoveOwner
  <1>17. ASSUME NEW t \in Txns, Unlock(t) PROVE TypeOK'
    <2>1. lock[t] \in Locks
      BY <1>17 DEF Unlock, LocalsInv
    <2>2. Released(heap[lock[t]], t) \in LockRecords
      BY <2>1, LockUpdatesType
    <2>3. QED
      BY <1>17, <2>1, <2>2 DEF Unlock
  <1>18. ASSUME NEW t \in Txns, NEW l \in Locks, DropRef(t, l) PROVE TypeOK'
    BY <1>18 DEF DropRef
  <1>19. ASSUME NEW t \in Txns, Ended(t) PROVE TypeOK'
    BY <1>19 DEF Ended
  <1>20. CASE UNCHANGED vars
    BY <1>20 DEF vars
  <1> QED
    BY <1>1, <1>2, <1>3, <1>4, <1>5, <1>6, <1>7, <1>8, <1>9, <1>10, <1>11, <1>12,
       <1>13, <1>14, <1>15, <1>16, <1>17, <1>18, <1>19, <1>20
    DEF Next, Work, Client

(* The local variables of a thread fit the place it is at. *)
LEMMA LocalsStep ==
    ASSUME TypeOK, LocalsInv, ConstantsAssumption, Next
    PROVE  LocalsInv'
  <1> USE DEF TypeOK, LocalsInv, Asking, InChain, HasLock
  <1>1. ASSUME NEW t \in Txns, Begin(t) PROVE LocalsInv'
    BY <1>1 DEF Begin
  <1>2. ASSUME NEW t \in Txns, NEW i \in Items, NEW mode \in Modes, AddLock(t, i, mode) PROVE LocalsInv'
    BY <1>2 DEF AddLock, Requests, NoRequest
  <1>3. ASSUME NEW t \in Txns, NEW l \in Locks, DeleteExpired(t, l) PROVE LocalsInv'
    BY <1>3 DEF DeleteExpired, Delete
  <1>4. ASSUME NEW t \in Txns, NEW l \in Locks, Skip(t, l) PROVE LocalsInv'
    BY <1>4 DEF Skip
  <1>5. ASSUME NEW t \in Txns, NEW l \in Locks, Find(t, l) PROVE LocalsInv'
    BY <1>5 DEF Find
  <1>6. ASSUME NEW t \in Txns, NEW l \in Locks, Construct(t, l) PROVE LocalsInv'
    BY <1>6 DEF Construct
  <1>7. ASSUME NEW t \in Txns, Promote(t) PROVE LocalsInv'
    BY <1>7 DEF Promote
  <1>8. ASSUME NEW t \in Txns, PromoteFails(t) PROVE LocalsInv'
    BY <1>8 DEF PromoteFails, Delete
  <1>9. ASSUME NEW t \in Txns, TryLock(t) PROVE LocalsInv'
    BY <1>9 DEF TryLock, BecomeOwner
  <1>10. ASSUME NEW t \in Txns, TryLockFails(t) PROVE LocalsInv'
    BY <1>10 DEF TryLockFails
  <1>11. ASSUME NEW t \in Txns, WaitFor(t) PROVE LocalsInv'
    BY <1>11 DEF WaitFor
  <1>12. ASSUME NEW t \in Txns, WaitForThrows(t) PROVE LocalsInv'
    BY <1>12 DEF WaitForThrows
  <1>13. ASSUME NEW t \in Txns, WakeUp(t) PROVE LocalsInv'
    BY <1>13 DEF WakeUp
  <1>14. ASSUME NEW t \in Txns, Register(t) PROVE LocalsInv'
    BY <1>14 DEF Register, BecomeOwner
  <1>15. ASSUME NEW t \in Txns, End(t) PROVE LocalsInv'
    BY <1>15 DEF End
  <1>16. ASSUME NEW t \in Txns, NEW l \in Locks, RemoveOwner(t, l) PROVE LocalsInv'
    BY <1>16 DEF RemoveOwner
  <1>17. ASSUME NEW t \in Txns, Unlock(t) PROVE LocalsInv'
    BY <1>17 DEF Unlock
  <1>18. ASSUME NEW t \in Txns, NEW l \in Locks, DropRef(t, l) PROVE LocalsInv'
    BY <1>18 DEF DropRef
  <1>19. ASSUME NEW t \in Txns, Ended(t) PROVE LocalsInv'
    BY <1>19 DEF Ended
  <1>20. CASE UNCHANGED vars
    BY <1>20 DEF vars
  <1> QED
    BY <1>1, <1>2, <1>3, <1>4, <1>5, <1>6, <1>7, <1>8, <1>9, <1>10, <1>11, <1>12,
       <1>13, <1>14, <1>15, <1>16, <1>17, <1>18, <1>19, <1>20
    DEF Next, Work, Client

(* A chain latch is taken only when it is free. *)
LEMMA ChainLatchStep ==
    ASSUME TypeOK, LocalsInv, ChainLatchInv, Next
    PROVE  ChainLatchInv'
  <1> USE DEF TypeOK, ChainLatchInv, InChain
  <1>1. ASSUME NEW t \in Txns, Begin(t) PROVE ChainLatchInv'
    BY <1>1 DEF Begin
  <1>2. ASSUME NEW t \in Txns, NEW i \in Items, NEW mode \in Modes, AddLock(t, i, mode) PROVE ChainLatchInv'
    BY <1>2 DEF AddLock, ChainLatchFree
  <1>3. ASSUME NEW t \in Txns, NEW l \in Locks, DeleteExpired(t, l) PROVE ChainLatchInv'
    BY <1>3 DEF DeleteExpired, Delete
  <1>4. ASSUME NEW t \in Txns, NEW l \in Locks, Skip(t, l) PROVE ChainLatchInv'
    BY <1>4 DEF Skip
  <1>5. ASSUME NEW t \in Txns, NEW l \in Locks, Find(t, l) PROVE ChainLatchInv'
    BY <1>5 DEF Find
  <1>6. ASSUME NEW t \in Txns, NEW l \in Locks, Construct(t, l) PROVE ChainLatchInv'
    BY <1>6 DEF Construct
  <1>7. ASSUME NEW t \in Txns, Promote(t) PROVE ChainLatchInv'
    BY <1>7 DEF Promote
  <1>8. ASSUME NEW t \in Txns, PromoteFails(t) PROVE ChainLatchInv'
    BY <1>8 DEF PromoteFails, Delete
  <1>9. ASSUME NEW t \in Txns, TryLock(t) PROVE ChainLatchInv'
    BY <1>9 DEF TryLock, BecomeOwner
  <1>10. ASSUME NEW t \in Txns, TryLockFails(t) PROVE ChainLatchInv'
    BY <1>10 DEF TryLockFails
  <1>11. ASSUME NEW t \in Txns, WaitFor(t) PROVE ChainLatchInv'
    BY <1>11 DEF WaitFor
  <1>12. ASSUME NEW t \in Txns, WaitForThrows(t) PROVE ChainLatchInv'
    BY <1>12 DEF WaitForThrows
  <1>13. ASSUME NEW t \in Txns, WakeUp(t) PROVE ChainLatchInv'
    BY <1>13 DEF WakeUp
  <1>14. ASSUME NEW t \in Txns, Register(t) PROVE ChainLatchInv'
    BY <1>14 DEF Register, BecomeOwner
  <1>15. ASSUME NEW t \in Txns, End(t) PROVE ChainLatchInv'
    BY <1>15 DEF End
  <1>16. ASSUME NEW t \in Txns, NEW l \in Locks, RemoveOwner(t, l) PROVE ChainLatchInv'
    BY <1>16 DEF RemoveOwner
  <1>17. ASSUME NEW t \in Txns, Unlock(t) PROVE ChainLatchInv'
    BY <1>17 DEF Unlock
  <1>18. ASSUME NEW t \in Txns, NEW l \in Locks, DropRef(t, l) PROVE ChainLatchInv'
    BY <1>18 DEF DropRef
  <1>19. ASSUME NEW t \in Txns, Ended(t) PROVE ChainLatchInv'
    BY <1>19 DEF Ended
  <1>20. CASE UNCHANGED vars
    BY <1>20 DEF vars
  <1> QED
    BY <1>1, <1>2, <1>3, <1>4, <1>5, <1>6, <1>7, <1>8, <1>9, <1>10, <1>11, <1>12,
       <1>13, <1>14, <1>15, <1>16, <1>17, <1>18, <1>19, <1>20
    DEF Next, Work, Client

(* The updates of the mutex and owner fields leave a Lock's item alone. *)
LEMMA ItemsKept ==
    ASSUME NEW rec \in LockRecords, NEW t \in Txns, NEW S
    PROVE  /\ Owned(rec, t).item = rec.item
           /\ Acquired(rec, t).item = rec.item
           /\ Orphaned(rec, t).item = rec.item
           /\ Released(rec, t).item = rec.item
           /\ [rec EXCEPT !.owners = S].item = rec.item
           /\ [rec EXCEPT !.waiters = S].item = rec.item
  BY DEF LockRecords, Owned, Acquired, Orphaned, Released

(* Once t has the shared_mutex, becoming an owner changes no item. *)
LEMMA BecomeOwnerItems ==
    ASSUME TypeOK, NEW t \in Txns, lock[t] \in Locks, want[t] \in Requests,
           NEW rec \in LockRecords, rec.item = heap[lock[t]].item,
           BecomeOwner(t, rec), ConstantsAssumption
    PROVE  \A k \in Locks : heap'[k].item = heap[k].item
  <1>1. /\ Owned(rec, t) \in LockRecords
        /\ Owned(rec, t).item = rec.item
        /\ Orphaned(Owned(rec, t), t).item = rec.item
    BY LockUpdatesType, ItemsKept
  <1>2. QED
    BY <1>1 DEF BecomeOwner, TypeOK

(* A step that changes no chain, no item, and creates no reference out of  *)
(* nothing keeps the chains sound.                                          *)
LEMMA ChainFrame ==
    ASSUME TypeOK, ChainIntegrity, chain' = chain,
           \A k \in Locks : heap'[k].item = heap[k].item,
           \A u \in Txns, k \in Locks : HasRef(u, k)' => HasRef(u, k)
    PROVE  ChainIntegrity'
  BY DEF ChainIntegrity, TypeOK

(* Chains stay sound: nothing referenced is freed, no item has two locks. *)
LEMMA ChainStep ==
    ASSUME TypeOK, TypeOK', LocalsInv, ChainLatchInv, ChainIntegrity, WalkInv, ConstantsAssumption, Next
    PROVE  ChainIntegrity'
  <1> USE DEF TypeOK, LocalsInv, Asking, InChain, HasLock
  <1>1. ASSUME NEW t \in Txns, Begin(t) PROVE ChainIntegrity'
    BY <1>1, ChainFrame DEF Begin, HasRef
  <1>2. ASSUME NEW t \in Txns, NEW i \in Items, NEW mode \in Modes, AddLock(t, i, mode) PROVE ChainIntegrity'
    BY <1>2, ChainFrame DEF AddLock, HasRef
  <1>3. ASSUME NEW t \in Txns, NEW l \in Locks, DeleteExpired(t, l) PROVE ChainIntegrity'
    <2>1. /\ want[t].item \in Items /\ hash[want[t].item] \in Buckets
          /\ l \in Locks /\ l \in MyChain(t)
      BY <1>3 DEF DeleteExpired, WalkInv, WalkOf, Requests, ConstantsAssumption
    <2>2. \A u \in Txns, k \in Locks : HasRef(u, k)' => HasRef(u, k) /\ k # l
      BY <1>3, <2>1 DEF DeleteExpired, Expired, HasRef, Delete
    <2>3. \A k \in Locks \ {l} : heap'[k] = heap[k]
      BY <1>3 DEF DeleteExpired, Delete
    <2>4. /\ chain'[hash[want[t].item]] = MyChain(t) \ {l}
          /\ \A b \in Buckets \ {hash[want[t].item]} : chain'[b] = chain[b]
      BY <1>3, <2>1 DEF DeleteExpired, Delete, MyChain
    <2>5. \A b \in Buckets : l \notin chain'[b] /\ chain'[b] \subseteq chain[b]
      BY <2>1, <2>4 DEF ChainIntegrity, MyChain
    <2>6. \A u \in Txns, k \in Locks :
             HasRef(u, k)' => /\ heap'[k].item \in Items
                              /\ k \in chain'[hash[heap'[k].item]]
      BY <2>1, <2>2, <2>3, <2>4 DEF ChainIntegrity, MyChain, ConstantsAssumption
    <2>7. \A b \in Buckets : \A j, k \in chain'[b] :
             /\ heap'[k].item \in Items
             /\ hash[heap'[k].item] = b
             /\ heap'[j].item = heap'[k].item => j = k
      BY <2>3, <2>5 DEF ChainIntegrity
    <2>8. QED
      BY <2>6, <2>7 DEF ChainIntegrity
  <1>4. ASSUME NEW t \in Txns, NEW l \in Locks, Skip(t, l) PROVE ChainIntegrity'
    BY <1>4, ChainFrame DEF Skip, HasRef
  <1>5. ASSUME NEW t \in Txns, NEW l \in Locks, Find(t, l) PROVE ChainIntegrity'
    BY <1>5, ChainFrame DEF Find, HasRef
  <1>6. ASSUME NEW t \in Txns, NEW l \in Locks, Construct(t, l) PROVE ChainIntegrity'
    <2>1. want[t].item \in Items /\ hash[want[t].item] \in Buckets
      BY <1>6 DEF Construct, Requests, ConstantsAssumption
    <2>2. \A k \in MyChain(t) : heap[k].item # want[t].item
      BY <1>6 DEF Construct, WalkInv, WalkOf
    <2>3. \A b \in Buckets : l \notin chain[b]
      BY <1>6 DEF Construct, ChainIntegrity, ConstantsAssumption
    <2>4. \A u \in Txns, k \in Locks : HasRef(u, k)' => HasRef(u, k) \/ k = l
      BY <1>6 DEF Construct, HasRef
    <2>5. heap'[l].item = want[t].item /\ \A k \in Locks \ {l} : heap'[k] = heap[k]
      BY <1>6 DEF Construct, NewLock
    <2>6. /\ chain'[hash[want[t].item]] = MyChain(t) \cup {l}
          /\ \A b \in Buckets \ {hash[want[t].item]} : chain'[b] = chain[b]
      BY <1>6, <2>1 DEF Construct, MyChain
    <2>7. \A u \in Txns, k \in Locks :
             HasRef(u, k)' => /\ heap'[k].item \in Items
                              /\ k \in chain'[hash[heap'[k].item]]
      <3> SUFFICES ASSUME NEW u \in Txns, NEW k \in Locks, HasRef(u, k)'
                   PROVE  /\ heap'[k].item \in Items
                          /\ k \in chain'[hash[heap'[k].item]]
        OBVIOUS
      <3>1. CASE k = l
        BY <2>1, <2>5, <2>6, <3>1
      <3>2. CASE k # l
        <4>1. /\ heap'[k].item \in Items
              /\ heap'[k].item = heap[k].item
              /\ k \in chain[hash[heap[k].item]]
          BY <2>4, <2>5, <3>2 DEF ChainIntegrity
        <4>2. hash[heap[k].item] \in Buckets
          BY <4>1 DEF ConstantsAssumption
        <4>3. QED
          BY <2>6, <4>1, <4>2 DEF MyChain
      <3>3. QED
        BY <3>1, <3>2
    <2>8. \A b \in Buckets : \A j, k \in chain'[b] :
             /\ heap'[k].item \in Items
             /\ hash[heap'[k].item] = b
             /\ heap'[j].item = heap'[k].item => j = k
      BY <2>1, <2>2, <2>3, <2>5, <2>6 DEF ChainIntegrity, MyChain
    <2>9. QED
      BY <2>7, <2>8 DEF ChainIntegrity
  <1>7. ASSUME NEW t \in Txns, Promote(t) PROVE ChainIntegrity'
    <2>1. /\ lock[t] \in MyChain(t)
          /\ heap[lock[t]].item = want[t].item
          /\ want[t].item \in Items
      BY <1>7 DEF Promote, WalkInv, WalkOf, Requests
    <2>2. \A u \in Txns, k \in Locks :
             HasRef(u, k)' => HasRef(u, k) \/ k = lock[t]
      BY <1>7 DEF Promote, HasRef
    <2>3. QED
      BY <1>7, <2>1, <2>2 DEF Promote, ChainIntegrity, MyChain
  <1>8. ASSUME NEW t \in Txns, PromoteFails(t) PROVE ChainIntegrity'
    <2>1. /\ want[t].item \in Items /\ hash[want[t].item] \in Buckets
          /\ lock[t] \in Locks /\ lock[t] \in MyChain(t)
      BY <1>8 DEF PromoteFails, WalkInv, WalkOf, Requests, ConstantsAssumption
    <2>2. \A u \in Txns, k \in Locks : HasRef(u, k)' => HasRef(u, k) /\ k # lock[t]
      BY <1>8, <2>1 DEF PromoteFails, Expired, HasRef, Delete
    <2>3. \A k \in Locks \ {lock[t]} : heap'[k] = heap[k]
      BY <1>8 DEF PromoteFails, Delete
    <2>4. /\ chain'[hash[want[t].item]] = MyChain(t) \ {lock[t]}
          /\ \A b \in Buckets \ {hash[want[t].item]} : chain'[b] = chain[b]
      BY <1>8, <2>1 DEF PromoteFails, Delete, MyChain
    <2>5. \A b \in Buckets : lock[t] \notin chain'[b] /\ chain'[b] \subseteq chain[b]
      BY <2>1, <2>4 DEF ChainIntegrity, MyChain
    <2>6. \A u \in Txns, k \in Locks :
             HasRef(u, k)' => /\ heap'[k].item \in Items
                              /\ k \in chain'[hash[heap'[k].item]]
      BY <2>1, <2>2, <2>3, <2>4 DEF ChainIntegrity, MyChain, ConstantsAssumption
    <2>7. \A b \in Buckets : \A j, k \in chain'[b] :
             /\ heap'[k].item \in Items
             /\ hash[heap'[k].item] = b
             /\ heap'[j].item = heap'[k].item => j = k
      BY <2>3, <2>5 DEF ChainIntegrity
    <2>8. QED
      BY <2>6, <2>7 DEF ChainIntegrity
  <1>9. ASSUME NEW t \in Txns, TryLock(t) PROVE ChainIntegrity'
    <2>1. lock[t] \in Locks /\ want[t] \in Requests
      BY <1>9 DEF TryLock
    <2>2. /\ Acquired(heap[lock[t]], t) \in LockRecords
          /\ Acquired(heap[lock[t]], t).item = heap[lock[t]].item
      BY <2>1, ItemsKept, LockUpdatesType
    <2>3. \A k \in Locks : heap'[k].item = heap[k].item
      BY <1>9, <2>1, <2>2, BecomeOwnerItems DEF TryLock
    <2>4. \A u \in Txns, k \in Locks : HasRef(u, k)' => HasRef(u, k)
      BY <1>9, <2>1 DEF TryLock, BecomeOwner, HasRef
    <2>5. QED
      BY <1>9, <2>3, <2>4, ChainFrame DEF TryLock, BecomeOwner
  <1>10. ASSUME NEW t \in Txns, TryLockFails(t) PROVE ChainIntegrity'
    BY <1>10, ChainFrame DEF TryLockFails, HasRef
  <1>11. ASSUME NEW t \in Txns, WaitFor(t) PROVE ChainIntegrity'
    BY <1>11, ChainFrame DEF WaitFor, HasRef
  <1>12. ASSUME NEW t \in Txns, WaitForThrows(t) PROVE ChainIntegrity'
    BY <1>12, ChainFrame DEF WaitForThrows, HasRef
  <1>13. ASSUME NEW t \in Txns, WakeUp(t) PROVE ChainIntegrity'
    <2>1. lock[t] \in Locks
      BY <1>13 DEF WakeUp
    <2>2. Acquired(heap[lock[t]], t).item = heap[lock[t]].item
      BY <2>1, ItemsKept
    <2>3. QED
      BY <1>13, <2>1, <2>2, ChainFrame DEF WakeUp, HasRef
  <1>14. ASSUME NEW t \in Txns, Register(t) PROVE ChainIntegrity'
    <2>1. lock[t] \in Locks /\ want[t] \in Requests
      BY <1>14 DEF Register
    <2>2. \A k \in Locks : heap'[k].item = heap[k].item
      BY <1>14, <2>1, BecomeOwnerItems DEF Register
    <2>3. \A u \in Txns, k \in Locks : HasRef(u, k)' => HasRef(u, k)
      BY <1>14, <2>1 DEF Register, BecomeOwner, HasRef
    <2>4. QED
      BY <1>14, <2>2, <2>3, ChainFrame DEF Register, BecomeOwner
  <1>15. ASSUME NEW t \in Txns, End(t) PROVE ChainIntegrity'
    BY <1>15, ChainFrame DEF End, HasRef
  <1>16. ASSUME NEW t \in Txns, NEW l \in Locks, RemoveOwner(t, l) PROVE ChainIntegrity'
    BY <1>16, ChainFrame DEF RemoveOwner, HasRef
  <1>17. ASSUME NEW t \in Txns, Unlock(t) PROVE ChainIntegrity'
    <2>1. lock[t] \in Locks
      BY <1>17 DEF Unlock
    <2>2. Released(heap[lock[t]], t).item = heap[lock[t]].item
      BY <2>1, ItemsKept
    <2>3. QED
      BY <1>17, <2>1, <2>2, ChainFrame DEF Unlock, HasRef
  <1>18. ASSUME NEW t \in Txns, NEW l \in Locks, DropRef(t, l) PROVE ChainIntegrity'
    BY <1>18, ChainFrame DEF DropRef, HasRef
  <1>19. ASSUME NEW t \in Txns, Ended(t) PROVE ChainIntegrity'
    BY <1>19, ChainFrame DEF Ended, HasRef
  <1>20. CASE UNCHANGED vars
    BY <1>20, ChainFrame DEF vars, HasRef
  <1> QED
    BY <1>1, <1>2, <1>3, <1>4, <1>5, <1>6, <1>7, <1>8, <1>9, <1>10, <1>11, <1>12,
       <1>13, <1>14, <1>15, <1>16, <1>17, <1>18, <1>19, <1>20
    DEF Next, Work, Client

(* What a transaction knows of its chain is not disturbed by a step of      *)
(* another one that leaves the chain and its items alone.                   *)
LEMMA WalkFrame ==
    ASSUME TypeOK, LocalsInv, WalkInv, ConstantsAssumption,
           NEW u \in Txns, pc'[u] = pc[u], want'[u] = want[u], todo'[u] = todo[u],
           lock'[u] = lock[u], locks'[u] \subseteq locks[u],
           chain' = chain, \A k \in Locks : heap'[k].item = heap[k].item
    PROVE  WalkOf(u)'
  BY DEF WalkInv, WalkOf, MyChain, TypeOK, LocalsInv, Asking, HasLock, InChain,
         Requests, ConstantsAssumption

(* Nor by one that links, unlinks or frees an unreferenced lock in another   *)
(* bucket than its own.                                                     *)
LEMMA WalkOtherBucket ==
    ASSUME TypeOK, LocalsInv, ChainLatchInv, WalkInv, ConstantsAssumption,
           NEW t \in Txns, NEW u \in Txns \ {t}, NEW d \in Locks, pc[t] \in InChain,
           pc'[u] = pc[u], want'[u] = want[u], todo'[u] = todo[u],
           lock'[u] = lock[u], locks'[u] = locks[u], ~HasRef(u, d),
           \A b \in Buckets \ {hash[want[t].item]} :
               chain'[b] = chain[b] /\ d \notin chain[b],
           \A k \in Locks \ {d} : heap'[k].item = heap[k].item
    PROVE  WalkOf(u)'
  <1> USE DEF TypeOK, LocalsInv, Asking, HasLock, InChain
  <1>1. WalkOf(u)
    BY DEF WalkInv
  <1>2. ASSUME pc[u] \in InChain
        PROVE  /\ MyChain(u)' = MyChain(u)
               /\ d \notin MyChain(u)
    BY <1>2 DEF ChainLatchInv, MyChain, Requests, ConstantsAssumption
  <1>3. pc[u] \in HasLock => lock[u] # d
    BY DEF HasRef
  <1>4. d \notin locks[u]
    BY DEF HasRef
  <1>5. pc[u] = "walk" => /\ todo[u] \subseteq MyChain(u)'
                         /\ \A l \in MyChain(u)' \ todo[u] : heap'[l].item # want[u].item
    BY <1>1, <1>2 DEF WalkOf, MyChain, Requests, ConstantsAssumption
  <1>6. pc[u] = "promote" => lock[u] \in MyChain(u)' /\ todo[u] = {} /\ lock[u] # d
    BY <1>1, <1>2 DEF WalkOf
  <1>7. QED
    BY <1>1, <1>3, <1>4, <1>5, <1>6 DEF WalkOf, MyChain

(* Becoming an owner touches nobody else's local variables.                 *)
LEMMA BecomeOwnerLocals ==
    ASSUME TypeOK, NEW t \in Txns, NEW rec, BecomeOwner(t, rec), NEW u \in Txns \ {t}
    PROVE  /\ pc'[u] = pc[u] /\ want'[u] = want[u] /\ todo'[u] = todo[u]
           /\ lock'[u] = lock[u] /\ locks'[u] = locks[u] /\ chain' = chain
  BY DEF TypeOK, BecomeOwner

(* What a thread knows of the chain it walks stays true under the latch. *)
LEMMA WalkStep ==
    ASSUME TypeOK, TypeOK', LocalsInv, ChainLatchInv, ChainIntegrity, WalkInv, ConstantsAssumption, Next
    PROVE  WalkInv'
  <1> USE DEF TypeOK, LocalsInv, Asking, InChain, HasLock, WalkInv
  <1>1. ASSUME NEW t \in Txns, Begin(t) PROVE WalkInv'
    <2>2. \A k \in Locks : heap'[k].item = heap[k].item
      BY <1>1 DEF Begin
    <2>3. \A u \in Txns \ {t} : WalkOf(u)'
      BY <1>1, <2>2, WalkFrame DEF Begin
    <2>4. WalkOf(t)'
      BY <1>1, <2>2 DEF Begin, WalkOf, MyChain, Requests, ConstantsAssumption
    <2>5. QED
      BY <2>3, <2>4 DEF WalkInv
  <1>2. ASSUME NEW t \in Txns, NEW i \in Items, NEW mode \in Modes, AddLock(t, i, mode) PROVE WalkInv'
    <2>2. \A k \in Locks : heap'[k].item = heap[k].item
      BY <1>2 DEF AddLock
    <2>3. \A u \in Txns \ {t} : WalkOf(u)'
      BY <1>2, <2>2, WalkFrame DEF AddLock
    <2>4. WalkOf(t)'
      BY <1>2, <2>2 DEF AddLock, WalkOf, MyChain, Requests, ConstantsAssumption
    <2>5. QED
      BY <2>3, <2>4 DEF WalkInv
  <1>3. ASSUME NEW t \in Txns, NEW l \in Locks, DeleteExpired(t, l) PROVE WalkInv'
    <2>1. /\ want[t].item \in Items /\ hash[want[t].item] \in Buckets
          /\ l \in Locks /\ l \in MyChain(t)
      BY <1>3 DEF DeleteExpired, WalkOf, Requests, ConstantsAssumption
    <2>2. /\ \A k \in Locks \ {l} : heap'[k] = heap[k]
          /\ heap'[l].item = NoItem
      BY <1>3, <2>1 DEF DeleteExpired, Delete, Freed, NewLock
    <2>3. \A u \in Txns : ~HasRef(u, l)
      BY <1>3 DEF DeleteExpired, Expired
    <2>4. /\ MyChain(t)' = MyChain(t) \ {l}
          /\ \A b \in Buckets \ {hash[want[t].item]} :
                 chain'[b] = chain[b] /\ l \notin chain[b]
      BY <1>3, <2>1 DEF DeleteExpired, Delete, MyChain, ChainIntegrity
    <2>5. \A u \in Txns \ {t} : WalkOf(u)'
      BY <1>3, <2>1, <2>2, <2>3, <2>4, WalkOtherBucket DEF DeleteExpired
    <2>6. \A k \in locks[t] : heap'[k].item # want[t].item
      BY <1>3, <2>2, <2>3 DEF DeleteExpired, WalkOf, HasRef
    <2>7. WalkOf(t)'
      <3>1. MyChain(t) \subseteq Locks
        BY <2>1 DEF MyChain
      <3>2. pc'[t] = "walk" /\ want'[t] = want[t] /\ todo'[t] = todo[t] \ {l}
        BY <1>3 DEF DeleteExpired
      <3>3. /\ todo[t] \subseteq MyChain(t)
            /\ \A k \in MyChain(t) \ todo[t] : heap[k].item # want[t].item
        BY <1>3 DEF DeleteExpired, WalkOf
      <3>4. locks'[t] = locks[t]
        BY <1>3 DEF DeleteExpired
      <3>5. QED
        BY <2>2, <2>4, <2>6, <3>1, <3>2, <3>3, <3>4 DEF WalkOf
    <2>8. QED
      BY <2>5, <2>7
  <1>4. ASSUME NEW t \in Txns, NEW l \in Locks, Skip(t, l) PROVE WalkInv'
    <2>2. \A k \in Locks : heap'[k].item = heap[k].item
      BY <1>4 DEF Skip
    <2>3. \A u \in Txns \ {t} : WalkOf(u)'
      BY <1>4, <2>2, WalkFrame DEF Skip
    <2>4. WalkOf(t)'
      BY <1>4, <2>2 DEF Skip, WalkOf, MyChain, Requests, ConstantsAssumption
    <2>5. QED
      BY <2>3, <2>4 DEF WalkInv
  <1>5. ASSUME NEW t \in Txns, NEW l \in Locks, Find(t, l) PROVE WalkInv'
    <2>2. \A k \in Locks : heap'[k].item = heap[k].item
      BY <1>5 DEF Find
    <2>3. \A u \in Txns \ {t} : WalkOf(u)'
      BY <1>5, <2>2, WalkFrame DEF Find
    <2>4. WalkOf(t)'
      BY <1>5, <2>2 DEF Find, WalkOf, MyChain, Requests, ConstantsAssumption
    <2>5. QED
      BY <2>3, <2>4 DEF WalkInv
  <1>6. ASSUME NEW t \in Txns, NEW l \in Locks, Construct(t, l) PROVE WalkInv'
    <2>1. /\ want[t].item \in Items /\ hash[want[t].item] \in Buckets
          /\ \A k \in Locks \ {l} : heap'[k] = heap[k]
          /\ heap'[l].item = want[t].item
      BY <1>6 DEF Construct, Requests, NewLock, ConstantsAssumption
    <2>2. \A b \in Buckets : l \notin chain[b]
      BY <1>6 DEF Construct, ChainIntegrity, ConstantsAssumption
    <2>3. \A u \in Txns : ~HasRef(u, l)
      BY <1>6 DEF Construct, ChainIntegrity, ConstantsAssumption
    <2>4. \A b \in Buckets \ {hash[want[t].item]} : chain'[b] = chain[b]
      BY <1>6 DEF Construct
    <2>5. \A u \in Txns \ {t} : WalkOf(u)'
      BY <1>6, <2>1, <2>2, <2>3, <2>4, WalkOtherBucket DEF Construct
    <2>6. WalkOf(t)'
      BY <1>6, <2>1, <2>3 DEF Construct, WalkOf, HasRef
    <2>7. QED
      BY <2>5, <2>6
  <1>7. ASSUME NEW t \in Txns, Promote(t) PROVE WalkInv'
    <2>2. \A k \in Locks : heap'[k].item = heap[k].item
      BY <1>7 DEF Promote
    <2>3. \A u \in Txns \ {t} : WalkOf(u)'
      BY <1>7, <2>2, WalkFrame DEF Promote
    <2>4. WalkOf(t)'
      BY <1>7, <2>2 DEF Promote, WalkOf, MyChain, Requests, ConstantsAssumption
    <2>5. QED
      BY <2>3, <2>4 DEF WalkInv
  <1>8. ASSUME NEW t \in Txns, PromoteFails(t) PROVE WalkInv'
    <2>1. /\ want[t].item \in Items /\ hash[want[t].item] \in Buckets
          /\ lock[t] \in Locks /\ lock[t] \in MyChain(t)
      BY <1>8 DEF PromoteFails, WalkOf, Requests, ConstantsAssumption
    <2>2. /\ \A k \in Locks \ {lock[t]} : heap'[k] = heap[k]
          /\ heap'[lock[t]].item = NoItem
      BY <1>8, <2>1 DEF PromoteFails, Delete, Freed, NewLock
    <2>3. \A u \in Txns : ~HasRef(u, lock[t])
      BY <1>8 DEF PromoteFails, Expired
    <2>4. /\ MyChain(t)' = MyChain(t) \ {lock[t]}
          /\ \A b \in Buckets \ {hash[want[t].item]} :
                 chain'[b] = chain[b] /\ lock[t] \notin chain[b]
      BY <1>8, <2>1 DEF PromoteFails, Delete, MyChain, ChainIntegrity
    <2>5. \A u \in Txns \ {t} : WalkOf(u)'
      BY <1>8, <2>1, <2>2, <2>3, <2>4, WalkOtherBucket DEF PromoteFails
    <2>6. \A k \in locks[t] : heap'[k].item # want[t].item
      BY <1>8, <2>2, <2>3 DEF PromoteFails, WalkOf, HasRef
    <2>u. \A k \in MyChain(t) \ {lock[t]} : heap[k].item # want[t].item
      BY <1>8, <2>1 DEF PromoteFails, WalkOf, MyChain, ChainIntegrity
    <2>7. WalkOf(t)'
      <3>1. MyChain(t) \subseteq Locks
        BY <2>1 DEF MyChain
      <3>2. /\ pc'[t] = "walk" /\ want'[t] = want[t]
            /\ todo'[t] = {} /\ locks'[t] = locks[t]
        BY <1>8 DEF PromoteFails, WalkOf
      <3>3. QED
        BY <2>2, <2>4, <2>6, <2>u, <3>1, <3>2 DEF WalkOf
    <2>8. QED
      BY <2>5, <2>7
  <1>9. ASSUME NEW t \in Txns, TryLock(t) PROVE WalkInv'
    <2>1. /\ lock[t] \in Locks /\ want[t] \in Requests
          /\ Acquired(heap[lock[t]], t).item = heap[lock[t]].item
      BY <1>9, ItemsKept DEF TryLock
    <2>a. Acquired(heap[lock[t]], t) \in LockRecords
      BY <2>1, LockUpdatesType
    <2>2. \A k \in Locks : heap'[k].item = heap[k].item
      BY <1>9, <2>1, <2>a, BecomeOwnerItems DEF TryLock
    <2>3. \A u \in Txns \ {t} : WalkOf(u)'
      BY <1>9, <2>2, WalkFrame, BecomeOwnerLocals DEF TryLock
    <2>4. WalkOf(t)'
      <3>1. pc'[t] \in {"aborted", "running"}
        BY <1>9 DEF TryLock, BecomeOwner
      <3>2. QED
        BY <3>1 DEF WalkOf
    <2>5. QED
      BY <2>3, <2>4 DEF WalkInv
  <1>10. ASSUME NEW t \in Txns, TryLockFails(t) PROVE WalkInv'
    <2>2. \A k \in Locks : heap'[k].item = heap[k].item
      BY <1>10 DEF TryLockFails
    <2>3. \A u \in Txns \ {t} : WalkOf(u)'
      BY <1>10, <2>2, WalkFrame DEF TryLockFails
    <2>4. WalkOf(t)'
      BY <1>10, <2>2 DEF TryLockFails, WalkOf, MyChain, Requests, ConstantsAssumption
    <2>5. QED
      BY <2>3, <2>4 DEF WalkInv
  <1>11. ASSUME NEW t \in Txns, WaitFor(t) PROVE WalkInv'
    <2>2. \A k \in Locks : heap'[k].item = heap[k].item
      BY <1>11 DEF WaitFor
    <2>3. \A u \in Txns \ {t} : WalkOf(u)'
      BY <1>11, <2>2, WalkFrame DEF WaitFor
    <2>4. WalkOf(t)'
      BY <1>11, <2>2 DEF WaitFor, WalkOf, MyChain, Requests, ConstantsAssumption
    <2>5. QED
      BY <2>3, <2>4 DEF WalkInv
  <1>12. ASSUME NEW t \in Txns, WaitForThrows(t) PROVE WalkInv'
    <2>2. \A k \in Locks : heap'[k].item = heap[k].item
      BY <1>12 DEF WaitForThrows
    <2>3. \A u \in Txns \ {t} : WalkOf(u)'
      BY <1>12, <2>2, WalkFrame DEF WaitForThrows
    <2>4. WalkOf(t)'
      BY <1>12, <2>2 DEF WaitForThrows, WalkOf, MyChain, Requests, ConstantsAssumption
    <2>5. QED
      BY <2>3, <2>4 DEF WalkInv
  <1>13. ASSUME NEW t \in Txns, WakeUp(t) PROVE WalkInv'
    <2>1. lock[t] \in Locks
      BY <1>13 DEF WakeUp
    <2>2. \A k \in Locks : heap'[k].item = heap[k].item
      BY <1>13, <2>1, ItemsKept DEF WakeUp
    <2>3. \A u \in Txns \ {t} : WalkOf(u)'
      BY <1>13, <2>2, WalkFrame DEF WakeUp
    <2>4. WalkOf(t)'
      BY <1>13, <2>2 DEF WakeUp, WalkOf, MyChain, Requests, ConstantsAssumption
    <2>5. QED
      BY <2>3, <2>4 DEF WalkInv
  <1>14. ASSUME NEW t \in Txns, Register(t) PROVE WalkInv'
    <2>1. lock[t] \in Locks /\ want[t] \in Requests
      BY <1>14 DEF Register
    <2>2. \A k \in Locks : heap'[k].item = heap[k].item
      BY <1>14, <2>1, BecomeOwnerItems DEF Register
    <2>3. \A u \in Txns \ {t} : WalkOf(u)'
      BY <1>14, <2>2, WalkFrame, BecomeOwnerLocals DEF Register
    <2>4. WalkOf(t)'
      <3>1. pc'[t] \in {"aborted", "running"}
        BY <1>14 DEF Register, BecomeOwner
      <3>2. QED
        BY <3>1 DEF WalkOf
    <2>5. QED
      BY <2>3, <2>4 DEF WalkInv
  <1>15. ASSUME NEW t \in Txns, End(t) PROVE WalkInv'
    <2>2. \A k \in Locks : heap'[k].item = heap[k].item
      BY <1>15 DEF End
    <2>3. \A u \in Txns \ {t} : WalkOf(u)'
      BY <1>15, <2>2, WalkFrame DEF End
    <2>4. WalkOf(t)'
      BY <1>15, <2>2 DEF End, WalkOf, MyChain, Requests, ConstantsAssumption
    <2>5. QED
      BY <2>3, <2>4 DEF WalkInv
  <1>16. ASSUME NEW t \in Txns, NEW l \in Locks, RemoveOwner(t, l) PROVE WalkInv'
    <2>2. \A k \in Locks : heap'[k].item = heap[k].item
      BY <1>16 DEF RemoveOwner
    <2>3. \A u \in Txns \ {t} : WalkOf(u)'
      BY <1>16, <2>2, WalkFrame DEF RemoveOwner
    <2>4. WalkOf(t)'
      BY <1>16, <2>2 DEF RemoveOwner, WalkOf, MyChain, Requests, ConstantsAssumption
    <2>5. QED
      BY <2>3, <2>4 DEF WalkInv
  <1>17. ASSUME NEW t \in Txns, Unlock(t) PROVE WalkInv'
    <2>1. lock[t] \in Locks
      BY <1>17 DEF Unlock
    <2>2. \A k \in Locks : heap'[k].item = heap[k].item
      BY <1>17, <2>1, ItemsKept DEF Unlock
    <2>3. \A u \in Txns \ {t} : WalkOf(u)'
      BY <1>17, <2>2, WalkFrame DEF Unlock
    <2>4. WalkOf(t)'
      BY <1>17, <2>2 DEF Unlock, WalkOf, MyChain, Requests, ConstantsAssumption
    <2>5. QED
      BY <2>3, <2>4 DEF WalkInv
  <1>18. ASSUME NEW t \in Txns, NEW l \in Locks, DropRef(t, l) PROVE WalkInv'
    <2>2. \A k \in Locks : heap'[k].item = heap[k].item
      BY <1>18 DEF DropRef
    <2>3. \A u \in Txns \ {t} : WalkOf(u)'
      BY <1>18, <2>2, WalkFrame DEF DropRef
    <2>4. WalkOf(t)'
      BY <1>18, <2>2 DEF DropRef, WalkOf, MyChain, Requests, ConstantsAssumption
    <2>5. QED
      BY <2>3, <2>4 DEF WalkInv
  <1>19. ASSUME NEW t \in Txns, Ended(t) PROVE WalkInv'
    <2>2. \A k \in Locks : heap'[k].item = heap[k].item
      BY <1>19 DEF Ended
    <2>3. \A u \in Txns \ {t} : WalkOf(u)'
      BY <1>19, <2>2, WalkFrame DEF Ended
    <2>4. WalkOf(t)'
      BY <1>19, <2>2 DEF Ended, WalkOf, MyChain, Requests, ConstantsAssumption
    <2>5. QED
      BY <2>3, <2>4 DEF WalkInv
  <1>20. CASE UNCHANGED vars
    BY <1>20, WalkFrame DEF vars
  <1> QED
    BY <1>1, <1>2, <1>3, <1>4, <1>5, <1>6, <1>7, <1>8, <1>9, <1>10, <1>11, <1>12,
       <1>13, <1>14, <1>15, <1>16, <1>17, <1>18, <1>19, <1>20
    DEF Next, Work, Client

(* The fields of the shared_mutex after each of the updates of a Lock.       *)
LEMMA LockFields ==
    ASSUME NEW rec \in LockRecords, NEW t \in Txns
    PROVE  /\ Owned(rec, t).writers = rec.writers
           /\ Owned(rec, t).readers = rec.readers
           /\ Owned(rec, t).orphan = rec.orphan
           /\ Owned(rec, t).ownership = want[t].mode
           /\ Acquired(rec, t).orphan = rec.orphan
           /\ Acquired(rec, t).ownership = rec.ownership
           /\ want[t].mode = "Shared" =>
                 /\ Acquired(rec, t).readers = rec.readers \cup {t}
                 /\ Acquired(rec, t).writers = rec.writers
           /\ want[t].mode # "Shared" =>
                 /\ Acquired(rec, t).readers = rec.readers
                 /\ Acquired(rec, t).writers = rec.writers \cup {t}
           /\ Orphaned(rec, t).writers = rec.writers \ {t}
           /\ Orphaned(rec, t).readers = rec.readers \ {t}
           /\ Orphaned(rec, t).orphan = want[t].mode
           /\ Orphaned(rec, t).ownership = rec.ownership
           /\ Released(rec, t).orphan = rec.orphan
           /\ Released(rec, t).ownership = rec.ownership
           /\ rec.ownership = "Shared" =>
                 /\ Released(rec, t).readers = rec.readers \ {t}
                 /\ Released(rec, t).writers = rec.writers
           /\ rec.ownership # "Shared" =>
                 /\ Released(rec, t).readers = rec.readers
                 /\ Released(rec, t).writers = rec.writers \ {t}
  BY DEF LockRecords, Owned, Acquired, Orphaned, Released

(* Taking an available shared_mutex keeps it a shared_mutex.                 *)
LEMMA AcquiredMutex ==
    ASSUME TypeOK, MutexInv, NEW t \in Txns, NEW l \in Locks,
           want[t].mode \in LockModes, Available(l, want[t].mode)
    PROVE  MutexOf(Acquired(heap[l], t))
  <1>1. heap[l] \in LockRecords
    BY DEF TypeOK
  <1>2. QED
    BY <1>1, LockFields DEF MutexInv, MutexOf, Available

(* So does dropping the pointer of a held one, and registering as an owner.  *)
LEMMA OwnedMutex ==
    ASSUME NEW rec \in LockRecords, NEW t \in Txns, want[t].mode \in LockModes,
           Owned(rec, t) \in LockRecords, MutexOf(rec),
           t \in IF want[t].mode = "Shared" THEN rec.readers ELSE rec.writers
    PROVE  MutexOf(Owned(rec, t)) /\ MutexOf(Orphaned(Owned(rec, t), t))
  BY LockFields DEF MutexOf

(* And unlocking one.                                                        *)
LEMMA ReleasedMutex ==
    ASSUME NEW rec \in LockRecords, NEW t \in Txns, MutexOf(rec)
    PROVE  MutexOf(Released(rec, t))
  BY LockFields DEF MutexOf

(* A shared_mutex stays one: readers, or one writer. *)
LEMMA MutexStep ==
    ASSUME TypeOK, LocalsInv, MutexInv, HoldersInv, ConstantsAssumption, Next
    PROVE  MutexInv'
  <1> USE DEF TypeOK, LocalsInv, Asking, InChain, HasLock, MutexInv
  <1>1. ASSUME NEW t \in Txns, Begin(t) PROVE MutexInv'
    BY <1>1 DEF Begin
  <1>2. ASSUME NEW t \in Txns, NEW i \in Items, NEW mode \in Modes, AddLock(t, i, mode) PROVE MutexInv'
    BY <1>2 DEF AddLock
  <1>3. ASSUME NEW t \in Txns, NEW l \in Locks, DeleteExpired(t, l) PROVE MutexInv'
    BY <1>3 DEF DeleteExpired, Delete, Freed, NewLock, MutexOf
  <1>4. ASSUME NEW t \in Txns, NEW l \in Locks, Skip(t, l) PROVE MutexInv'
    BY <1>4 DEF Skip
  <1>5. ASSUME NEW t \in Txns, NEW l \in Locks, Find(t, l) PROVE MutexInv'
    BY <1>5 DEF Find
  <1>6. ASSUME NEW t \in Txns, NEW l \in Locks, Construct(t, l) PROVE MutexInv'
    BY <1>6 DEF Construct, NewLock, MutexOf
  <1>7. ASSUME NEW t \in Txns, Promote(t) PROVE MutexInv'
    BY <1>7 DEF Promote
  <1>8. ASSUME NEW t \in Txns, PromoteFails(t) PROVE MutexInv'
    BY <1>8 DEF PromoteFails, Delete, Freed, NewLock, MutexOf
  <1>9. ASSUME NEW t \in Txns, TryLock(t) PROVE MutexInv'
    <2> DEFINE rec == Acquired(heap[lock[t]], t)
    <2>1. lock[t] \in Locks /\ want[t] \in Requests /\ want[t].mode \in LockModes
      BY <1>9 DEF TryLock, Requests, ConstantsAssumption
    <2>2. MutexOf(rec)
      BY <1>9, <2>1, AcquiredMutex DEF TryLock
    <2>3. rec \in LockRecords /\ Owned(rec, t) \in LockRecords
      BY <2>1, LockUpdatesType
    <2>4. t \in IF want[t].mode = "Shared" THEN rec.readers ELSE rec.writers
      BY <2>1, LockFields
    <2>5. MutexOf(Owned(rec, t)) /\ MutexOf(Orphaned(Owned(rec, t), t))
      BY <2>1, <2>2, <2>3, <2>4, OwnedMutex
    <2>6. QED
      BY <1>9, <2>1, <2>5 DEF TryLock, BecomeOwner
  <1>10. ASSUME NEW t \in Txns, TryLockFails(t) PROVE MutexInv'
    BY <1>10 DEF TryLockFails
  <1>11. ASSUME NEW t \in Txns, WaitFor(t) PROVE MutexInv'
    BY <1>11 DEF WaitFor, LockRecords, MutexOf
  <1>12. ASSUME NEW t \in Txns, WaitForThrows(t) PROVE MutexInv'
    BY <1>12 DEF WaitForThrows
  <1>13. ASSUME NEW t \in Txns, WakeUp(t) PROVE MutexInv'
    <2>1. lock[t] \in Locks /\ want[t].mode \in LockModes
      BY <1>13 DEF WakeUp, Requests, ConstantsAssumption
    <2>2. MutexOf(Acquired(heap[lock[t]], t))
      BY <1>13, <2>1, AcquiredMutex DEF WakeUp
    <2>3. QED
      BY <1>13, <2>1, <2>2 DEF WakeUp
  <1>14. ASSUME NEW t \in Txns, Register(t) PROVE MutexInv'
    <2> DEFINE rec == heap[lock[t]]
    <2>1. lock[t] \in Locks /\ want[t] \in Requests /\ want[t].mode \in LockModes
      BY <1>14 DEF Register, Requests, ConstantsAssumption
    <2>2. rec \in LockRecords /\ Owned(rec, t) \in LockRecords
      BY <2>1, LockUpdatesType
    <2>3. t \in IF want[t].mode = "Shared" THEN rec.readers ELSE rec.writers
      BY <1>14, <2>1 DEF Register, HoldersInv, HoldersOf
    <2>4. MutexOf(Owned(rec, t)) /\ MutexOf(Orphaned(Owned(rec, t), t))
      BY <2>1, <2>2, <2>3, OwnedMutex
    <2>5. QED
      BY <1>14, <2>1, <2>4 DEF Register, BecomeOwner
  <1>15. ASSUME NEW t \in Txns, End(t) PROVE MutexInv'
    BY <1>15 DEF End
  <1>16. ASSUME NEW t \in Txns, NEW l \in Locks, RemoveOwner(t, l) PROVE MutexInv'
    BY <1>16 DEF RemoveOwner, LockRecords, MutexOf
  <1>17. ASSUME NEW t \in Txns, Unlock(t) PROVE MutexInv'
    BY <1>17, ReleasedMutex DEF Unlock
  <1>18. ASSUME NEW t \in Txns, NEW l \in Locks, DropRef(t, l) PROVE MutexInv'
    BY <1>18 DEF DropRef
  <1>19. ASSUME NEW t \in Txns, Ended(t) PROVE MutexInv'
    BY <1>19 DEF Ended
  <1>20. CASE UNCHANGED vars
    BY <1>20 DEF vars
  <1> QED
    BY <1>1, <1>2, <1>3, <1>4, <1>5, <1>6, <1>7, <1>8, <1>9, <1>10, <1>11, <1>12,
       <1>13, <1>14, <1>15, <1>16, <1>17, <1>18, <1>19, <1>20
    DEF Next, Work, Client

(* Who holds what only depends on a transaction's own variables, on whether *)
(* it holds the shared_mutex, and on the ownership of its locks.             *)
LEMMA HoldersFrame ==
    ASSUME TypeOK, HoldersInv, NEW u \in Txns, NEW k \in Locks,
           pc'[u] = pc[u], want'[u] = want[u],
           lock'[u] = lock[u], locks'[u] = locks[u],
           u \in heap'[k].readers <=> u \in heap[k].readers,
           u \in heap'[k].writers <=> u \in heap[k].writers,
           k \in locks[u] /\ u \in Holders(k) => heap'[k].ownership = heap[k].ownership
    PROVE  HoldersOf(u, k)'
  BY DEF HoldersInv, HoldersOf, Holders, ModeOf, Leaving

(* Becoming an owner, by either path: ownership is the mode of the new       *)
(* holder, and of every other holder there may be.                           *)
LEMMA BecomeOwnerHolders ==
    ASSUME TypeOK, HoldersInv, NEW t \in Txns, pc[t] \in {"request", "awake"},
           NEW l \in Locks, lock[t] = l, l \notin locks[t],
           want[t] \in Requests, want[t].mode \in LockModes,
           NEW rec \in LockRecords, Owned(rec, t) \in LockRecords, MutexOf(rec),
           t \in IF want[t].mode = "Shared" THEN rec.readers ELSE rec.writers,
           \A u \in Txns \ {t} : /\ u \in rec.readers <=> u \in heap[l].readers
                                 /\ u \in rec.writers <=> u \in heap[l].writers,
           BecomeOwner(t, rec)
    PROVE  HoldersInv'
  <1> USE DEF TypeOK, NoRequest
  <1> DEFINE throws == AddWaitersThrows(graph, t, rec.waiters \ {t})
  <1>1. /\ \A k \in Locks \ {l} : heap'[k] = heap[k]
        /\ heap'[l] = IF throws THEN Orphaned(Owned(rec, t), t) ELSE Owned(rec, t)
        /\ locks'[t] = IF throws THEN locks[t] ELSE locks[t] \cup {l}
        /\ pc'[t] = IF throws THEN "aborted" ELSE "running"
    BY DEF BecomeOwner
  <1>2. heap'[l].ownership = want[t].mode
    BY <1>1, LockFields
  <1>3. \A u \in Txns \ {t} : /\ u \in heap'[l].readers <=> u \in heap[l].readers
                              /\ u \in heap'[l].writers <=> u \in heap[l].writers
    BY <1>1, LockFields
  <1>4. \A u \in Txns \ {t}, k \in Locks \ {l} : HoldersOf(u, k)'
    BY <1>1, BecomeOwnerLocals, HoldersFrame
  <1>5. ASSUME NEW u \in Txns \ {t} PROVE HoldersOf(u, l)'
    <2>1. u \in heap[l].readers \cup heap[l].writers =>
             want[t].mode = "Shared" /\ u \notin heap[l].writers
      BY DEF MutexOf
    <2>2. /\ pc'[u] = pc[u] /\ want'[u] = want[u]
          /\ lock'[u] = lock[u] /\ locks'[u] = locks[u]
      BY BecomeOwnerLocals
    <2>3. QED
      BY <1>2, <1>3, <2>1, <2>2 DEF HoldersInv, HoldersOf, Holders, ModeOf, Leaving
  <1>6. ASSUME NEW k \in Locks \ {l} PROVE HoldersOf(t, k)'
    BY <1>1 DEF HoldersInv, HoldersOf, Holders, ModeOf, Leaving
  <1>7. HoldersOf(t, l)'
    <2>1. CASE throws
      <3>1. t \notin Holders(l)' /\ l \notin locks'[t] /\ pc'[t] = "aborted"
        BY <1>1, <2>1, LockFields DEF Holders
      <3>2. QED
        BY <3>1 DEF HoldersOf
    <2>2. CASE ~throws
      <3>1. heap'[l].readers = rec.readers /\ heap'[l].writers = rec.writers
        BY <1>1, <2>2, LockFields
      <3>2. l \in locks'[t] /\ t \in Holders(l)' /\ pc'[t] = "running"
        BY <1>1, <2>2, <3>1 DEF Holders
      <3>3. ModeOf(t, l)' = want[t].mode
        BY <3>1 DEF ModeOf, MutexOf
      <3>4. QED
        BY <1>2, <3>2, <3>3 DEF HoldersOf
    <2>3. QED
      BY <2>1, <2>2
  <1>8. QED
    BY <1>4, <1>5, <1>6, <1>7 DEF HoldersInv

(* Whoever holds a shared_mutex is about to register or has it among its   *)
(* locks, and ownership says how.                                            *)
LEMMA HoldersStep ==
    ASSUME TypeOK, TypeOK', LocalsInv, ChainIntegrity, WalkInv, MutexInv, HoldersInv, ConstantsAssumption, Next
    PROVE  HoldersInv'
  <1> USE DEF TypeOK, LocalsInv, Asking, InChain, HasLock, HoldersInv
  <1>1. ASSUME NEW t \in Txns, Begin(t) PROVE HoldersInv'
    BY <1>1 DEF Begin, HoldersOf, Holders, Leaving, ModeOf
  <1>2. ASSUME NEW t \in Txns, NEW i \in Items, NEW mode \in Modes, AddLock(t, i, mode) PROVE HoldersInv'
    BY <1>2 DEF AddLock, HoldersOf, Holders, Leaving, ModeOf
  <1>3. ASSUME NEW t \in Txns, NEW l \in Locks, DeleteExpired(t, l) PROVE HoldersInv'
    <2>1. l \in Locks
      BY <1>3 DEF DeleteExpired
    <2>2. \A u \in Txns : ~HasRef(u, l)
      BY <1>3 DEF DeleteExpired, Expired
    <2>3. /\ \A k \in Locks \ {l} : heap'[k] = heap[k]
          /\ heap'[l].readers = {} /\ heap'[l].writers = {}
      BY <1>3, <2>1 DEF DeleteExpired, Delete, Freed, NewLock
    <2>4. ASSUME NEW u \in Txns, NEW k \in Locks PROVE HoldersOf(u, k)'
      <3>1. /\ locks'[u] = locks[u]
            /\ pc[t] \notin {"awake", "releasing", "unlocking"}
            /\ pc'[t] \notin {"awake", "releasing", "unlocking"}
            /\ u # t => /\ pc'[u] = pc[u] /\ want'[u] = want[u] /\ lock'[u] = lock[u]
        BY <1>3 DEF DeleteExpired
      <3>2. CASE k = l
        <4>1. k \notin locks[u] /\ (pc[u] = "awake" => lock[u] # k)
          BY <2>2, <3>2 DEF HasRef
        <4>2. pc'[u] = "awake" => lock'[u] # k
          BY <3>1, <4>1
        <4>3. u \notin heap'[k].readers /\ u \notin heap'[k].writers
          BY <2>3, <3>2
        <4>4. QED
          BY <3>1, <4>1, <4>2, <4>3 DEF HoldersOf, Holders
      <3>3. CASE k # l
        <4>1. heap'[k] = heap[k]
          BY <2>3, <3>3
        <4>2. CASE u = t
          BY <3>1, <4>1, <4>2 DEF HoldersOf, Holders, Leaving, ModeOf
        <4>3. CASE u # t
          BY <3>1, <4>1, <4>3, HoldersFrame
        <4>4. QED
          BY <4>2, <4>3
      <3>4. QED
        BY <3>2, <3>3
    <2>5. QED
      BY <2>4
  <1>4. ASSUME NEW t \in Txns, NEW l \in Locks, Skip(t, l) PROVE HoldersInv'
    BY <1>4 DEF Skip, HoldersOf, Holders, Leaving, ModeOf
  <1>5. ASSUME NEW t \in Txns, NEW l \in Locks, Find(t, l) PROVE HoldersInv'
    BY <1>5 DEF Find, HoldersOf, Holders, Leaving, ModeOf
  <1>6. ASSUME NEW t \in Txns, NEW l \in Locks, Construct(t, l) PROVE HoldersInv'
    <2>1. l \in Locks
      BY <1>6 DEF Construct
    <2>2. \A u \in Txns : ~HasRef(u, l)
      BY <1>6 DEF Construct, ChainIntegrity, ConstantsAssumption
    <2>3. /\ \A k \in Locks \ {l} : heap'[k] = heap[k]
          /\ heap'[l].readers = {} /\ heap'[l].writers = {}
      BY <1>6, <2>1 DEF Construct, NewLock
    <2>4. ASSUME NEW u \in Txns, NEW k \in Locks PROVE HoldersOf(u, k)'
      <3>1. /\ locks'[u] = locks[u]
            /\ pc[t] \notin {"awake", "releasing", "unlocking"}
            /\ pc'[t] \notin {"awake", "releasing", "unlocking"}
            /\ u # t => /\ pc'[u] = pc[u] /\ want'[u] = want[u] /\ lock'[u] = lock[u]
        BY <1>6 DEF Construct
      <3>2. CASE k = l
        <4>1. k \notin locks[u] /\ (pc[u] = "awake" => lock[u] # k)
          BY <2>2, <3>2 DEF HasRef
        <4>2. pc'[u] = "awake" => lock'[u] # k
          BY <3>1, <4>1
        <4>3. u \notin heap'[k].readers /\ u \notin heap'[k].writers
          BY <2>3, <3>2
        <4>4. QED
          BY <3>1, <4>1, <4>2, <4>3 DEF HoldersOf, Holders
      <3>3. CASE k # l
        <4>1. heap'[k] = heap[k]
          BY <2>3, <3>3
        <4>2. CASE u = t
          BY <3>1, <4>1, <4>2 DEF HoldersOf, Holders, Leaving, ModeOf
        <4>3. CASE u # t
          BY <3>1, <4>1, <4>3, HoldersFrame
        <4>4. QED
          BY <4>2, <4>3
      <3>4. QED
        BY <3>2, <3>3
    <2>5. QED
      BY <2>4
  <1>7. ASSUME NEW t \in Txns, Promote(t) PROVE HoldersInv'
    BY <1>7 DEF Promote, HoldersOf, Holders, Leaving, ModeOf
  <1>8. ASSUME NEW t \in Txns, PromoteFails(t) PROVE HoldersInv'
    <2>1. lock[t] \in Locks
      BY <1>8 DEF PromoteFails
    <2>2. \A u \in Txns : ~HasRef(u, lock[t])
      BY <1>8 DEF PromoteFails, Expired
    <2>3. /\ \A k \in Locks \ {lock[t]} : heap'[k] = heap[k]
          /\ heap'[lock[t]].readers = {} /\ heap'[lock[t]].writers = {}
      BY <1>8, <2>1 DEF PromoteFails, Delete, Freed, NewLock
    <2>4. ASSUME NEW u \in Txns, NEW k \in Locks PROVE HoldersOf(u, k)'
      <3>1. /\ locks'[u] = locks[u]
            /\ pc[t] \notin {"awake", "releasing", "unlocking"}
            /\ pc'[t] \notin {"awake", "releasing", "unlocking"}
            /\ u # t => /\ pc'[u] = pc[u] /\ want'[u] = want[u] /\ lock'[u] = lock[u]
        BY <1>8 DEF PromoteFails
      <3>2. CASE k = lock[t]
        <4>1. k \notin locks[u] /\ (pc[u] = "awake" => lock[u] # k)
          BY <2>2, <3>2 DEF HasRef
        <4>2. pc'[u] = "awake" => lock'[u] # k
          BY <3>1, <4>1
        <4>3. u \notin heap'[k].readers /\ u \notin heap'[k].writers
          BY <2>3, <3>2
        <4>4. QED
          BY <3>1, <4>1, <4>2, <4>3 DEF HoldersOf, Holders
      <3>3. CASE k # lock[t]
        <4>1. heap'[k] = heap[k]
          BY <2>3, <3>3
        <4>2. CASE u = t
          BY <3>1, <4>1, <4>2 DEF HoldersOf, Holders, Leaving, ModeOf
        <4>3. CASE u # t
          BY <3>1, <4>1, <4>3, HoldersFrame
        <4>4. QED
          BY <4>2, <4>3
      <3>4. QED
        BY <3>2, <3>3
    <2>5. QED
      BY <2>4
  <1>9. ASSUME NEW t \in Txns, TryLock(t) PROVE HoldersInv'
    <2> DEFINE rec == Acquired(heap[lock[t]], t)
    <2>1. /\ lock[t] \in Locks /\ lock[t] \notin locks[t]
          /\ want[t] \in Requests /\ want[t].mode \in LockModes
      BY <1>9 DEF TryLock, WalkInv, WalkOf, Requests, ConstantsAssumption
    <2>2. rec \in LockRecords /\ Owned(rec, t) \in LockRecords
      BY <2>1, LockUpdatesType
    <2>3. MutexOf(rec)
      BY <1>9, <2>1, AcquiredMutex DEF TryLock
    <2>4. /\ t \in IF want[t].mode = "Shared" THEN rec.readers ELSE rec.writers
          /\ \A u \in Txns \ {t} :
                 /\ u \in rec.readers <=> u \in heap[lock[t]].readers
                 /\ u \in rec.writers <=> u \in heap[lock[t]].writers
      BY <2>1, LockFields
    <2>5. QED
      BY <1>9, <2>1, <2>2, <2>3, <2>4, BecomeOwnerHolders DEF TryLock
  <1>10. ASSUME NEW t \in Txns, TryLockFails(t) PROVE HoldersInv'
    BY <1>10 DEF TryLockFails, HoldersOf, Holders, Leaving, ModeOf
  <1>11. ASSUME NEW t \in Txns, WaitFor(t) PROVE HoldersInv'
    <2>1. \A k \in Locks : /\ heap'[k].readers = heap[k].readers
                           /\ heap'[k].writers = heap[k].writers
                           /\ heap'[k].ownership = heap[k].ownership
      BY <1>11 DEF WaitFor, LockRecords
    <2>2. QED
      BY <1>11, <2>1 DEF WaitFor, HoldersOf, Holders, Leaving, ModeOf
  <1>12. ASSUME NEW t \in Txns, WaitForThrows(t) PROVE HoldersInv'
    BY <1>12 DEF WaitForThrows, HoldersOf, Holders, Leaving, ModeOf
  <1>13. ASSUME NEW t \in Txns, WakeUp(t) PROVE HoldersInv'
    <2> PICK l \in Locks : l = lock[t]
      BY <1>13 DEF WakeUp
    <2>1. /\ lock[t] \in Locks /\ lock[t] \notin locks[t]
          /\ want[t].mode \in LockModes
      BY <1>13 DEF WakeUp, WalkInv, WalkOf, Requests, ConstantsAssumption
    <2>2. /\ \A k \in Locks \ {lock[t]} : heap'[k] = heap[k]
          /\ heap'[lock[t]] = Acquired(heap[lock[t]], t)
      BY <1>13, <2>1 DEF WakeUp
    <2>3. ASSUME NEW u \in Txns \ {t}, NEW k \in Locks PROVE HoldersOf(u, k)'
      <3>1. /\ u \in heap'[k].readers <=> u \in heap[k].readers
            /\ u \in heap'[k].writers <=> u \in heap[k].writers
            /\ heap'[k].ownership = heap[k].ownership
        BY <2>1, <2>2, LockFields
      <3>2. QED
        BY <1>13, <3>1, HoldersFrame DEF WakeUp
    <2>4. ASSUME NEW k \in Locks \ {l} PROVE HoldersOf(t, k)'
      BY <1>13, <2>2 DEF WakeUp, HoldersOf, Holders, Leaving, ModeOf
    <2>5. HoldersOf(t, l)'
      <3>1. t \in IF want[t].mode = "Shared" THEN heap'[l].readers
                                             ELSE heap'[l].writers
        BY <2>1, <2>2, LockFields
      <3>2. /\ pc'[t] = "awake" /\ lock'[t] = lock[t]
            /\ want'[t] = want[t] /\ locks'[t] = locks[t]
        BY <1>13 DEF WakeUp
      <3>3. QED
        BY <2>1, <3>1, <3>2 DEF HoldersOf, Holders
    <2>6. \A k \in Locks : HoldersOf(t, k)'
      BY <2>4, <2>5
    <2>7. QED
      BY <2>3, <2>6
  <1>14. ASSUME NEW t \in Txns, Register(t) PROVE HoldersInv'
    <2> DEFINE rec == heap[lock[t]]
    <2>1. /\ lock[t] \in Locks /\ lock[t] \notin locks[t]
          /\ want[t] \in Requests /\ want[t].mode \in LockModes
      BY <1>14 DEF Register, WalkInv, WalkOf, Requests, ConstantsAssumption
    <2>2. rec \in LockRecords /\ Owned(rec, t) \in LockRecords
      BY <2>1, LockUpdatesType
    <2>3. MutexOf(rec)
      BY <2>1 DEF MutexInv
    <2>4. t \in IF want[t].mode = "Shared" THEN rec.readers ELSE rec.writers
      BY <1>14, <2>1 DEF Register, HoldersOf
    <2>5. QED
      BY <1>14, <2>1, <2>2, <2>3, <2>4, BecomeOwnerHolders DEF Register
  <1>15. ASSUME NEW t \in Txns, End(t) PROVE HoldersInv'
    BY <1>15 DEF End, HoldersOf, Holders, Leaving, ModeOf
  <1>16. ASSUME NEW t \in Txns, NEW l \in Locks, RemoveOwner(t, l) PROVE HoldersInv'
    <2>1. \A k \in Locks : /\ heap'[k].readers = heap[k].readers
                           /\ heap'[k].writers = heap[k].writers
                           /\ heap'[k].ownership = heap[k].ownership
      BY <1>16 DEF RemoveOwner, LockRecords
    <2>2. QED
      BY <1>16, <2>1 DEF RemoveOwner, HoldersOf, Holders, Leaving, ModeOf
  <1>17. ASSUME NEW t \in Txns, Unlock(t) PROVE HoldersInv'
    <2> PICK l \in Locks : l = lock[t]
      BY <1>17 DEF Unlock
    <2>1. lock[t] \in Locks /\ lock[t] \in locks[t]
      BY <1>17 DEF Unlock
    <2>2. /\ \A k \in Locks \ {lock[t]} : heap'[k] = heap[k]
          /\ heap'[lock[t]] = Released(heap[lock[t]], t)
      BY <1>17, <2>1 DEF Unlock
    <2>3. ASSUME NEW u \in Txns \ {t}, NEW k \in Locks PROVE HoldersOf(u, k)'
      <3>1. /\ u \in heap'[k].readers <=> u \in heap[k].readers
            /\ u \in heap'[k].writers <=> u \in heap[k].writers
            /\ heap'[k].ownership = heap[k].ownership
        BY <2>1, <2>2, LockFields
      <3>2. QED
        BY <1>17, <3>1, HoldersFrame DEF Unlock
    <2>4. pc'[t] = "releasing" /\ locks'[t] = locks[t]
      BY <1>17 DEF Unlock
    <2>5. ASSUME NEW k \in Locks \ {l} PROVE HoldersOf(t, k)'
      BY <1>17, <2>2, <2>4 DEF Unlock, HoldersOf, Holders, Leaving, ModeOf
    <2>6. HoldersOf(t, l)'
      <3>1. HoldersOf(t, l) /\ MutexOf(heap[l]) /\ l \in locks[t]
        BY <2>1 DEF MutexInv
      <3>2. /\ t \notin Released(heap[l], t).readers
            /\ t \notin Released(heap[l], t).writers
        <4>1. heap[l].ownership = "Shared" => t \notin heap[l].writers
          BY <3>1 DEF HoldersOf, Holders, ModeOf
        <4>2. heap[l].ownership # "Shared" => t \notin heap[l].readers
          BY <3>1 DEF HoldersOf, Holders, ModeOf, MutexOf
        <4>3. heap[l] \in LockRecords
          OBVIOUS
        <4>4. QED
          BY <4>1, <4>2, <4>3, LockFields
      <3>3. t \notin heap'[l].readers /\ t \notin heap'[l].writers
        BY <2>2, <3>2
      <3>4. QED
        BY <2>4, <3>3 DEF HoldersOf, Leaving, Holders
    <2>7. \A k \in Locks : HoldersOf(t, k)'
      BY <2>5, <2>6
    <2>8. QED
      BY <2>3, <2>7
  <1>18. ASSUME NEW t \in Txns, NEW l \in Locks, DropRef(t, l) PROVE HoldersInv'
    BY <1>18 DEF DropRef, HoldersOf, Holders, Leaving, ModeOf
  <1>19. ASSUME NEW t \in Txns, Ended(t) PROVE HoldersInv'
    BY <1>19 DEF Ended, HoldersOf, Holders, Leaving, ModeOf
  <1>20. CASE UNCHANGED vars
    BY <1>20, HoldersFrame DEF vars
  <1> QED
    BY <1>1, <1>2, <1>3, <1>4, <1>5, <1>6, <1>7, <1>8, <1>9, <1>10, <1>11, <1>12,
       <1>13, <1>14, <1>15, <1>16, <1>17, <1>18, <1>19, <1>20
    DEF Next, Work, Client

(* No new cycle arises when every cycle of the new graph is one of the old.  *)
LEMMA AcyclicOnOld ==
    ASSUME NEW g, NEW h, NEW S, NEW T, AcyclicOn(g, S),
           \A path \in SUBSET T :
               path # {} /\ (\A m \in path : h[m] \cap path # {})
                   => path \subseteq S /\ \A m \in path : g[m] \cap path # {}
    PROVE  AcyclicOn(h, T)
  BY DEF AcyclicOn

(* Nor from the edges of a new owner, unless addWaiters throws at it.        *)
LEMMA AddWaitersAcyclic ==
    ASSUME NEW g \in Graphs, NEW t \in Txns, NEW W, NEW S \in SUBSET Txns, AcyclicOn(g, S),
           NEW T \in SUBSET S, AddWaitersThrows(g, t, W) => t \notin T
    PROVE  AcyclicOn(AddWaiters(g, t, W), T)
  <1> DEFINE h == AddWaiters(g, t, W)
  <1>1. ASSUME NEW path \in SUBSET T, path # {}, \A m \in path : h[m] \cap path # {}
        PROVE  t \notin path
    BY <1>1 DEF AddWaitersThrows, FindDuplicate
  <1>2. \A m \in Txns : h[m] = IF m \in W THEN g[m] \cup {t} ELSE g[m]
    BY DEF AddWaiters
  <1>3. ASSUME NEW path \in SUBSET T, path # {}, \A m \in path : h[m] \cap path # {}
        PROVE  \A m \in path : g[m] \cap path # {}
    <2>1. t \notin path
      BY <1>1, <1>3
    <2>2. \A m \in path : h[m] \subseteq g[m] \cup {t}
      BY <1>2
    <2> HIDE DEF h
    <2>3. QED
      BY <1>3, <2>1, <2>2
  <1> HIDE DEF h
  <1>4. AcyclicOn(h, T)
    BY <1>3, AcyclicOnOld
  <1>5. QED
    BY <1>4 DEF h

(* Nor from those of a new waiter, when addWaitsFor does not throw.          *)
LEMMA AddWaitsForAcyclic ==
    ASSUME NEW g \in Graphs, NEW t \in Txns, NEW O \in SUBSET Txns,
           NEW S \in SUBSET Txns, AcyclicOn(g, S), ~AddWaitsForThrows(g, t, O)
    PROVE  AcyclicOn(AddWaitsFor(g, t, O), S)
  <1> DEFINE h == WithWaitsFor(g, t, O)
  <1>1. AddWaitsFor(g, t, O) = h
    BY DEF AddWaitsFor
  <1>2. \A m \in Txns : h[m] = IF m = t THEN g[m] \cup O ELSE g[m]
    BY DEF WithWaitsFor, Graphs
  <1>3. ASSUME NEW path \in SUBSET S, path # {}, \A m \in path : h[m] \cap path # {}
        PROVE  \A m \in path : g[m] \cap path # {}
    <2>1. O \cap path = {}
      BY <1>3 DEF AddWaitsForThrows, FindDuplicate
    <2>2. QED
      BY <1>2, <1>3, <2>1
  <1> HIDE DEF h
  <1>4. \A path \in SUBSET S :
            path # {} /\ (\A m \in path : h[m] \cap path # {})
                => path \subseteq S /\ \A m \in path : g[m] \cap path # {}
    BY <1>3
  <1>5. AcyclicOn(h, S)
    BY <1>4 DEF AcyclicOn
  <1>6. QED
    BY <1>1, <1>5

(* When it throws, or when a transaction leaves, edges only go away.         *)
LEMMA FewerEdgesAcyclic ==
    ASSUME NEW g \in Graphs, NEW t \in Txns, NEW h, NEW S \in SUBSET Txns, AcyclicOn(g, S),
           h[t] = {}, \A m \in Txns : h[m] \subseteq g[m]
    PROVE  AcyclicOn(h, S \cup {t}) /\ AcyclicOn(h, S \ {t})
  <1>1. ASSUME NEW path \in SUBSET (S \cup {t}), path # {},
               \A m \in path : h[m] \cap path # {}
        PROVE  path \subseteq S /\ \A m \in path : g[m] \cap path # {}
    BY <1>1
  <1> DEFINE T == S \cup {t}
  <1> HIDE DEF T
  <1>2. AcyclicOn(h, T)
    <2>1. \A path \in SUBSET T :
             path # {} /\ (\A m \in path : h[m] \cap path # {})
                 => path \subseteq S /\ \A m \in path : g[m] \cap path # {}
      BY <1>1 DEF T
    <2>2. QED
      BY <2>1 DEF AcyclicOn
  <1>3. QED
    BY <1>2 DEF AcyclicOn, T

(* Every cycle of the waits-for graph keeps a transaction that was thrown at. *)
LEMMA CyclesStep ==
    ASSUME TypeOK, LocalsInv, CyclesAreCaught, Next
    PROVE  CyclesAreCaught'
  <1> USE DEF TypeOK, LocalsInv, HasLock, CyclesAreCaught
  <1> DEFINE Alive == {u \in Txns : pc[u] # "aborted"}
  <1>1. ASSUME NEW t \in Txns, Begin(t) PROVE CyclesAreCaught'
    <2>1. graph' = graph /\ Alive' = Alive
      BY <1>1 DEF Begin
    <2>2. QED
      BY <2>1
  <1>2. ASSUME NEW t \in Txns, NEW i \in Items, NEW mode \in Modes, AddLock(t, i, mode) PROVE CyclesAreCaught'
    <2>1. graph' = graph /\ Alive' = Alive
      BY <1>2 DEF AddLock
    <2>2. QED
      BY <2>1
  <1>3. ASSUME NEW t \in Txns, NEW l \in Locks, DeleteExpired(t, l) PROVE CyclesAreCaught'
    <2>1. graph' = graph /\ Alive' = Alive
      BY <1>3 DEF DeleteExpired, Delete
    <2>2. QED
      BY <2>1
  <1>4. ASSUME NEW t \in Txns, NEW l \in Locks, Skip(t, l) PROVE CyclesAreCaught'
    <2>1. graph' = graph /\ Alive' = Alive
      BY <1>4 DEF Skip
    <2>2. QED
      BY <2>1
  <1>5. ASSUME NEW t \in Txns, NEW l \in Locks, Find(t, l) PROVE CyclesAreCaught'
    <2>1. graph' = graph /\ Alive' = Alive
      BY <1>5 DEF Find
    <2>2. QED
      BY <2>1
  <1>6. ASSUME NEW t \in Txns, NEW l \in Locks, Construct(t, l) PROVE CyclesAreCaught'
    <2>1. graph' = graph /\ Alive' = Alive
      BY <1>6 DEF Construct
    <2>2. QED
      BY <2>1
  <1>7. ASSUME NEW t \in Txns, Promote(t) PROVE CyclesAreCaught'
    <2>1. graph' = graph /\ Alive' = Alive
      BY <1>7 DEF Promote
    <2>2. QED
      BY <2>1
  <1>8. ASSUME NEW t \in Txns, PromoteFails(t) PROVE CyclesAreCaught'
    <2>1. graph' = graph /\ Alive' = Alive
      BY <1>8 DEF PromoteFails, Delete
    <2>2. QED
      BY <2>1
  <1>9. ASSUME NEW t \in Txns, TryLock(t) PROVE CyclesAreCaught'
    <2> DEFINE W == Acquired(heap[lock[t]], t).waiters \ {t}
    <2>1. /\ graph' = AddWaiters(graph, t, W)
          /\ Alive' \subseteq Alive
          /\ AddWaitersThrows(graph, t, W) => t \notin Alive'
      BY <1>9 DEF TryLock, BecomeOwner
    <2>2. AcyclicOn(AddWaiters(graph, t, W), Alive')
      BY <2>1, AddWaitersAcyclic
    <2>3. QED
      BY <2>1, <2>2
  <1>10. ASSUME NEW t \in Txns, TryLockFails(t) PROVE CyclesAreCaught'
    <2>1. graph' = graph /\ Alive' = Alive
      BY <1>10 DEF TryLockFails
    <2>2. QED
      BY <2>1
  <1>11. ASSUME NEW t \in Txns, WaitFor(t) PROVE CyclesAreCaught'
    <2>1. heap[lock[t]].owners \in SUBSET Txns
      BY <1>11 DEF WaitFor, LockRecords
    <2>2. AcyclicOn(graph', Alive)
      BY <1>11, <2>1, AddWaitsForAcyclic DEF WaitFor
    <2>3. Alive' = Alive
      BY <1>11 DEF WaitFor
    <2>4. QED
      BY <2>2, <2>3
  <1>12. ASSUME NEW t \in Txns, WaitForThrows(t) PROVE CyclesAreCaught'
    <2>1. graph'[t] = {} /\ \A m \in Txns : graph'[m] \subseteq graph[m]
      BY <1>12 DEF WaitForThrows, AddWaitsFor, Graphs
    <2>2. AcyclicOn(graph', Alive \ {t})
      BY <2>1, FewerEdgesAcyclic
    <2>3. Alive' = Alive \ {t}
      BY <1>12 DEF WaitForThrows
    <2>4. QED
      BY <2>2, <2>3
  <1>13. ASSUME NEW t \in Txns, WakeUp(t) PROVE CyclesAreCaught'
    <2>1. graph' = graph /\ Alive' = Alive
      BY <1>13 DEF WakeUp
    <2>2. QED
      BY <2>1
  <1>14. ASSUME NEW t \in Txns, Register(t) PROVE CyclesAreCaught'
    <2> DEFINE W == heap[lock[t]].waiters \ {t}
    <2>1. /\ graph' = AddWaiters(graph, t, W)
          /\ Alive' \subseteq Alive
          /\ AddWaitersThrows(graph, t, W) => t \notin Alive'
      BY <1>14 DEF Register, BecomeOwner
    <2>2. AcyclicOn(AddWaiters(graph, t, W), Alive')
      BY <2>1, AddWaitersAcyclic
    <2>3. QED
      BY <2>1, <2>2
  <1>15. ASSUME NEW t \in Txns, End(t) PROVE CyclesAreCaught'
    <2>1. graph'[t] = {} /\ \A m \in Txns : graph'[m] \subseteq graph[m]
      BY <1>15 DEF End, RemoveTransaction, Graphs
    <2>2. AcyclicOn(graph', Alive \cup {t})
      BY <2>1, FewerEdgesAcyclic
    <2>3. Alive' = Alive \cup {t}
      BY <1>15 DEF End
    <2>4. QED
      BY <2>2, <2>3
  <1>16. ASSUME NEW t \in Txns, NEW l \in Locks, RemoveOwner(t, l) PROVE CyclesAreCaught'
    <2>1. graph' = graph /\ Alive' = Alive
      BY <1>16 DEF RemoveOwner
    <2>2. QED
      BY <2>1
  <1>17. ASSUME NEW t \in Txns, Unlock(t) PROVE CyclesAreCaught'
    <2>1. graph' = graph /\ Alive' = Alive
      BY <1>17 DEF Unlock
    <2>2. QED
      BY <2>1
  <1>18. ASSUME NEW t \in Txns, NEW l \in Locks, DropRef(t, l) PROVE CyclesAreCaught'
    <2>1. graph' = graph /\ Alive' = Alive
      BY <1>18 DEF DropRef
    <2>2. QED
      BY <2>1
  <1>19. ASSUME NEW t \in Txns, Ended(t) PROVE CyclesAreCaught'
    <2>1. graph' = graph /\ Alive' = Alive
      BY <1>19 DEF Ended
    <2>2. QED
      BY <2>1
  <1>20. CASE UNCHANGED vars
    BY <1>20 DEF vars
  <1> QED
    BY <1>1, <1>2, <1>3, <1>4, <1>5, <1>6, <1>7, <1>8, <1>9, <1>10, <1>11, <1>12,
       <1>13, <1>14, <1>15, <1>16, <1>17, <1>18, <1>19, <1>20
    DEF Next, Work, Client

(* The lists of a Lock after each of its updates.                            *)
LEMMA LockLists ==
    ASSUME NEW rec \in LockRecords, NEW t \in Txns
    PROVE  /\ Owned(rec, t).owners = rec.owners \cup {t}
           /\ Owned(rec, t).waiters = rec.waiters \ {t}
           /\ Acquired(rec, t).owners = rec.owners
           /\ Acquired(rec, t).waiters = rec.waiters
           /\ Orphaned(rec, t).owners = rec.owners
           /\ Orphaned(rec, t).waiters = rec.waiters
           /\ Released(rec, t).owners = rec.owners
           /\ Released(rec, t).waiters = rec.waiters
  BY DEF LockRecords, Owned, Acquired, Orphaned, Released

(* The new owner of a lock is listed, and every blocked waiter has an edge to *)
(* it, whichever of them came first.                                         *)
LEMMA BecomeOwnerWaits ==
    ASSUME TypeOK, WaitsInv, NEW t \in Txns, pc[t] \in {"request", "awake"},
           NEW l \in Locks, lock[t] = l,
           NEW rec \in LockRecords, Owned(rec, t) \in LockRecords,
           rec.owners = heap[l].owners, rec.waiters = heap[l].waiters,
           BecomeOwner(t, rec)
    PROVE  WaitsInv'
  <1> USE DEF TypeOK
  <1> DEFINE throws == AddWaitersThrows(graph, t, rec.waiters \ {t})
  <1>1. /\ \A k \in Locks \ {l} : heap'[k] = heap[k]
        /\ heap'[l] = IF throws THEN Orphaned(Owned(rec, t), t) ELSE Owned(rec, t)
        /\ locks'[t] = IF throws THEN locks[t] ELSE locks[t] \cup {l}
        /\ pc'[t] \in {"aborted", "running"}
    BY DEF BecomeOwner
  <1>2. /\ heap'[l].owners = heap[l].owners \cup {t}
        /\ heap'[l].waiters = heap[l].waiters \ {t}
    BY <1>1, LockLists
  <1>3. \A u \in Txns \ {t} : /\ pc'[u] = pc[u] /\ lock'[u] = lock[u]
                              /\ locks'[u] = locks[u]
    BY BecomeOwnerLocals
  <1>4. \A u \in Txns : /\ graph[u] \subseteq graph'[u]
                        /\ u \in heap[l].waiters \ {t} => t \in graph'[u]
    BY DEF BecomeOwner, AddWaiters, Graphs
  <1>5. \A u \in Txns, k \in Locks : ListedOf(u, k)'
    <2> TAKE u \in Txns, k \in Locks
    <2>1. CASE u = t
      <3>1. k \in locks'[t] => k = l \/ k \in locks[t]
        BY <1>1
      <3>2. k \in locks[t] => t \in heap[k].owners
        BY DEF WaitsInv, ListedOf, Leaving
      <3>3. k \in locks'[t] => t \in heap'[k].owners
        BY <1>1, <1>2, <3>1, <3>2
      <3>4. QED
        BY <1>1, <2>1, <3>3 DEF ListedOf
    <2>2. CASE u # t
      <3>1. /\ u \in heap[k].owners => u \in heap'[k].owners
            /\ u \in heap[k].waiters => u \in heap'[k].waiters
        BY <1>1, <1>2, <2>2
      <3>2. QED
        BY <1>3, <2>2, <3>1 DEF WaitsInv, ListedOf, Leaving
    <2>3. QED
      BY <2>1, <2>2
  <1>6. \A v, u \in Txns, k \in Locks : v # u => EdgeOf(v, u, k)'
    <2> SUFFICES ASSUME NEW v \in Txns, NEW u \in Txns, NEW k \in Locks, v # u,
                        v # t, pc[v] = "blocked", lock[v] = k, k \in locks'[u],
                        ~Leaving(u)'
                 PROVE  u \in graph'[v]
      BY <1>1, <1>3 DEF EdgeOf
    <2>1. CASE u = t /\ k = l
      BY <1>4, <2>1 DEF WaitsInv, ListedOf
    <2>2. CASE ~(u = t /\ k = l)
      BY <1>1, <1>3, <1>4, <2>2 DEF WaitsInv, EdgeOf, Leaving
    <2>3. QED
      BY <2>1, <2>2
  <1>7. QED
    BY <1>5, <1>6 DEF WaitsInv

(* Owners and waiters are listed and linked in the graph.                    *)
LEMMA WaitsStep ==
    ASSUME TypeOK, LocalsInv, ChainIntegrity, WaitsInv, ConstantsAssumption, Next
    PROVE  WaitsInv'
  <1> USE DEF TypeOK, LocalsInv, Asking, InChain, HasLock
  <1>1. ASSUME NEW t \in Txns, Begin(t) PROVE WaitsInv'
    BY <1>1 DEF Begin, WaitsInv, ListedOf, EdgeOf, Leaving
  <1>2. ASSUME NEW t \in Txns, NEW i \in Items, NEW mode \in Modes, AddLock(t, i, mode) PROVE WaitsInv'
    BY <1>2 DEF AddLock, WaitsInv, ListedOf, EdgeOf, Leaving
  <1>3. ASSUME NEW t \in Txns, NEW l \in Locks, DeleteExpired(t, l) PROVE WaitsInv'
    <2>1. \A u \in Txns : ~HasRef(u, l)
      BY <1>3 DEF DeleteExpired, Expired
    <2>2. \A k \in Locks \ {l} : heap'[k] = heap[k]
      BY <1>3 DEF DeleteExpired, Delete
    <2>3. \A u \in Txns : /\ l \notin locks[u]
                          /\ pc[u] \in {"blocked", "awake"} => lock[u] # l
      BY <2>1 DEF HasRef
    <2>4. /\ locks' = locks /\ graph' = graph
          /\ \A u \in Txns : pc'[u] \in {"blocked", "awake", "releasing", "unlocking"}
                 => pc'[u] = pc[u] /\ lock'[u] = lock[u]
          /\ \A u \in Txns : Leaving(u)' <=> Leaving(u)
      BY <1>3 DEF DeleteExpired, Leaving
    <2>5. QED
      BY <2>2, <2>3, <2>4 DEF WaitsInv, ListedOf, EdgeOf
  <1>4. ASSUME NEW t \in Txns, NEW l \in Locks, Skip(t, l) PROVE WaitsInv'
    BY <1>4 DEF Skip, WaitsInv, ListedOf, EdgeOf, Leaving
  <1>5. ASSUME NEW t \in Txns, NEW l \in Locks, Find(t, l) PROVE WaitsInv'
    BY <1>5 DEF Find, WaitsInv, ListedOf, EdgeOf, Leaving
  <1>6. ASSUME NEW t \in Txns, NEW l \in Locks, Construct(t, l) PROVE WaitsInv'
    <2>1. \A u \in Txns : ~HasRef(u, l)
      BY <1>6 DEF Construct, ChainIntegrity, ConstantsAssumption
    <2>2. \A k \in Locks \ {l} : heap'[k] = heap[k]
      BY <1>6 DEF Construct
    <2>3. \A u \in Txns : /\ l \notin locks[u]
                          /\ pc[u] \in {"blocked", "awake"} => lock[u] # l
      BY <2>1 DEF HasRef
    <2>4. /\ locks' = locks /\ graph' = graph
          /\ \A u \in Txns : pc'[u] \in {"blocked", "awake", "releasing", "unlocking"}
                 => pc'[u] = pc[u] /\ lock'[u] = lock[u]
          /\ \A u \in Txns : Leaving(u)' <=> Leaving(u)
      BY <1>6 DEF Construct, Leaving
    <2>5. QED
      BY <2>2, <2>3, <2>4 DEF WaitsInv, ListedOf, EdgeOf
  <1>7. ASSUME NEW t \in Txns, Promote(t) PROVE WaitsInv'
    BY <1>7 DEF Promote, WaitsInv, ListedOf, EdgeOf, Leaving
  <1>8. ASSUME NEW t \in Txns, PromoteFails(t) PROVE WaitsInv'
    <2>1. \A u \in Txns : ~HasRef(u, lock[t])
      BY <1>8 DEF PromoteFails, Expired
    <2>2. \A k \in Locks \ {lock[t]} : heap'[k] = heap[k]
      BY <1>8 DEF PromoteFails, Delete
    <2>3. \A u \in Txns : /\ lock[t] \notin locks[u]
                          /\ pc[u] \in {"blocked", "awake"} => lock[u] # lock[t]
      BY <2>1 DEF HasRef
    <2>4. /\ locks' = locks /\ graph' = graph
          /\ \A u \in Txns : pc'[u] \in {"blocked", "awake", "releasing", "unlocking"}
                 => pc'[u] = pc[u] /\ lock'[u] = lock[u]
          /\ \A u \in Txns : Leaving(u)' <=> Leaving(u)
      BY <1>8 DEF PromoteFails, Leaving
    <2>5. QED
      BY <2>2, <2>3, <2>4 DEF WaitsInv, ListedOf, EdgeOf
  <1>9. ASSUME NEW t \in Txns, TryLock(t) PROVE WaitsInv'
    <2>1. lock[t] \in Locks /\ want[t] \in Requests
      BY <1>9 DEF TryLock
    <2>2. /\ Acquired(heap[lock[t]], t) \in LockRecords
          /\ Owned(Acquired(heap[lock[t]], t), t) \in LockRecords
      BY <2>1, LockUpdatesType
    <2>3. QED
      BY <1>9, <2>1, <2>2, LockLists, BecomeOwnerWaits DEF TryLock
  <1>10. ASSUME NEW t \in Txns, TryLockFails(t) PROVE WaitsInv'
    BY <1>10 DEF TryLockFails, WaitsInv, ListedOf, EdgeOf, Leaving
  <1>11. ASSUME NEW t \in Txns, WaitFor(t) PROVE WaitsInv'
    <2>1. lock[t] \in Locks /\ heap[lock[t]].owners \in SUBSET Txns
      BY <1>11 DEF WaitFor, LockRecords
    <2>2. /\ \A u \in Txns : graph[u] \subseteq graph'[u]
          /\ heap[lock[t]].owners \subseteq graph'[t]
      BY <1>11 DEF WaitFor, AddWaitsFor, WithWaitsFor, Graphs
    <2>3. /\ \A k \in Locks : /\ heap'[k].owners = heap[k].owners
                              /\ heap[k].waiters \subseteq heap'[k].waiters
          /\ t \in heap'[lock[t]].waiters
      BY <1>11, <2>1 DEF WaitFor, LockRecords
    <2>4. \A u \in Txns, k \in Locks : ListedOf(u, k)'
      BY <1>11, <2>3 DEF WaitFor, WaitsInv, ListedOf, Leaving
    <2>5. \A v, u \in Txns, k \in Locks : v # u => EdgeOf(v, u, k)'
      BY <1>11, <2>2 DEF WaitFor, WaitsInv, EdgeOf, ListedOf, Leaving
    <2>6. QED
      BY <2>4, <2>5 DEF WaitsInv
  <1>12. ASSUME NEW t \in Txns, WaitForThrows(t) PROVE WaitsInv'
    <2>1. \A u \in Txns \ {t} : graph'[u] = graph[u]
      BY <1>12 DEF WaitForThrows, AddWaitsFor, WithWaitsFor, Graphs
    <2>2. QED
      BY <1>12, <2>1 DEF WaitForThrows, WaitsInv, ListedOf, EdgeOf, Leaving
  <1>13. ASSUME NEW t \in Txns, WakeUp(t) PROVE WaitsInv'
    <2>1. lock[t] \in Locks
      BY <1>13 DEF WakeUp
    <2>2. \A k \in Locks : /\ heap'[k].owners = heap[k].owners
                           /\ heap'[k].waiters = heap[k].waiters
      BY <1>13, <2>1, LockLists DEF WakeUp
    <2>3. QED
      BY <1>13, <2>2 DEF WakeUp, WaitsInv, ListedOf, EdgeOf, Leaving
  <1>14. ASSUME NEW t \in Txns, Register(t) PROVE WaitsInv'
    <2>1. lock[t] \in Locks /\ want[t] \in Requests
      BY <1>14 DEF Register
    <2>2. Owned(heap[lock[t]], t) \in LockRecords
      BY <2>1, LockUpdatesType
    <2>3. QED
      BY <1>14, <2>1, <2>2, BecomeOwnerWaits DEF Register
  <1>15. ASSUME NEW t \in Txns, End(t) PROVE WaitsInv'
    BY <1>15 DEF End, RemoveTransaction, Graphs, WaitsInv, ListedOf, EdgeOf, Leaving
  <1>16. ASSUME NEW t \in Txns, NEW l \in Locks, RemoveOwner(t, l) PROVE WaitsInv'
    <2>1. \A k \in Locks : /\ heap'[k].waiters = heap[k].waiters
                           /\ \A u \in Txns \ {t} : u \in heap[k].owners => u \in heap'[k].owners
      BY <1>16 DEF RemoveOwner, LockRecords
    <2>2. QED
      BY <1>16, <2>1 DEF RemoveOwner, WaitsInv, ListedOf, EdgeOf, Leaving
  <1>17. ASSUME NEW t \in Txns, Unlock(t) PROVE WaitsInv'
    <2>1. lock[t] \in Locks
      BY <1>17 DEF Unlock
    <2>2. \A k \in Locks : /\ heap'[k].owners = heap[k].owners
                           /\ heap'[k].waiters = heap[k].waiters
      BY <1>17, <2>1, LockLists DEF Unlock
    <2>3. QED
      BY <1>17, <2>2 DEF Unlock, WaitsInv, ListedOf, EdgeOf, Leaving
  <1>18. ASSUME NEW t \in Txns, NEW l \in Locks, DropRef(t, l) PROVE WaitsInv'
    BY <1>18 DEF DropRef, WaitsInv, ListedOf, EdgeOf, Leaving
  <1>19. ASSUME NEW t \in Txns, Ended(t) PROVE WaitsInv'
    BY <1>19 DEF Ended, WaitsInv, ListedOf, EdgeOf, Leaving
  <1>20. CASE UNCHANGED vars
    BY <1>20 DEF vars, WaitsInv, ListedOf, EdgeOf, Leaving
  <1> QED
    BY <1>1, <1>2, <1>3, <1>4, <1>5, <1>6, <1>7, <1>8, <1>9, <1>10, <1>11, <1>12,
       <1>13, <1>14, <1>15, <1>16, <1>17, <1>18, <1>19, <1>20
    DEF Next, Work, Client

------------------------------------------------------------------------------
(* The invariant holds in every execution, and what follows from it. *)

(* The inductive invariant holds before any transaction begins.              *)
LEMMA InitInv ==
    ASSUME Init, ConstantsAssumption
    PROVE  IInv
  <1> USE DEF Init, Freed, NewLock, NoRequest
  <1>1. TypeOK
    BY DEF TypeOK, LockRecords, Graphs, EmptyGraph
  <1>2. LocalsInv /\ ChainLatchInv
    BY DEF LocalsInv, ChainLatchInv, Asking, InChain, HasLock, ConstantsAssumption
  <1>3. \A t \in Txns, l \in Locks : ~HasRef(t, l)
    BY DEF HasRef, ConstantsAssumption
  <1>4. ChainIntegrity /\ WalkInv
    BY <1>3 DEF ChainIntegrity, WalkInv, WalkOf, Asking, InChain, HasLock
  <1>5. MutexInv
    BY DEF MutexInv, MutexOf
  <1>6. HoldersInv
    BY DEF HoldersInv, HoldersOf, Holders
  <1>7. WaitsInv
    BY DEF WaitsInv, ListedOf, EdgeOf
  <1>8. CyclesAreCaught
    BY DEF CyclesAreCaught, AcyclicOn, EmptyGraph
  <1>9. QED
    BY <1>1, <1>2, <1>4, <1>5, <1>6, <1>7, <1>8 DEF IInv

(* The inductive invariant is inductive.                                     *)
LEMMA InvStep ==
    ASSUME IInv, ConstantsAssumption, [Next]_vars
    PROVE  IInv'
  <1>1. ASSUME Next PROVE IInv'
    <2> USE <1>1 DEF IInv
    <2>1. TypeOK' /\ LocalsInv' /\ ChainLatchInv'
      BY TypeStep, LocalsStep, ChainLatchStep
    <2>2. ChainIntegrity' /\ WalkInv'
      BY <2>1, ChainStep, WalkStep
    <2>3. MutexInv' /\ HoldersInv'
      BY <2>1, MutexStep, HoldersStep
    <2>4. WaitsInv' /\ CyclesAreCaught'
      BY WaitsStep, CyclesStep
    <2>5. QED
      BY <2>1, <2>2, <2>3, <2>4
  <1>2. CASE UNCHANGED vars
    BY <1>2 DEF vars, IInv, TypeOK, LocalsInv, ChainLatchInv, ChainIntegrity, HasRef,
        WalkInv, WalkOf, MyChain, MutexInv, MutexOf, HoldersInv, HoldersOf, Holders,
        Leaving, ModeOf, WaitsInv, ListedOf, EdgeOf, CyclesAreCaught, AcyclicOn
  <1>3. QED
    BY <1>1, <1>2

(* So it holds in every reachable state, for every value of the constants.   *)
THEOREM Invariant == Spec => []IInv
  <1>1. Init => IInv
    BY InitInv, ConstantsAssumption
  <1>2. IInv /\ [Next]_vars => IInv'
    BY InvStep, ConstantsAssumption
  <1>3. QED
    BY <1>1, <1>2, PTL DEF Spec

(* Every variable keeps its type.                                            *)
THEOREM TypeCorrect == Spec => []TypeOK
  <1>1. IInv => TypeOK
    BY DEF IInv
  <1>2. QED
    BY <1>1, Invariant, PTL

(* Conflicting locks of an item are never granted to two transactions, not   *)
(* even through two Lock objects.                                            *)
THEOREM MutualExclusionHolds == Spec => []MutualExclusion
  <1>1. IInv => MutualExclusion
    <2> SUFFICES ASSUME IInv,
                        NEW t \in Txns, NEW u \in Txns, t # u,
                        NEW k \in locks[t], t \in Holders(k),
                        NEW l \in locks[u], u \in Holders(l),
                        heap[k].item = heap[l].item
                 PROVE  ModeOf(t, k) = "Shared" /\ ModeOf(u, l) = "Shared"
      BY DEF MutualExclusion, Granted
    <2>1. k \in Locks /\ l \in Locks
      BY DEF IInv, TypeOK
    <2>2. k = l
      BY <2>1, ConstantsAssumption DEF IInv, ChainIntegrity, HasRef, ConstantsAssumption
    <2>3. MutexOf(heap[l])
      BY <2>1 DEF IInv, MutexInv
    <2>4. QED
      BY <2>2, <2>3 DEF MutexOf, Holders, ModeOf
  <1>2. QED
    BY <1>1, Invariant, PTL

(* The chain walk frees nothing that is referenced and makes no second lock. *)
THEOREM ChainIntegrityHolds == Spec => []ChainIntegrity
  <1>1. IInv => ChainIntegrity
    BY DEF IInv
  <1>2. QED
    BY <1>1, Invariant, PTL

(* ~Transaction unlocks in the mode in which the lock is held, and           *)
(* getLockMode reports it.                                                   *)
THEOREM OwnershipTruthfulHolds == Spec => []OwnershipTruthful
  <1>1. IInv => OwnershipTruthful
    <2> SUFFICES ASSUME IInv, NEW t \in Txns, NEW l \in locks[t], t \in Holders(l)
                 PROVE  GetLockMode(heap[l].item) = ModeOf(t, l)
      BY DEF OwnershipTruthful, Granted
    <2> DEFINE i == heap[l].item
               found == {k \in chain[hash[i]] : heap[k].item = i}
    <2>1. l \in Locks
      BY DEF IInv, TypeOK
    <2>2. i \in Items /\ hash[i] \in Buckets /\ l \in found /\ ~Expired(l)
      BY <2>1, ConstantsAssumption
      DEF IInv, ChainIntegrity, HasRef, Expired, ConstantsAssumption
    <2>3. \A k \in found : k = l
      BY <2>2 DEF IInv, ChainIntegrity
    <2>4. (CHOOSE k \in found : ~Expired(k)) = l
      BY <2>2, <2>3
    <2>5. heap[l].ownership = ModeOf(t, l)
      BY <2>1 DEF IInv, HoldersInv, HoldersOf
    <2>6. QED
      BY <2>2, <2>4, <2>5 DEF GetLockMode
  <1>2. QED
    BY <1>1, Invariant, PTL

(* Every cycle of the waits-for graph has a transaction that was thrown at.  *)
THEOREM CyclesAreCaughtHolds == Spec => []CyclesAreCaught
  <1>1. IInv => CyclesAreCaught
    BY DEF IInv
  <1>2. QED
    BY <1>1, Invariant, PTL

(* No set of transactions waits for each other for good.                     *)
THEOREM NoUndetectedDeadlockHolds == Spec => []NoUndetectedDeadlock
  <1>1. IInv => NoUndetectedDeadlock
    <2> SUFFICES ASSUME IInv, NEW D \in SUBSET {t \in Txns : pc[t] = "blocked"},
                        D # {}, \A t \in D : Blockers(t) \cap D # {}
                 PROVE  FALSE
      BY DEF NoUndetectedDeadlock
    <2>1. ASSUME NEW t \in D PROVE graph[t] \cap D # {}
      <3>1. PICK u \in D : u \in Holders(lock[t])
        BY DEF Blockers, Holders
      <3>2. t \in Txns /\ u \in Txns /\ pc[t] = "blocked" /\ pc[u] = "blocked"
        OBVIOUS
      <3>3. lock[t] \in Locks
        BY <3>2 DEF IInv, LocalsInv, HasLock
      <3>4. lock[t] \in locks[u] /\ ~Leaving(u)
        BY <3>1, <3>2, <3>3 DEF IInv, HoldersInv, HoldersOf, Leaving
      <3>5. lock[t] \notin locks[t]
        BY <3>2 DEF IInv, WalkInv, WalkOf, Asking, HasLock
      <3>6. u \in graph[t]
        BY <3>2, <3>3, <3>4, <3>5 DEF IInv, WaitsInv, EdgeOf
      <3>7. QED
        BY <3>6
    <2>2. D \in SUBSET {t \in Txns : pc[t] # "aborted"}
      OBVIOUS
    <2>3. QED
      BY <2>1, <2>2 DEF IInv, CyclesAreCaught, AcyclicOn
  <1>2. QED
    BY <1>1, Invariant, PTL

------------------------------------------------------------------------------

(***************************************************************************)
(* Refinement.  What a transaction has been granted only depends on its    *)
(* locks, their items, and whether and how it holds each of them.          *)
(***************************************************************************)
LEMMA GrantedFrame ==
    ASSUME NEW u \in Txns, locks'[u] = locks[u],
           \A k \in locks[u] :
               /\ heap'[k].item = heap[k].item
               /\ u \in heap'[k].readers <=> u \in heap[k].readers
               /\ u \in heap'[k].writers <=> u \in heap[k].writers
    PROVE  Granted(u)' = Granted(u)
  BY DEF Granted, Holders, ModeOf

(* Two locks of an item are the same Lock object.                            *)
LEMMA SameItemSameLock ==
    ASSUME IInv, ConstantsAssumption, NEW t \in Txns, NEW u \in Txns,
           NEW k \in Locks, NEW l \in Locks, HasRef(t, k), HasRef(u, l),
           heap[k].item = heap[l].item
    PROVE  k = l
  BY DEF IInv, ChainIntegrity, ConstantsAssumption

(***************************************************************************)
(* Becoming an owner grants the lock that was asked for, to a table in     *)
(* which nothing conflicts with it, or, when addWaiters throws, nothing.   *)
(***************************************************************************)
LEMMA BecomeOwnerGrants ==
    ASSUME IInv, TypeOK', NEW t \in Txns, pc[t] \in {"request", "awake"},
           NEW l \in Locks, lock[t] = l, want[t] \in Requests,
           NEW rec \in LockRecords, Owned(rec, t) \in LockRecords, MutexOf(rec),
           rec.item = heap[l].item,
           t \in IF want[t].mode = "Shared" THEN rec.readers ELSE rec.writers,
           \A u \in Txns \ {t} : /\ u \in rec.readers <=> u \in heap[l].readers
                                 /\ u \in rec.writers <=> u \in heap[l].writers,
           BecomeOwner(t, rec), ConstantsAssumption
    PROVE  \/ UNCHANGED <<[u \in Txns |-> Granted(u)], [u \in Txns |-> PhaseOf(u)]>>
           \/ Table!Grant(t, want[t])
  <1> USE DEF TypeOK, IInv
  <1> DEFINE throws == AddWaitersThrows(graph, t, rec.waiters \ {t})
             g == want[t]
  <1>1. /\ \A k \in Locks \ {l} : heap'[k] = heap[k]
        /\ heap'[l] = IF throws THEN Orphaned(Owned(rec, t), t) ELSE Owned(rec, t)
        /\ locks'[t] = IF throws THEN locks[t] ELSE locks[t] \cup {l}
        /\ pc'[t] = IF throws THEN "aborted" ELSE "running"
    BY DEF BecomeOwner
  <1>2. /\ heap'[l].item = heap[l].item
        /\ \A u \in Txns \ {t} : /\ u \in heap'[l].readers <=> u \in heap[l].readers
                                 /\ u \in heap'[l].writers <=> u \in heap[l].writers
    BY <1>1, LockFields, ItemsKept
  <1>3. heap[l].item = g.item /\ \A k \in locks[t] : heap[k].item # g.item
    BY DEF WalkInv, WalkOf, HasLock, Asking
  <1>4. \A u \in Txns \ {t} : Granted(u)' = Granted(u)
    <2> TAKE u \in Txns \ {t}
    <2>1. locks'[u] = locks[u]
      BY BecomeOwnerLocals
    <2>2. \A k \in locks[u] :
             /\ heap'[k].item = heap[k].item
             /\ u \in heap'[k].readers <=> u \in heap[k].readers
             /\ u \in heap'[k].writers <=> u \in heap[k].writers
      BY <1>1, <1>2
    <2>3. QED
      BY <2>1, <2>2, GrantedFrame
  <1>5. \A u \in Txns : PhaseOf(u)' = PhaseOf(u)
    <2>1. PhaseOf(t)' = PhaseOf(t)
      BY <1>1 DEF PhaseOf, Leaving
    <2>2. \A u \in Txns \ {t} : PhaseOf(u)' = PhaseOf(u)
      BY BecomeOwnerLocals DEF PhaseOf, Leaving
    <2>3. QED
      BY <2>1, <2>2
  <1>6. CASE throws
    <2>1. Granted(t)' = Granted(t)
      BY <1>1, <1>3, <1>6 DEF Granted, Holders, ModeOf
    <2>2. QED
      BY <1>4, <1>5, <2>1
  <1>7. CASE ~throws
    <2>1. heap'[l].readers = rec.readers /\ heap'[l].writers = rec.writers
      BY <1>1, <1>7, LockFields
    <2>2. ModeOf(t, l)' = g.mode /\ t \in Holders(l)'
      BY <2>1, ConstantsAssumption
      DEF ModeOf, Holders, MutexOf, Requests, ConstantsAssumption
    <2>3. g = [item |-> heap'[l].item, mode |-> ModeOf(t, l)']
      BY <1>2, <1>3, <2>2 DEF Requests
    <2>4. Granted(t)' = Granted(t) \cup {g}
      <3>1. \A k \in locks[t] : /\ k # l /\ heap'[k].item = heap[k].item
                                /\ (t \in Holders(k))' <=> t \in Holders(k)
                                /\ ModeOf(t, k)' = ModeOf(t, k)
        BY <1>1, <1>3 DEF Holders, ModeOf
      <3>2. locks'[t] = locks[t] \cup {l}
        BY <1>1, <1>7
      <3>3. QED
        BY <2>2, <2>3, <3>1, <3>2 DEF Granted
    <2>5. ASSUME NEW u \in Txns, NEW h \in Granted(u) PROVE Table!Compatible(g, h)
      <3>1. PICK k \in locks[u] : /\ u \in Holders(k)
                                  /\ h = [item |-> heap[k].item, mode |-> ModeOf(u, k)]
        BY DEF Granted
      <3>2. SUFFICES ASSUME g.item = h.item PROVE g.mode = "Shared" /\ h.mode = "Shared"
        BY DEF Table!Compatible
      <3>3. k \in Locks /\ HasRef(u, k) /\ HasRef(t, l)
        BY DEF HasRef
      <3>4. k = l
        BY <1>3, <3>1, <3>2, <3>3, SameItemSameLock
      <3>5. u # t
        BY <1>3, <3>1, <3>4
      <3>6. u \in rec.readers \cup rec.writers
        BY <3>1, <3>4, <3>5 DEF Holders
      <3>7. g.mode = "Shared" /\ u \notin rec.writers
        BY <3>5, <3>6 DEF MutexOf
      <3>8. QED
        BY <3>1, <3>4, <3>5, <3>7 DEF ModeOf
    <2>6. \A h \in Granted(t) : h.item # g.item
      BY <1>3 DEF Granted
    <2>7. PhaseOf(t) = "growing"
      BY DEF PhaseOf, Leaving
    <2>8. QED
      BY <1>4, <1>5, <2>4, <2>5, <2>6, <2>7 DEF Table!Grant
  <1>8. QED
    BY <1>6, <1>7

(* Every step of the lock manager is a step of the lock table or invisible there. *)
LEMMA NextRefines ==
    ASSUME IInv, IInv', Next
    PROVE  [Table!TableNext]_Table!tableVars
  <1> DEFINE TableStep == [Table!TableNext]_Table!tableVars
  <1> USE DEF Table!tableVars
  <1> USE DEF TypeOK, IInv, LocalsInv, Asking, InChain, HasLock
  <1>1. ASSUME NEW t \in Txns, Begin(t) PROVE TableStep
    <2>1. \A u \in Txns : Granted(u)' = Granted(u)
      BY <1>1, GrantedFrame DEF Begin
    <2>2. \A u \in Txns \ {t} : PhaseOf(u)' = PhaseOf(u)
      BY <1>1 DEF Begin, PhaseOf, Leaving
    <2>3. PhaseOf(t) = "out" /\ PhaseOf(t)' = "growing"
      BY <1>1 DEF Begin, PhaseOf, Leaving
    <2>4. Table!Enter(t)
      BY <2>1, <2>2, <2>3 DEF Table!Enter
    <2>5. QED
      BY <2>4 DEF Table!TableNext
  <1>2. ASSUME NEW t \in Txns, NEW i \in Items, NEW mode \in Modes, AddLock(t, i, mode) PROVE TableStep
    <2>1. \A u \in Txns : Granted(u)' = Granted(u)
      BY <1>2, GrantedFrame DEF AddLock
    <2>2. \A u \in Txns : PhaseOf(u)' = PhaseOf(u)
      BY <1>2 DEF AddLock, PhaseOf, Leaving
    <2>3. QED
      BY <2>1, <2>2
  <1>3. ASSUME NEW t \in Txns, NEW l \in Locks, DeleteExpired(t, l) PROVE TableStep
    <2>0. l \in Locks /\ \A u \in Txns : ~HasRef(u, l)
      BY <1>3, ConstantsAssumption DEF DeleteExpired, Expired
    <2>1. ASSUME NEW u \in Txns PROVE Granted(u)' = Granted(u)
      <3>1. locks'[u] = locks[u]
        BY <1>3 DEF DeleteExpired
      <3>2. \A k \in locks[u] : heap'[k] = heap[k]
        BY <1>3, <2>0 DEF DeleteExpired, HasRef, Delete
      <3>3. QED
        BY <3>1, <3>2, GrantedFrame
    <2>2. \A u \in Txns : PhaseOf(u)' = PhaseOf(u)
      BY <1>3 DEF DeleteExpired, PhaseOf, Leaving
    <2>3. QED
      BY <2>1, <2>2
  <1>4. ASSUME NEW t \in Txns, NEW l \in Locks, Skip(t, l) PROVE TableStep
    <2>1. \A u \in Txns : Granted(u)' = Granted(u)
      BY <1>4, GrantedFrame DEF Skip
    <2>2. \A u \in Txns : PhaseOf(u)' = PhaseOf(u)
      BY <1>4 DEF Skip, PhaseOf, Leaving
    <2>3. QED
      BY <2>1, <2>2
  <1>5. ASSUME NEW t \in Txns, NEW l \in Locks, Find(t, l) PROVE TableStep
    <2>1. \A u \in Txns : Granted(u)' = Granted(u)
      BY <1>5, GrantedFrame DEF Find
    <2>2. \A u \in Txns : PhaseOf(u)' = PhaseOf(u)
      BY <1>5 DEF Find, PhaseOf, Leaving
    <2>3. QED
      BY <2>1, <2>2
  <1>6. ASSUME NEW t \in Txns, NEW l \in Locks, Construct(t, l) PROVE TableStep
    <2>0. l \in Locks /\ \A u \in Txns : ~HasRef(u, l)
      BY <1>6, ConstantsAssumption DEF Construct, ChainIntegrity, ConstantsAssumption
    <2>1. ASSUME NEW u \in Txns PROVE Granted(u)' = Granted(u)
      <3>1. locks'[u] = locks[u]
        BY <1>6 DEF Construct
      <3>2. \A k \in locks[u] : heap'[k] = heap[k]
        BY <1>6, <2>0 DEF Construct, HasRef
      <3>3. QED
        BY <3>1, <3>2, GrantedFrame
    <2>2. \A u \in Txns : PhaseOf(u)' = PhaseOf(u)
      BY <1>6 DEF Construct, PhaseOf, Leaving
    <2>3. QED
      BY <2>1, <2>2
  <1>7. ASSUME NEW t \in Txns, Promote(t) PROVE TableStep
    <2>1. \A u \in Txns : Granted(u)' = Granted(u)
      BY <1>7, GrantedFrame DEF Promote
    <2>2. \A u \in Txns : PhaseOf(u)' = PhaseOf(u)
      BY <1>7 DEF Promote, PhaseOf, Leaving
    <2>3. QED
      BY <2>1, <2>2
  <1>8. ASSUME NEW t \in Txns, PromoteFails(t) PROVE TableStep
    <2>0. lock[t] \in Locks /\ \A u \in Txns : ~HasRef(u, lock[t])
      BY <1>8, ConstantsAssumption DEF PromoteFails, Expired
    <2>1. ASSUME NEW u \in Txns PROVE Granted(u)' = Granted(u)
      <3>1. locks'[u] = locks[u]
        BY <1>8 DEF PromoteFails
      <3>2. \A k \in locks[u] : heap'[k] = heap[k]
        BY <1>8, <2>0 DEF PromoteFails, HasRef, Delete
      <3>3. QED
        BY <3>1, <3>2, GrantedFrame
    <2>2. \A u \in Txns : PhaseOf(u)' = PhaseOf(u)
      BY <1>8 DEF PromoteFails, PhaseOf, Leaving
    <2>3. QED
      BY <2>1, <2>2
  <1>9. ASSUME NEW t \in Txns, TryLock(t) PROVE TableStep
    <2> DEFINE rec == Acquired(heap[lock[t]], t)
    <2>1. /\ lock[t] \in Locks /\ want[t] \in Requests /\ want[t].mode \in LockModes
      BY <1>9, ConstantsAssumption DEF TryLock, Requests, ConstantsAssumption
    <2>2. /\ rec \in LockRecords /\ Owned(rec, t) \in LockRecords
          /\ rec.item = heap[lock[t]].item
      BY <2>1, LockUpdatesType, ItemsKept, ConstantsAssumption
    <2>3. MutexOf(rec)
      BY <1>9, <2>1, AcquiredMutex DEF TryLock
    <2>4. /\ t \in IF want[t].mode = "Shared" THEN rec.readers ELSE rec.writers
          /\ \A u \in Txns \ {t} :
                 /\ u \in rec.readers <=> u \in heap[lock[t]].readers
                 /\ u \in rec.writers <=> u \in heap[lock[t]].writers
      BY <2>1, LockFields
    <2>5. QED
      BY <1>9, <2>1, <2>2, <2>3, <2>4, BecomeOwnerGrants, ConstantsAssumption
      DEF TryLock, Table!TableNext, Table!GrantedLocks, Requests
  <1>10. ASSUME NEW t \in Txns, TryLockFails(t) PROVE TableStep
    <2>1. \A u \in Txns : Granted(u)' = Granted(u)
      BY <1>10, GrantedFrame DEF TryLockFails
    <2>2. \A u \in Txns : PhaseOf(u)' = PhaseOf(u)
      BY <1>10 DEF TryLockFails, PhaseOf, Leaving
    <2>3. QED
      BY <2>1, <2>2
  <1>11. ASSUME NEW t \in Txns, WaitFor(t) PROVE TableStep
    <2>0. \A k \in Locks : /\ heap'[k].item = heap[k].item
                           /\ heap'[k].readers = heap[k].readers
                           /\ heap'[k].writers = heap[k].writers
      BY <1>11 DEF WaitFor, LockRecords
    <2>1. \A u \in Txns : Granted(u)' = Granted(u)
      BY <1>11, <2>0, GrantedFrame DEF WaitFor
    <2>2. \A u \in Txns : PhaseOf(u)' = PhaseOf(u)
      BY <1>11 DEF WaitFor, PhaseOf, Leaving
    <2>3. QED
      BY <2>1, <2>2
  <1>12. ASSUME NEW t \in Txns, WaitForThrows(t) PROVE TableStep
    <2>1. \A u \in Txns : Granted(u)' = Granted(u)
      BY <1>12, GrantedFrame DEF WaitForThrows
    <2>2. \A u \in Txns : PhaseOf(u)' = PhaseOf(u)
      BY <1>12 DEF WaitForThrows, PhaseOf, Leaving
    <2>3. QED
      BY <2>1, <2>2
  <1>13. ASSUME NEW t \in Txns, WakeUp(t) PROVE TableStep
    <2>0. /\ lock[t] \in Locks /\ lock[t] \notin locks[t]
          /\ \A k \in Locks \ {lock[t]} : heap'[k] = heap[k]
          /\ heap'[lock[t]] = Acquired(heap[lock[t]], t)
      BY <1>13 DEF WakeUp, WalkInv, WalkOf
    <2>1. ASSUME NEW u \in Txns PROVE Granted(u)' = Granted(u)
      <3>1. locks'[u] = locks[u]
        BY <1>13 DEF WakeUp
      <3>2. \A k \in locks[u] : /\ heap'[k].item = heap[k].item
                                /\ u \in heap'[k].readers <=> u \in heap[k].readers
                                /\ u \in heap'[k].writers <=> u \in heap[k].writers
        <4> TAKE k \in locks[u]
        <4>1. CASE k = lock[t]
          <5>1. u # t /\ want[t].mode \in LockModes
            BY <1>13, <2>0, <4>1, ConstantsAssumption
            DEF WakeUp, Requests, ConstantsAssumption
          <5>2. QED
            BY <2>0, <4>1, <5>1, LockFields, ItemsKept
        <4>2. CASE k # lock[t]
          BY <2>0, <4>2
        <4>3. QED
          BY <4>1, <4>2
      <3>3. QED
        BY <3>1, <3>2, GrantedFrame
    <2>2. \A u \in Txns : PhaseOf(u)' = PhaseOf(u)
      BY <1>13 DEF WakeUp, PhaseOf, Leaving
    <2>3. QED
      BY <2>1, <2>2
  <1>14. ASSUME NEW t \in Txns, Register(t) PROVE TableStep
    <2> DEFINE rec == heap[lock[t]]
    <2>1. /\ lock[t] \in Locks /\ want[t] \in Requests /\ want[t].mode \in LockModes
      BY <1>14, ConstantsAssumption DEF Register, Requests, ConstantsAssumption
    <2>2. rec \in LockRecords /\ Owned(rec, t) \in LockRecords /\ MutexOf(rec)
      BY <2>1, LockUpdatesType, ConstantsAssumption DEF MutexInv
    <2>3. t \in IF want[t].mode = "Shared" THEN rec.readers ELSE rec.writers
      BY <1>14, <2>1 DEF Register, HoldersInv, HoldersOf
    <2>4. QED
      BY <1>14, <2>1, <2>2, <2>3, BecomeOwnerGrants, ConstantsAssumption
      DEF Register, Table!TableNext, Table!GrantedLocks, Requests
  <1>15. ASSUME NEW t \in Txns, End(t) PROVE TableStep
    <2>1. \A u \in Txns : Granted(u)' = Granted(u)
      BY <1>15, GrantedFrame DEF End
    <2>2. \A u \in Txns \ {t} : PhaseOf(u)' = PhaseOf(u)
      BY <1>15 DEF End, PhaseOf, Leaving
    <2>3. PhaseOf(t) = "growing" /\ PhaseOf(t)' = "shrinking"
      BY <1>15 DEF End, PhaseOf, Leaving
    <2>4. Table!Finish(t)
      BY <2>1, <2>2, <2>3 DEF Table!Finish
    <2>5. QED
      BY <2>4 DEF Table!TableNext
  <1>16. ASSUME NEW t \in Txns, NEW l \in Locks, RemoveOwner(t, l) PROVE TableStep
    <2>0. \A k \in Locks : /\ heap'[k].item = heap[k].item
                           /\ heap'[k].readers = heap[k].readers
                           /\ heap'[k].writers = heap[k].writers
      BY <1>16 DEF RemoveOwner, LockRecords
    <2>1. \A u \in Txns : Granted(u)' = Granted(u)
      BY <1>16, <2>0, GrantedFrame DEF RemoveOwner
    <2>2. \A u \in Txns : PhaseOf(u)' = PhaseOf(u)
      BY <1>16 DEF RemoveOwner, PhaseOf, Leaving
    <2>3. QED
      BY <2>1, <2>2
  <1>17. ASSUME NEW t \in Txns, Unlock(t) PROVE TableStep
    <2> PICK l \in Locks : l = lock[t] /\ l \in locks[t]
      BY <1>17 DEF Unlock
    <2> DEFINE g == [item |-> heap[l].item, mode |-> ModeOf(t, l)]
    <2>0. /\ \A k \in Locks \ {l} : heap'[k] = heap[k]
          /\ heap'[l] = Released(heap[l], t)
          /\ locks' = locks
      BY <1>17 DEF Unlock
    <2>1. \A u \in Txns \ {t} : Granted(u)' = Granted(u)
      <3> TAKE u \in Txns \ {t}
      <3>1. \A k \in locks[u] : /\ heap'[k].item = heap[k].item
                                /\ u \in heap'[k].readers <=> u \in heap[k].readers
                                /\ u \in heap'[k].writers <=> u \in heap[k].writers
        <4> TAKE k \in locks[u]
        <4>1. heap[l] \in LockRecords /\ k \in Locks
          OBVIOUS
        <4>2. Released(heap[l], t).item = heap[l].item
          BY <4>1, ItemsKept
        <4>3. /\ u \in Released(heap[l], t).readers <=> u \in heap[l].readers
              /\ u \in Released(heap[l], t).writers <=> u \in heap[l].writers
          BY <4>1 DEF Released, LockRecords
        <4>4. QED
          BY <2>0, <4>1, <4>2, <4>3
      <3>2. QED
        BY <2>0, <3>1, GrantedFrame
    <2>2. \A u \in Txns : PhaseOf(u)' = PhaseOf(u)
      BY <1>17 DEF Unlock, PhaseOf, Leaving
    <2>3. t \notin Holders(l)'
      <3>1. HoldersOf(t, l) /\ MutexOf(heap[l])
        BY DEF HoldersInv, MutexInv
      <3>2. heap[l].ownership = "Shared" => t \notin heap[l].writers
        BY <3>1 DEF HoldersOf, Holders, ModeOf
      <3>3. heap[l].ownership # "Shared" => t \notin heap[l].readers
        BY <3>1 DEF HoldersOf, Holders, ModeOf, MutexOf
      <3>4. QED
        BY <2>0, <3>2, <3>3, LockFields DEF Holders
    <2>4. \A k \in locks[t] \ {l} : heap[k].item # heap[l].item
      BY SameItemSameLock, ConstantsAssumption DEF HasRef
    <2>5. Granted(t)' = Granted(t) \ {g}
      <3>1. \A k \in locks[t] \ {l} : /\ heap'[k] = heap[k]
                                      /\ (t \in Holders(k))' <=> t \in Holders(k)
                                      /\ ModeOf(t, k)' = ModeOf(t, k)
        BY <2>0 DEF Holders, ModeOf
      <3>2. QED
        BY <2>0, <2>3, <2>4, <3>1 DEF Granted
    <2>6. CASE t \in Holders(l)
      <3>1. g \in Granted(t)
        BY <2>6 DEF Granted
      <3>2. PhaseOf(t) = "shrinking"
        BY <1>17 DEF Unlock, PhaseOf, Leaving
      <3>3. Table!Release(t, g)
        <4> HIDE DEF g
        <4>1. [u \in Txns |-> Granted(u)]' = [[u \in Txns |-> Granted(u)] EXCEPT ![t] = @ \ {g}]
          BY <2>1, <2>5
        <4>2. [u \in Txns |-> PhaseOf(u)]' = [u \in Txns |-> PhaseOf(u)]
          BY <2>2
        <4>3. QED
          BY <3>2, <4>1, <4>2 DEF Table!Release
      <3>4. QED
        BY <3>1, <3>3 DEF Table!TableNext
    <2>7. CASE t \notin Holders(l)
      <3>1. g \notin Granted(t)
        BY <2>4, <2>7 DEF Granted
      <3>2. Granted(t)' = Granted(t)
        BY <2>5, <3>1
      <3>3. QED
        BY <2>1, <2>2, <3>2
    <2>8. QED
      BY <2>6, <2>7
  <1>18. ASSUME NEW t \in Txns, NEW l \in Locks, DropRef(t, l) PROVE TableStep
    <2>1. ASSUME NEW u \in Txns PROVE Granted(u)' = Granted(u)
      <3>1. CASE u = t
        BY <1>18, <3>1 DEF DropRef, Granted, Holders
      <3>2. CASE u # t
        BY <1>18, <3>2, GrantedFrame DEF DropRef
      <3>3. QED
        BY <3>1, <3>2
    <2>2. \A u \in Txns : PhaseOf(u)' = PhaseOf(u)
      BY <1>18 DEF DropRef, PhaseOf, Leaving
    <2>3. QED
      BY <2>1, <2>2
  <1>19. ASSUME NEW t \in Txns, Ended(t) PROVE TableStep
    <2>1. \A u \in Txns : Granted(u)' = Granted(u)
      BY <1>19, GrantedFrame DEF Ended
    <2>2. \A u \in Txns \ {t} : PhaseOf(u)' = PhaseOf(u)
      BY <1>19 DEF Ended, PhaseOf, Leaving
    <2>3. PhaseOf(t) = "shrinking" /\ PhaseOf(t)' = "out"
      BY <1>19 DEF Ended, PhaseOf, Leaving
    <2>a. Granted(t) = {}
      BY <1>19 DEF Ended, Granted
    <2>4. Table!Leave(t)
      BY <2>1, <2>2, <2>3, <2>a DEF Table!Leave
    <2>5. QED
      BY <2>4 DEF Table!TableNext
  <1>20. CASE UNCHANGED vars
    BY <1>20 DEF vars, Granted, Holders, ModeOf, PhaseOf, Leaving
  <1> QED
    BY <1>1, <1>2, <1>3, <1>4, <1>5, <1>6, <1>7, <1>8, <1>9, <1>10, <1>11, <1>12,
       <1>13, <1>14, <1>15, <1>16, <1>17, <1>18, <1>19, <1>20
    DEF Next, Work, Client

(* The lock manager implements the strict two-phase lock table.              *)
THEOREM Refinement == Spec => ImplementsLockTable
  <1>1. Init => Table!TableInit
    BY DEF Init, Table!TableInit, Granted, PhaseOf
  <1>2. IInv /\ IInv' /\ [Next]_vars => [Table!TableNext]_Table!tableVars
    <2>1. ASSUME IInv, IInv', Next PROVE [Table!TableNext]_Table!tableVars
      BY <2>1, NextRefines
    <2>2. ASSUME UNCHANGED vars PROVE [Table!TableNext]_Table!tableVars
      BY <2>2 DEF vars, Table!tableVars, Granted, Holders, ModeOf, PhaseOf, Leaving
    <2>3. QED
      BY <2>1, <2>2
  <1>3. QED
    BY <1>1, <1>2, Invariant, PTL DEF Spec, ImplementsLockTable, Table!TableSpec
==============================================================================
