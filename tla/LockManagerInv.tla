--------------------------- MODULE LockManagerInv ----------------------------
(***************************************************************************)
(* The inductive invariant of the lock manager, by parts: what every step  *)
(* of LockManager preserves, and from which its safety properties follow.  *)
(***************************************************************************)
EXTENDS LockManager

InChain == {"walk", "promote"}           \* holds the latch of a chain
HasLock == {"request", "refused", "blocked", "awake"}  \* has a shared_ptr
Asking == InChain \cup HasLock            \* inside acquireLock

(* What the local variables hold where. *)
LocalsInv ==
    \A t \in Txns :
        /\ pc[t] \in Asking => want[t] \in Requests
        /\ lock[t] \in Locks <=> pc[t] \in HasLock \cup {"promote", "unlocking"}
        /\ pc[t] = "unlocking" => lock[t] \in locks[t]

(* One thread in a chain at a time. *)
ChainLatchInv ==
    \A t, u \in Txns :
        pc[t] \in InChain /\ pc[u] \in InChain /\ t # u
            => hash[want[t].item] # hash[want[u].item]

(* What has been visited of the chain is not the lock that is looked for. *)
WalkOf(t) ==
    /\ pc[t] = "walk" =>
          /\ todo[t] \subseteq MyChain(t)
          /\ \A l \in MyChain(t) \ todo[t] : heap[l].item # want[t].item
    /\ pc[t] = "promote" => lock[t] \in MyChain(t) /\ todo[t] = {}
    /\ pc[t] \in HasLock \cup {"promote"} => heap[lock[t]].item = want[t].item
    /\ pc[t] \in Asking => \A l \in locks[t] : heap[l].item # want[t].item

WalkInv == \A t \in Txns : WalkOf(t)

(* The shared_mutex: many readers or one writer, orphaned holds included. *)
MutexOf(rec) ==
    /\ \A t, u \in rec.writers : t = u
    /\ rec.writers # {} => rec.readers = {} /\ rec.orphan = "Unlocked"
    /\ rec.orphan = "Exclusive" => rec.readers = {}

MutexInv == \A l \in Locks : MutexOf(heap[l])

(* Who holds it is on its way to register, or has it among its locks. *)
HoldersOf(t, l) ==
    /\ t \in Holders(l) => l \in locks[t] \/ (pc[t] = "awake" /\ lock[t] = l)
    /\ pc[t] = "awake" /\ lock[t] = l =>
          t \in IF want[t].mode = "Shared" THEN heap[l].readers ELSE heap[l].writers
    /\ l \in locks[t] /\ ~Leaving(t) => t \in Holders(l)
    /\ l \in locks[t] /\ t \in Holders(l) => heap[l].ownership = ModeOf(t, l)

HoldersInv == \A t \in Txns, l \in Locks : HoldersOf(t, l)

(* Waiters and owners are listed where the other side looks for them, *)
ListedOf(t, l) ==
    /\ pc[t] \in {"blocked", "awake"} /\ lock[t] = l => t \in heap[l].waiters
    /\ l \in locks[t] /\ ~Leaving(t) => t \in heap[l].owners

(* so that a blocked transaction has an edge to every owner of its lock. *)
EdgeOf(u, t, l) ==
    pc[u] = "blocked" /\ lock[u] = l /\ l \in locks[t] /\ ~Leaving(t) => t \in graph[u]

WaitsInv ==
    \A t \in Txns, l \in Locks :
        /\ ListedOf(t, l)
        /\ \A u \in Txns \ {t} : EdgeOf(u, t, l)

IInv ==
    /\ TypeOK
    /\ LocalsInv
    /\ ChainLatchInv
    /\ ChainIntegrity
    /\ WalkInv
    /\ MutexInv
    /\ HoldersInv
    /\ WaitsInv
    /\ CyclesAreCaught
==============================================================================
