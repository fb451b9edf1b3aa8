---------------------------- MODULE MCLockManager ----------------------------
(* The lock manager for TLC: hash functions and symmetry. *)
EXTENDS LockManagerInv, WaitsForGraphSearch, TLC

CONSTANTS b1, b2, i1, i2

OneBucket == [i \in Items |-> b1]

TwoBuckets == [i \in Items |-> IF i = i1 THEN b1 ELSE b2]

(* Threads are alike, and so are the addresses of Lock objects. *)
Symmetry == Permutations(Txns) \cup Permutations(Locks)

(***************************************************************************)
(* Whatever edges a transaction adds to the graph, the search, which       *)
(* copies its visited set at every node and never marks a node as finished *)
(* (lock_manager.cc:41-60), answers TRUE exactly for the transactions from *)
(* which a cycle can be reached.                                           *)
(***************************************************************************)
SearchFindsCycles ==
    \A t, u \in Txns, owners \in SUBSET Txns :
        LET g == WithWaitsFor(graph, t, owners)
        IN  Search(g, u, {}) <=> FindDuplicate(g, u)
==============================================================================
