---------------------------- MODULE WaitsForGraph ----------------------------
(***************************************************************************)
(* The waits-for graph of the lock manager (class WaitsForGraph of         *)
(* task-lock-manager).  The graph is a function from a transaction to the  *)
(* set of transactions it waits for: the code's map of vectors, where a    *)
(* missing key and an empty vector say the same and where push_back is     *)
(* guarded against duplicates.  Every method runs under the graph's own    *)
(* mutex, so each one is a pure operator from graph to graph.              *)
(*                                                                         *)
(* A transaction is named by its address (const Transaction* in the code). *)
(***************************************************************************)
CONSTANT Txns  \* the addresses at which Transaction objects live

Graphs == [Txns -> SUBSET Txns]

EmptyGraph == [t \in Txns |-> {}]

(* Mutant of FindDuplicate: sees cycles of at most two transactions. *)
FindDirectDuplicate(g, n) == \E m \in g[n] : m = n \/ n \in g[m]

(***************************************************************************)
(* findDuplicate: a depth-first search that carries the nodes of its       *)
(* current path and answers TRUE when it meets one of them again, that is  *)
(* when some cycle can be reached from n.  In a finite graph that is the   *)
(* case iff n is in a set each of whose members has a successor in the     *)
(* set; the search itself is in WaitsForGraphSearch, compared with this.   *)
(***************************************************************************)
FindDuplicate(g, n) ==
    \E path \in SUBSET Txns :
        /\ n \in path
        /\ \A m \in path : g[m] \cap path # {}

(***************************************************************************)
(* addWaitsFor: t waits for the owners of a lock.  The search starts from  *)
(* each owner; when one finds a cycle the outgoing edges of t (only those) *)
(* are erased again and DeadLockError is thrown.                           *)
(***************************************************************************)
WithWaitsFor(g, t, owners) == [g EXCEPT ![t] = @ \cup owners]

(* Mutant of AddWaitsForThrows: searches before the edges are added. *)
SearchesTooEarly(g, t, owners) == \E o \in owners : FindDuplicate(g, o)

AddWaitsForThrows(g, t, owners) ==
    \E o \in owners : FindDuplicate(WithWaitsFor(g, t, owners), o)

AddWaitsFor(g, t, owners) ==
    IF AddWaitsForThrows(g, t, owners)
    THEN [g EXCEPT ![t] = {}]
    ELSE WithWaitsFor(g, t, owners)

(* Mutant of AddWaiters: a new owner does not look at the waiters. *)
ForgetsWaiters(g, owner, waiters) == g

(***************************************************************************)
(* addWaiters: all waiters of a lock wait for its new owner.  The search   *)
(* starts from the owner; the edges stay when DeadLockError is thrown.     *)
(***************************************************************************)
AddWaiters(g, owner, waiters) ==
    [w \in Txns |-> IF w \in waiters THEN g[w] \cup {owner} ELSE g[w]]

(* Mutant of AddWaitersThrows: searches before the edges are added. *)
SearchesWaitersTooEarly(g, owner, waiters) == FindDuplicate(g, owner)

AddWaitersThrows(g, owner, waiters) ==
    FindDuplicate(AddWaiters(g, owner, waiters), owner)

(* removeTransaction: the edges from and to t are erased. *)
RemoveTransaction(g, t) ==
    [u \in Txns |-> IF u = t THEN {} ELSE g[u] \ {t}]

(* No transaction of S is on a cycle that stays inside S. *)
AcyclicOn(g, S) == ~ \E path \in SUBSET S :
                        /\ path # {}
                        /\ \A m \in path : g[m] \cap path # {}
==============================================================================
