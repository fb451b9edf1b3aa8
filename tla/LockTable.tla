------------------------------ MODULE LockTable ------------------------------
(***************************************************************************)
(* What the lock manager promises (task-lock-manager/README.md and the     *)
(* comments of lock_manager.h): a table of granted locks in which only     *)
(* compatible modes meet on an item, and transactions that follow strict   *)
(* two-phase locking, granted locks one by one while they grow and losing  *)
(* all of them once they have ended.                                       *)
(***************************************************************************)
CONSTANTS Txns, Items, Modes

VARIABLES
    granted,  \* granted[t]: the locks of t, as pairs of an item and a mode
    phase     \* phase[t]: "out" of any transaction, "growing" or "shrinking"

tableVars == <<granted, phase>>

GrantedLocks == [item : Items, mode : Modes]

TableInit ==
    /\ granted = [t \in Txns |-> {}]
    /\ phase = [t \in Txns |-> "out"]

Enter(t) ==
    /\ phase[t] = "out"
    /\ phase' = [phase EXCEPT ![t] = "growing"]
    /\ UNCHANGED granted

Compatible(g, h) == g.item = h.item => g.mode = "Shared" /\ h.mode = "Shared"

Grant(t, g) ==
    /\ phase[t] = "growing"
    /\ \A u \in Txns : \A h \in granted[u] : Compatible(g, h)
    /\ \A h \in granted[t] : h.item # g.item
    /\ granted' = [granted EXCEPT ![t] = @ \cup {g}]
    /\ UNCHANGED phase

Finish(t) ==
    /\ phase[t] = "growing"
    /\ phase' = [phase EXCEPT ![t] = "shrinking"]
    /\ UNCHANGED granted

Release(t, g) ==
    /\ phase[t] = "shrinking"
    /\ granted' = [granted EXCEPT ![t] = @ \ {g}]
    /\ UNCHANGED phase

Leave(t) ==
    /\ phase[t] = "shrinking"
    /\ granted[t] = {}
    /\ phase' = [phase EXCEPT ![t] = "out"]
    /\ UNCHANGED granted

TableNext ==
    \E t \in Txns :
        \/ Enter(t) \/ Finish(t) \/ Leave(t)
        \/ \E g \in GrantedLocks : Grant(t, g)
        \/ \E g \in granted[t] : Release(t, g)

TableSpec == TableInit /\ [][TableNext]_tableVars
==============================================================================
