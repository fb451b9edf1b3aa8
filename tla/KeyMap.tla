-------------------------------- MODULE KeyMap -------------------------------
(***************************************************************************)
(* What an index promises (README.md of task-btree): insert puts a value   *)
(* under a key, erase deletes the key, lookup returns the value or that    *)
(* there is none.  A call takes effect at one instant between the moment   *)
(* it is made and the moment it returns.                                   *)
(***************************************************************************)
CONSTANTS Threads, Keys, Values, Nothing

VARIABLES
    map,    \* map[k]: the value of key k, or Nothing
    calls,  \* calls[t]: the call that t has made and that has not returned
    answer  \* the answer of lookup: a key and what it has found, until the next call

NoCall == [op |-> "none", key |-> Nothing, value |-> Nothing]

Init ==
    /\ map = [k \in Keys |-> Nothing]
    /\ calls = [t \in Threads |-> NoCall]
    /\ answer = <<>>

Call(t, op, k, v) ==
    /\ calls[t] = NoCall
    /\ calls' = [calls EXCEPT ![t] = [op |-> op, key |-> k, value |-> v]]
    /\ answer' = <<>>
    /\ UNCHANGED map

(* A lookup or an erase may return at once that there is no such key. *)
ReturnAtOnce(t, op, k) ==
    /\ calls[t] = NoCall
    /\ map[k] = Nothing
    /\ answer' = IF op = "lookup" THEN <<k, Nothing>> ELSE <<>>
    /\ UNCHANGED <<map, calls>>

Return(t) ==
    LET c == calls[t]
    IN  /\ c # NoCall
        /\ calls' = [calls EXCEPT ![t] = NoCall]
        /\ map' = IF c.op = "lookup" THEN map ELSE [map EXCEPT ![c.key] = c.value]
        /\ answer' = IF c.op = "lookup" THEN <<c.key, map[c.key]>> ELSE answer

Next ==
    \E t \in Threads :
        \/ Return(t)
        \/ \E k \in Keys :
              \/ \E op \in {"lookup", "erase"} : Call(t, op, k, Nothing) \/ ReturnAtOnce(t, op, k)
              \/ \E v \in Values : Call(t, "insert", k, v)

Spec == Init /\ [][Next]_<<map, calls, answer>>
==============================================================================
