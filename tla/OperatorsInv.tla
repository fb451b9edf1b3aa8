---------------------------- MODULE OperatorsInv ----------------------------
(***************************************************************************)
(* The inductive invariant behind NoIteratorOverrun: which objects of a    *)
(* plan have answered that they are at their end, and that nobody will ask *)
(* them again.  Only objects that a HashJoin builds from are excepted.     *)
(***************************************************************************)
EXTENDS Operators

TwoSided == {"Union", "UnionAll", "Intersect", "IntersectAll"}

(* The members of an object, as far as they decide what it asks. *)
GoodMembers(s, op) ==
    /\ DOMAIN s = {"seen", "offset", "rows", "ht"}
    /\ op \in {"Sort", "HashAggregation"} => s.offset \in Nat
    /\ op = "HashAggregation" => IsFiniteSet(DOMAIN s.ht) /\ Len(s.rows) \in Nat

(* A call: the side is one of the object's inputs, and the right one only once the left has ended. *)
GoodCall(c) ==
    /\ c.side \in {0} \cup DOMAIN plan[c.node].in
    /\ plan[c.node].op \in TwoSided /\ c.side = 2 => st[c.node].seen

(* The calls in progress lead from the root to the object that runs. *)
Stack ==
    /\ calls \in Seq([node : DOMAIN plan, side : 0..2])
    /\ calls # <<>> => driver = "open" /\ calls[Len(calls)].node = 1
    /\ \A i \in DOMAIN calls : GoodCall(calls[i])
    /\ \A i \in DOMAIN calls : \A j \in DOMAIN calls : i < j => calls[i].node > calls[j].node
    /\ \A i \in DOMAIN calls :
          i > 1 => calls[i].side # 0 /\ calls[i - 1].node = plan[calls[i].node].in[calls[i].side]

Running(k) == \E i \in DOMAIN calls : calls[i].node = k

(* An object that is asking input s now may ask the inputs from s on, of which none has ended. *)
MayAsk(k, s, ended) == \A i \in DOMAIN plan[k].in : 0 < s /\ s <= i => plan[k].in[i] \notin ended

(* The input that the innermost call has just heard the end of. *)
Waiting == IF calls # <<>> /\ reply = AtEnd THEN {plan[K].in[Frame.side]} ELSE {}

(* An iterator of a HashAggregation that is asked again is not at the end. *)
InsideMap(s, op) == op = "HashAggregation" => s.offset <= Len(s.rows)

(***************************************************************************)
(* The objects in ended have answered that they are at their end, and are  *)
(* not asked again; one that has just answered so may be the input that    *)
(* the innermost call waits for.                                           *)
(***************************************************************************)
AskedOnce(again, ended) ==
    /\ \A k \in DOMAIN plan \ (again \cup ended) :
          InsideMap(st[k], plan[k].op) /\ (~Running(k) => MayAsk(k, FirstInput(k), ended))
    /\ \A i \in DOMAIN calls :
          /\ calls[i].node \notin ended
          /\ calls[i].node \notin again =>
                MayAsk(calls[i].node, calls[i].side, IF i = 1 THEN ended \ Waiting ELSE ended)
    /\ calls = <<>> /\ reply # AtEnd /\ driver # "ended" => 1 \notin ended

Sound(again, ended) ==
    /\ plan \in Plans /\ IsTree(plan)
    /\ DOMAIN st = DOMAIN plan /\ st = [k \in DOMAIN plan |-> st[k]]
    /\ driver \in {"new", "open", "ended"} /\ (reply = Pending \/ driver = "open")
    /\ Stack
    /\ \A k \in DOMAIN plan : GoodMembers(st[k], plan[k].op)
    /\ again \subseteq DOMAIN plan /\ AskedAgain(plan, again)
    /\ \A k \in again : plan[k].op # "HashAggregation"
    /\ ended \subseteq DOMAIN plan \ again
    /\ AskedOnce(again, ended)

IInv ==
    /\ ~overrun
    /\ \/ driver = "closed" /\ calls = <<>> /\ reply = Pending
       \/ \E again, ended \in SUBSET DOMAIN plan : Sound(again, ended)
==============================================================================
