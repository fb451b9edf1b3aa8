------------------------------ MODULE BTreeInv -------------------------------
(***************************************************************************)
(* The inductive invariant of the B+-tree for one thread, by parts.        *)
(*                                                                         *)
(* It says for every page which keys belong to it: own[p], all keys for    *)
(* the root, and for a child those keys of its parent that the parent      *)
(* routes to it.  own is a witness, no variable of the program; a split    *)
(* divides the keys of one page at the separator.                          *)
(***************************************************************************)
EXTENDS BTree

(* Nobody else is in the tree. *)
OneThread == \A t, u \in Threads : t = u

Nodes == [level : Nat, keys : Seq(Keys), entries : Seq(Values \cup Nat)]

(* How many keys of a node are valid. *)
Valid(node) == IF IsLeaf(node) THEN Count(node) ELSE Count(node) - 1

Increasing(keys, n) == \A i, j \in 1..n : i < j => keys[i] < keys[j]

(* Does the inner node lead the walk for key to its i-th child? *)
Routes(node, key, i) ==
    /\ i > 1 => node.keys[i - 1] < key
    /\ i < Count(node) => key <= node.keys[i]

(***************************************************************************)
(* A node for the keys in o.  The key behind the valid ones is either not  *)
(* above the last of them or no less than everything in o: it is never the *)
(* separator that is put there next.                                       *)
(***************************************************************************)
NodeFor(node, o) ==
    /\ node \in Nodes
    /\ Len(node.entries) = Count(node)
    /\ Increasing(node.keys, Valid(node))
    /\ \A i \in 1..Valid(node) : node.keys[i] \in o
    /\ IsLeaf(node) =>
         /\ Count(node) <= LeafCapacity
         /\ \A i \in 1..Count(node) : node.entries[i] \in Values
    /\ ~IsLeaf(node) =>
         /\ Count(node) \in 2..(InnerCapacity - 1)
         /\ \/ node.keys[Count(node)] <= node.keys[Count(node) - 1]
            \/ \A k \in o : k <= node.keys[Count(node)]

(* Does the leaf hold the value v under the key x? *)
Holds(node, x, v) == \E i \in 1..Count(node) : node.keys[i] = x /\ node.entries[i] = v

(* The children of a node for the keys in o, in pages pg that own own. *)
ChildrenFor(node, o, pg, own) ==
    ~IsLeaf(node) =>
        \A i \in 1..Count(node) :
            /\ node.entries[i] \in DOMAIN own
            /\ pg[node.entries[i]].level = node.level - 1
            /\ own[node.entries[i]] = {k \in o : Routes(node, k, i)}

(* The first pages of pg, as many as own has, are a tree below the page top. *)
Tree(pg, own, top) ==
    /\ own \in Seq(SUBSET Keys) /\ Len(own) <= Len(pg)
    /\ \A p \in DOMAIN own :
         /\ own[p] # {}
         /\ NodeFor(pg[p], own[p])
         /\ ChildrenFor(pg[p], own[p], pg, own)
    /\ \A p, q \in DOMAIN own :
         p # q /\ pg[p].level = pg[q].level => own[p] \cap own[q] = {}
    /\ top \in DOMAIN own
    /\ own[top] = Keys
    /\ pg[top].level < Len(own)
    /\ \A p \in DOMAIN own : pg[p].level <= pg[top].level

(***************************************************************************)
(* Where a thread stands, by its program counter.                          *)
(***************************************************************************)
Standing ==
    [pc : {"idle", "empty", "root", "refix", "inner root", "child", "inner", "arrived", "leaf",
           "split"},
     op : {"none", "lookup", "erase", "insert"},
     key : Nat, value : Values \cup {Nothing}, parent : Nat \cup {Nothing},
     child : Nat \cup {Nothing}, buddy : Nat \cup {Nothing}, separator : Nat]

(* What an insert has above the node it is at has room for a separator. *)
Safe(th, p) == th.op = "insert" => ~Unsafe(pages[p])

(* th has come to the child of its parent that its key belongs to. *)
Below(th, own) ==
    /\ th.parent \in DOMAIN own
    /\ ~IsLeaf(pages[th.parent])
    /\ th.key \in own[th.parent]
    /\ th.child = ChildFor(pages[th.parent], th.key)

AtLeaf(th, own) ==
    /\ th.child \in DOMAIN own
    /\ IsLeaf(pages[th.child])
    /\ th.key \in own[th.child]
    /\ \/ th.parent = root /\ th.child = root
       \/ th.parent # th.child /\ Below(th, own) /\ Safe(th, th.parent)

(* th has split its leaf; the new one is the last page. *)
HasSplit(th, own) ==
    LET low == {k \in own[th.child] : k <= th.separator}
        high == {k \in own[th.child] : k > th.separator}
    IN  /\ th.op = "insert"
        /\ th.buddy = Len(own) + 1
        /\ th.separator \in low /\ high # {}
        /\ IsLeaf(pages[th.buddy])
        /\ NodeFor(pages[th.child], low) /\ NodeFor(pages[th.buddy], high)
        /\ Count(pages[th.child]) < LeafCapacity /\ Count(pages[th.buddy]) < LeafCapacity

Stands(th, own) ==
    /\ th.pc # "idle" => /\ th.key \in Keys /\ th.op # "none"
                         /\ th.op = "insert" => th.value \in Values
                         /\ th.op = "erase" => th.value = Nothing
    /\ th.pc \notin {"idle", "empty"} => root # Nothing
    /\ th.pc = "empty" => root = Nothing /\ th.op = "insert"
    /\ th.pc \in {"root", "refix"} => th.parent = root
    /\ th.pc = "refix" => IsLeaf(pages[root]) /\ th.op = "erase"
    /\ th.pc = "inner root" => /\ th.parent \in DOMAIN own /\ ~IsLeaf(pages[th.parent])
                               /\ th.key \in own[th.parent]
                               /\ th.parent = root \/ ~Unsafe(pages[th.parent])
    /\ th.pc \in {"child", "inner", "arrived"} => Below(th, own)
    /\ th.pc \in {"child", "arrived"} => Safe(th, th.parent)
    /\ th.pc = "inner" => /\ ~IsLeaf(pages[th.child])
                          /\ Safe(th, th.parent) \/ Safe(th, th.child)
    /\ th.pc = "arrived" => IsLeaf(pages[th.child])
    /\ th.pc \in {"leaf", "split"} => AtLeaf(th, own)
    /\ th.pc = "split" => HasSplit(th, own)

(* How many pages are in the tree. *)
InTree == IF Settled THEN Len(pages) ELSE Len(pages) - 1

TypeOK ==
    /\ pages \in Seq(Nodes)
    /\ root \in Nat \cup {Nothing}
    /\ thread \in [Threads -> Standing]

OwnInv(own) ==
    /\ root = Nothing => pages = <<>> /\ own = <<>>
    /\ root # Nothing => Tree(pages, own, root) /\ Len(own) = InTree
    /\ \A t \in Threads : Stands(thread[t], own)

IInv == TypeOK /\ failed = FALSE /\ \E own \in Seq(SUBSET Keys) : OwnInv(own)

(***************************************************************************)
(* For any number of threads: which pages a thread that is here may have   *)
(* fixed, whatever the others do.                                          *)
(***************************************************************************)
IsThread(th) ==
    th = [pc |-> th.pc, op |-> th.op, key |-> th.key, value |-> th.value, parent |-> th.parent,
          child |-> th.child, buddy |-> th.buddy, separator |-> th.separator]

Fixed(th) ==
    IF th.pc \in {"inner root", "child"} THEN {th.parent}
    ELSE IF th.pc \in {"inner", "arrived", "leaf"} THEN {th.parent, th.child}
    ELSE IF th.pc = "split" THEN {th.parent, th.child, th.buddy}
    ELSE {}

HeldInv ==
    /\ thread = [t \in Threads |-> thread[t]]
    /\ \A t \in Threads : IsThread(thread[t])
    /\ \A h \in held : h.thread \in Threads /\ h.page \in Fixed(thread[h.thread])
==============================================================================
