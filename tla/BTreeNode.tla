------------------------------ MODULE BTreeNode ------------------------------
(***************************************************************************)
(* The nodes of the B+-tree of task-btree (btree.h: InnerNode, LeafNode)   *)
(* and their methods, as operators from node to node.                      *)
(*                                                                         *)
(* A node has a level, its keys, and as many entries: page ids of children *)
(* in an inner node (level > 0), values in a leaf.  count is their length. *)
(* The last key of an inner node is invalid; the code keeps what happened  *)
(* to be written there, and so does the model.  Indices start at 0 in the  *)
(* code and at 1 in sequences.                                             *)
(***************************************************************************)
EXTENDS Integers, Sequences, SequencesExt

CONSTANTS
    LeafCapacity,  \* LeafNode::kCapacity
    InnerCapacity  \* InnerNode::kCapacity

ASSUME CapacityAssumption == LeafCapacity \in Nat /\ LeafCapacity >= 3
                               /\ InnerCapacity \in Nat /\ InnerCapacity >= 5

NewNode(level) == [level |-> level, keys |-> <<>>, entries |-> <<>>]

IsLeaf(node) == node.level = 0

Count(node) == Len(node.keys)

(* The parts of n keys that are left to search: from which index on, how many. *)
Parts(n) == {part \in (0..n) \X (0..n) : part[1] + part[2] <= n}

(* Mutant of LowerBound: the left part loses its upper end. *)
LowerBoundShort(keys, n, key) ==
    LET Loop[part \in Parts(n)] ==
            LET first == part[1]
                cnt == part[2]
                step == cnt \div 2
            IN  IF cnt = 0 THEN first
                ELSE IF keys[first + step + 1] < key
                THEN Loop[<<first + step + 1, cnt - step - 1>>]
                ELSE Loop[<<first, IF step = 0 THEN 0 ELSE step - 1>>]
    IN  Loop[<<0, n>>]

(* lower_bound by binary search over the first n keys: an index from 0 to n. *)
LowerBound(keys, n, key) ==
    LET Loop[part \in Parts(n)] ==
            LET first == part[1]
                cnt == part[2]
                step == cnt \div 2
            IN  IF cnt = 0 THEN first
                ELSE IF keys[first + step + 1] < key
                THEN Loop[<<first + step + 1, cnt - step - 1>>]
                ELSE Loop[<<first, step>>]
    IN  Loop[<<0, n>>]

InnerBound(node, key) == LowerBound(node.keys, Count(node) - 1, key)

LeafBound(node, key) == LowerBound(node.keys, Count(node), key)

Found(node, index, key) == index < Count(node) /\ node.keys[index + 1] = key

(* InnerNode::lookup; lower_bound never returns count. *)
ChildFor(node, key) == node.entries[InnerBound(node, key) + 1]

(* InnerNode::init_insert: the first key and two children of a new root. *)
InitInsert(node, key, left, right) ==
    [node EXCEPT !.keys = <<key, key>>, !.entries = <<left, right>>]

(* InnerNode::insert: right becomes the child behind the one key belongs to. *)
InnerInsert(node, key, right) ==
    LET i == InnerBound(node, key)
    IN  [node EXCEPT
           !.keys = IF i = Count(node) - 1 THEN Front(@) \o <<key, key>>
                    ELSE InsertAt(@, i + 1, key),
           !.entries = InsertAt(@, i + 2, right)]

(* The assertions of InnerNode::insert. *)
InnerInsertAsserts(node, key, left) ==
    LET i == InnerBound(node, key)
    IN  /\ Count(node) \in 2..InnerCapacity - 1
        /\ ~Found(node, i, key)
        /\ node.entries[i + 1] = left

(* Mutant of InnerKept: the separator goes to the right node. *)
InnerKeptLess(node) == (Count(node) - 1) \div 2

(* How many children InnerNode::split, entries LeafNode::split, leaves behind. *)
InnerKept(node) == (Count(node) - 1) \div 2 + 1

(* Mutant of LeafKept: the separator goes to the right node. *)
LeafKeptLess(node) == Count(node) \div 2

LeafKept(node) == Count(node) \div 2 + 1

KeptBySplit(node) == IF IsLeaf(node) THEN LeafKept(node) ELSE InnerKept(node)

SplitLeft(node) ==
    [node EXCEPT !.keys = SubSeq(@, 1, KeptBySplit(node)),
                 !.entries = SubSeq(@, 1, KeptBySplit(node))]

SplitRight(node) ==
    [node EXCEPT !.keys = SubSeq(@, KeptBySplit(node) + 1, Count(node)),
                 !.entries = SubSeq(@, KeptBySplit(node) + 1, Count(node))]

Separator(node) ==
    node.keys[IF IsLeaf(node) THEN Count(node) \div 2 + 1 ELSE (Count(node) - 1) \div 2 + 1]

(* Has an inner node no more than one free place? *)
Unsafe(node) == Count(node) >= InnerCapacity - 1

(* LeafNode::lookup. *)
ValueIn(node, key, nothing) ==
    LET i == LeafBound(node, key)
    IN  IF Found(node, i, key) THEN node.entries[i + 1] ELSE nothing

LeafInsert(node, key, value) ==
    LET i == LeafBound(node, key)
    IN  IF Found(node, i, key) THEN [node EXCEPT !.entries[i + 1] = value]
        ELSE [node EXCEPT !.keys = InsertAt(@, i + 1, key),
                          !.entries = InsertAt(@, i + 1, value)]

(* Mutant of LeafErase: the key that is found is not looked at. *)
LeafEraseNext(node, key) ==
    LET i == LeafBound(node, key)
    IN  IF i = Count(node) THEN node
        ELSE [node EXCEPT !.keys = RemoveAt(@, i + 1), !.entries = RemoveAt(@, i + 1)]

LeafErase(node, key) ==
    LET i == LeafBound(node, key)
    IN  IF ~Found(node, i, key) THEN node
        ELSE [node EXCEPT !.keys = RemoveAt(@, i + 1), !.entries = RemoveAt(@, i + 1)]
==============================================================================
