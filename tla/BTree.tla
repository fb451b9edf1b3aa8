-------------------------------- MODULE BTree --------------------------------
(***************************************************************************)
(* The B+-tree of task-btree (btree.h: get_leaf_page, lookup, erase and    *)
(* insert): threads that walk down from the root with lock coupling and    *)
(* split unsafe inner nodes on the way.                                    *)
(*                                                                         *)
(* A step ends where the code calls fix_page, which blocks while another   *)
(* thread has the page fixed in a conflicting mode, as the task's README   *)
(* lets it assume; new pages are nobody else's and never block.  What a    *)
(* thread has fixed is kept in held.  The code unfixes some pages twice:   *)
(* the second time changes nothing here.                                   *)
(***************************************************************************)
EXTENDS BTreeNode

CONSTANTS
    Threads,   \* the threads that use the tree
    Keys,      \* the keys
    Values,    \* the values
    Nothing,   \* no value, no page (std::nullopt)
    FirstKeys, \* bound: the keys that come into an empty tree
    MaxGap,    \* bound: how far from the other keys a new one may be
    Usual,     \* the value most calls of insert come with
    MaxRare    \* bound: how many other calls of insert, or of erase, there are

ASSUME BTreeAssumption ==
    /\ Keys \subseteq Nat /\ FirstKeys \subseteq Keys
    /\ Nothing \notin Nat \cup Values
    /\ MaxGap \in Nat
    /\ Usual \in Values
    /\ MaxRare \in Nat

VARIABLES
    pages,   \* the pages of the segment so far: a sequence of nodes, by page id
    root,    \* the page id of the root, or Nothing
    thread,  \* thread[t]: what t is doing
    held,    \* who has fixed which page: [thread, page, exclusive]
    answer,  \* the key and the result of a lookup, until the next call
    failed,  \* has an assertion failed?
    rare     \* how many more rare calls there may be

vars == <<pages, root, thread, held, answer, failed, rare>>

Idle == [pc |-> "idle", op |-> "none", key |-> 0, value |-> Nothing,
         parent |-> Nothing, child |-> Nothing, buddy |-> Nothing, separator |-> 0]

Init ==
    /\ pages = <<>>
    /\ root = Nothing
    /\ thread = [t \in Threads |-> Idle]
    /\ held = {}
    /\ answer = <<>>
    /\ failed = FALSE
    /\ rare = MaxRare

(* next_page_id, with the segment id left out. *)
NextPage == Len(pages) + 1

CanFix(p, exclusive) ==
    \A h \in held : h.page = p => ~exclusive /\ ~h.exclusive

Fix(t, p, exclusive) ==
    held' = held \cup {[thread |-> t, page |-> p, exclusive |-> exclusive]}

Unfix(t, ps) == held' = {h \in held : ~(h.thread = t /\ h.page \in ps)}

(* After a split, t keeps the half that its key belongs to. *)
Keep(t, p, q) ==
    held' = {h \in held : ~(h.thread = t /\ h.page = q)}
                \cup {[thread |-> t, page |-> p, exclusive |-> TRUE]}

Goes(t, pc, parent, child) ==
    thread' = [thread EXCEPT ![t].pc = pc, ![t].parent = parent, ![t].child = child]

Returns(t) == thread' = [thread EXCEPT ![t] = Idle]

Asserts(conditions) == failed' = (failed \/ ~conditions)

KnownKeys == UNION {ToSet(pages[p].keys) : p \in {q \in DOMAIN pages : IsLeaf(pages[q])}}

Near(key) == \/ KnownKeys = {} /\ key \in FirstKeys
             \/ \E k \in KnownKeys : key - k \in -MaxGap..MaxGap

(***************************************************************************)
(* A call.  The root is looked at without synchronisation; whoever finds   *)
(* none answers, or becomes the one to create it.                          *)
(***************************************************************************)
Call(t, op, key, value) ==
    /\ thread[t].pc = "idle"
    /\ op = "insert" => Near(key)
    /\ rare' = IF op = "erase" \/ value \in Values \ {Usual} THEN rare - 1 ELSE rare
    /\ rare' >= 0
    /\ answer' = IF op = "lookup" /\ root = Nothing THEN <<key, Nothing>> ELSE <<>>
    /\ thread' = [thread EXCEPT ![t] =
         IF root # Nothing \/ op = "insert"
         THEN [Idle EXCEPT !.op = op, !.key = key, !.value = value, !.parent = root,
                           !.pc = IF root = Nothing THEN "empty" ELSE "root"]
         ELSE Idle]
    /\ UNCHANGED <<pages, root, held, failed>>

(* insert into an empty tree. *)
CreateRoot(t) ==
    /\ thread[t].pc = "empty"
    /\ root' = NextPage
    /\ pages' = Append(pages, LeafInsert(NewNode(0), thread[t].key, thread[t].value))
    /\ Returns(t)
    /\ UNCHANGED <<held, answer, failed, rare>>

(* get_leaf_page: the root is fixed; for erase a leaf is fixed once more. *)
FixRoot(t) ==
    LET p == thread[t].parent
        exclusive == thread[t].op = "insert"
    IN  /\ thread[t].pc = "root"
        /\ CanFix(p, exclusive)
        /\ \/ /\ IsLeaf(pages[p]) /\ thread[t].op # "erase"
              /\ Fix(t, p, exclusive)
              /\ Goes(t, "leaf", p, p)
           \/ /\ IsLeaf(pages[p]) /\ thread[t].op = "erase"
              /\ Goes(t, "refix", root, root)
              /\ UNCHANGED held
           \/ /\ ~IsLeaf(pages[p])
              /\ Fix(t, p, exclusive)
              /\ Goes(t, "inner root", p, Nothing)
        /\ UNCHANGED <<pages, root, answer, failed, rare>>

RefixRoot(t) ==
    /\ thread[t].pc = "refix"
    /\ CanFix(thread[t].parent, TRUE)
    /\ Fix(t, thread[t].parent, TRUE)
    /\ Goes(t, "leaf", thread[t].parent, thread[t].parent)
    /\ UNCHANGED <<pages, root, answer, failed, rare>>

(* The assertions around a split of an inner node: both halves are safe. *)
SplitAsserts(node) == ~Unsafe(SplitLeft(node)) /\ ~Unsafe(SplitRight(node))

(* The root is split: a new inner node, then a new root above the two. *)
SplitRoot(t) ==
    LET p == thread[t].parent
        node == pages[p]
        sep == Separator(node)
        on == IF sep < thread[t].key THEN NextPage ELSE p
        off == IF sep < thread[t].key THEN p ELSE NextPage
    IN  /\ thread[t].pc = "inner root"
        /\ thread[t].op = "insert" /\ Unsafe(node)
        /\ pages' = [pages EXCEPT ![p] = SplitLeft(node)]
                      \o <<SplitRight(node),
                           InitInsert(NewNode(node.level + 1), sep, p, NextPage)>>
        /\ root' = NextPage + 1
        /\ Asserts(root = p /\ SplitAsserts(node))
        /\ Keep(t, on, off)
        /\ Goes(t, "inner root", on, Nothing)
        /\ UNCHANGED <<answer, rare>>

EnterRoot(t) ==
    LET p == thread[t].parent
    IN  /\ thread[t].pc = "inner root"
        /\ ~(thread[t].op = "insert" /\ Unsafe(pages[p]))
        /\ Goes(t, "child", p, ChildFor(pages[p], thread[t].key))
        /\ UNCHANGED <<pages, root, held, answer, failed, rare>>

(* The child is fixed: exclusively by insert, and by erase if it is a leaf. *)
FixChild(t) ==
    LET p == thread[t].parent
        c == thread[t].child
        exclusive == thread[t].op = "insert" \/ (thread[t].op = "erase" /\ pages[p].level = 1)
    IN  /\ thread[t].pc = "child"
        /\ CanFix(c, exclusive)
        /\ Fix(t, c, exclusive)
        /\ Goes(t, IF IsLeaf(pages[c]) THEN "arrived" ELSE "inner", p, c)
        /\ Asserts(pages[c].level = pages[p].level - 1)
        /\ UNCHANGED <<pages, root, answer, rare>>

(* An unsafe child is split, its separator goes into the parent. *)
SplitChild(t) ==
    LET p == thread[t].parent
        c == thread[t].child
        node == pages[c]
        sep == Separator(node)
        on == IF sep < thread[t].key THEN NextPage ELSE c
        off == IF sep < thread[t].key THEN c ELSE NextPage
    IN  /\ thread[t].pc = "inner"
        /\ thread[t].op = "insert" /\ Unsafe(node)
        /\ pages' = Append([pages EXCEPT ![c] = SplitLeft(node),
                                         ![p] = InnerInsert(@, sep, NextPage)],
                           SplitRight(node))
        /\ Asserts(SplitAsserts(node) /\ InnerInsertAsserts(pages[p], sep, c))
        /\ Keep(t, on, off)
        /\ Goes(t, "inner", p, on)
        /\ UNCHANGED <<root, answer, rare>>

(* Mutant of Descend: the loop does not go on to the next child. *)
DescendInPlace(t) ==
    LET p == thread[t].parent
        c == thread[t].child
    IN  /\ thread[t].pc = "inner"
        /\ ~(thread[t].op = "insert" /\ Unsafe(pages[c]))
        /\ Unfix(t, {p})
        /\ Goes(t, "inner", p, c)
        /\ UNCHANGED <<pages, root, answer, failed, rare>>

(* Mutant of Descend: the parent is not unfixed. *)
DescendHolding(t) ==
    LET c == thread[t].child
    IN  /\ thread[t].pc = "inner"
        /\ ~(thread[t].op = "insert" /\ Unsafe(pages[c]))
        /\ Goes(t, "child", c, ChildFor(pages[c], thread[t].key))
        /\ UNCHANGED <<pages, root, held, answer, failed, rare>>

(* The parent is unfixed, the child becomes the parent. *)
Descend(t) ==
    LET p == thread[t].parent
        c == thread[t].child
    IN  /\ thread[t].pc = "inner"
        /\ ~(thread[t].op = "insert" /\ Unsafe(pages[c]))
        /\ Unfix(t, {p})
        /\ Goes(t, "child", c, ChildFor(pages[c], thread[t].key))
        /\ UNCHANGED <<pages, root, answer, failed, rare>>

(* get_leaf_page unfixes the parent once more before it returns both. *)
Arrive(t) ==
    LET p == thread[t].parent
    IN  /\ thread[t].pc = "arrived"
        /\ Unfix(t, {p})
        /\ Goes(t, "leaf", p, thread[t].child)
        /\ UNCHANGED <<pages, root, answer, failed, rare>>

------------------------------------------------------------------------------
(***************************************************************************)
(* On the leaf.  lookup and erase unfix the parent first, which may be the *)
(* leaf itself, when the root is a leaf.                                   *)
(***************************************************************************)
LookupLeaf(t) ==
    LET leaf == pages[thread[t].child]
    IN  /\ thread[t].pc = "leaf" /\ thread[t].op = "lookup"
        /\ answer' = <<thread[t].key, ValueIn(leaf, thread[t].key, Nothing)>>
        /\ Unfix(t, {thread[t].parent, thread[t].child})
        /\ Returns(t)
        /\ UNCHANGED <<pages, root, failed, rare>>

EraseLeaf(t) ==
    /\ thread[t].pc = "leaf" /\ thread[t].op = "erase"
    /\ pages' = [pages EXCEPT ![thread[t].child] = LeafErase(@, thread[t].key)]
    /\ Unfix(t, {thread[t].parent, thread[t].child})
    /\ Returns(t)
    /\ UNCHANGED <<root, answer, failed, rare>>

InsertLeaf(t) ==
    LET c == thread[t].child
    IN  /\ thread[t].pc = "leaf" /\ thread[t].op = "insert"
        /\ Count(pages[c]) < LeafCapacity
        /\ pages' = [pages EXCEPT ![c] = LeafInsert(@, thread[t].key, thread[t].value)]
        /\ Unfix(t, {thread[t].parent, c})
        /\ Returns(t)
        /\ UNCHANGED <<root, answer, failed, rare>>

(* A full leaf is split, even if the key is in it already. *)
SplitLeaf(t) ==
    LET c == thread[t].child
    IN  /\ thread[t].pc = "leaf" /\ thread[t].op = "insert"
        /\ Count(pages[c]) = LeafCapacity
        /\ pages' = Append([pages EXCEPT ![c] = SplitLeft(@)], SplitRight(pages[c]))
        /\ Fix(t, NextPage, TRUE)
        /\ thread' = [thread EXCEPT ![t].pc = "split", ![t].buddy = NextPage,
                                    ![t].separator = Separator(pages[c])]
        /\ Asserts(Len(SplitLeft(pages[c]).keys) < LeafCapacity)
        /\ UNCHANGED <<root, answer, rare>>

(* pg with the key of t put into one of the halves of the split leaf. *)
InsertedInHalf(t, pg) ==
    LET half == IF thread[t].separator < thread[t].key THEN thread[t].buddy ELSE thread[t].child
    IN  [pg EXCEPT ![half] = LeafInsert(@, thread[t].key, thread[t].value)]

(* The new leaf is hung under a new root, or under the parent. *)
LinkLeaf(t) ==
    LET p == thread[t].parent
        c == thread[t].child
        sep == thread[t].separator
        buddy == thread[t].buddy
    IN  /\ thread[t].pc = "split"
        /\ \/ /\ p = c
              /\ pages' = InsertedInHalf(t, Append(pages, InitInsert(NewNode(1), sep, c, buddy)))
              /\ root' = NextPage
              /\ Asserts(root = c)
           \/ /\ p # c
              /\ pages' = InsertedInHalf(t, [pages EXCEPT ![p] = InnerInsert(@, sep, buddy)])
              /\ Asserts(pages[p].level = 1 /\ InnerInsertAsserts(pages[p], sep, c))
              /\ UNCHANGED root
        /\ Unfix(t, {p, c, buddy})
        /\ Returns(t)
        /\ UNCHANGED <<answer, rare>>

Step(t) ==
    \/ CreateRoot(t) \/ FixRoot(t) \/ RefixRoot(t) \/ SplitRoot(t) \/ EnterRoot(t)
    \/ FixChild(t) \/ SplitChild(t) \/ Descend(t) \/ Arrive(t)
    \/ LookupLeaf(t) \/ EraseLeaf(t) \/ InsertLeaf(t) \/ SplitLeaf(t) \/ LinkLeaf(t)

Next ==
    \E t \in Threads :
        \/ Step(t)
        \/ \E key \in Keys :
              \/ Call(t, "lookup", key, Nothing)
              \/ Call(t, "erase", key, Nothing)
              \/ \E value \in Values : Call(t, "insert", key, value)

Spec == Init /\ [][Next]_vars

(* A thread inside a method goes on with it. *)
FairSpec == Spec /\ \A t \in Threads : WF_vars(Step(t))

------------------------------------------------------------------------------

Leaves == {p \in DOMAIN pages : IsLeaf(pages[p])}

(* Where the walk from the root for key ends: no more steps than there are pages. *)
LeafFor(key) ==
    LET Page[depth \in 0..Len(pages)] ==
            IF depth = 0 THEN root
            ELSE LET p == Page[depth - 1]
                 IN  IF IsLeaf(pages[p]) THEN p ELSE ChildFor(pages[p], key)
    IN  Page[Len(pages)]

(* Has no thread split a leaf that it has not hung into the tree yet? *)
Settled == \A t \in Threads : thread[t].pc # "split"

(***************************************************************************)
(* Every entry of every leaf is where the walk for its key ends, so lookup *)
(* finds it: no split, at whatever level, strands or doubles a key         *)
(* (btree.h:174-189,301-314,370-411,448-484,589-635).                      *)
(***************************************************************************)
NothingStranded ==
    Settled => \A p \in Leaves : \A i \in DOMAIN pages[p].keys : LeafFor(pages[p].keys[i]) = p

(***************************************************************************)
(* The assertions of the code hold: a separator is new to the inner node   *)
(* it is put into, at the place of the child that was split, that node has *)
(* room, both halves of a split are safe, and levels count down to 0.      *)
(***************************************************************************)
AssertionsHold == ~failed

(***************************************************************************)
(* Binary search agrees with the comment on lower_bound ("the index of the *)
(* first key that is not less", btree.h:87,228) on every node that occurs. *)
(***************************************************************************)
SearchIsLowerBound ==
    \A p \in DOMAIN pages, key \in Keys :
        LET node == pages[p]
            n == IF IsLeaf(node) THEN Count(node) ELSE Count(node) - 1
            i == LowerBound(node.keys, n, key)
        IN  /\ i \in 0..n
            /\ \A j \in 1..n : j <= i <=> node.keys[j] < key

(***************************************************************************)
(* A method that has returned has left no page fixed, whichever nodes it   *)
(* has split: a page left fixed would block everyone else.                 *)
(***************************************************************************)
NoPageStaysFixed ==
    \A h \in held : thread[h.thread].pc # "idle"

(* What the leaves store, as a map. *)
Contents ==
    [key \in Keys |->
        LET where == {p \in Leaves : key \in ToSet(pages[p].keys)}
        IN  IF where = {} THEN Nothing
            ELSE ValueIn(pages[CHOOSE p \in where : TRUE], key, Nothing)]

(* The call that t is in. *)
CallOf(t) ==
    IF thread[t].pc = "idle" THEN [op |-> "none", key |-> Nothing, value |-> Nothing]
    ELSE [op |-> thread[t].op, key |-> thread[t].key, value |-> thread[t].value]

Map == INSTANCE KeyMap WITH map <- Contents, calls <- [t \in Threads |-> CallOf(t)]

(***************************************************************************)
(* The tree is a map: insert and erase change the one key they are called  *)
(* for, by the step that returns, splits change nothing, and lookup        *)
(* returns the value that the key has.                                     *)
(***************************************************************************)
ImplementsMap == Map!Spec

(* Every call returns: the walk from the root ends at a leaf. *)
CallsReturn == \A t \in Threads : thread[t].pc # "idle" ~> thread[t].pc = "idle"

(***************************************************************************)
(* "B+ Tree Synchronization := Lock Coupling", and get_leaf_page returns   *)
(* "the parent and the leaf page, where they are both fixed" (btree.h:335, *)
(* 342): a thread that has come to a leaf over its parent is at the leaf   *)
(* that its key belongs to, whatever other threads have split meanwhile.   *)
(* Not asked of leaves that left the tree because the root was created     *)
(* twice (line 571), nor once an assertion has ended the program.          *)
(***************************************************************************)
ArrivesAtItsLeaf ==
    Settled /\ ~failed => \A t \in Threads :
        /\ thread[t].pc = "leaf" /\ thread[t].parent # thread[t].child
        /\ thread[t].child \in {LeafFor(key) : key \in Keys}
        => LeafFor(thread[t].key) = thread[t].child
==============================================================================
