----------------------------- MODULE BTreeProofs -----------------------------
(***************************************************************************)
(* Theorems about the B+-tree: its inductive invariant and the safety      *)
(* properties that follow from it when one thread works on the tree, that  *)
(* such a tree implements a map, and that no call leaves a page fixed      *)
(* however many threads there are.                                         *)
(*                                                                         *)
(* First come lemmas about nodes - binary search finds the lower bound,    *)
(* splits and insertions keep nodes in order and their keys where they     *)
(* belong - and about the trees those nodes make: what holds of a page and *)
(* of its children, and what dividing a page makes of the tree.            *)
(***************************************************************************)
EXTENDS BTreeInv, ListLemmas

(* Do the c keys behind the first a stop being less than key at k? *)
Cut(keys, key, a, c, k) ==
    /\ k \in a..(a + c)
    /\ \A j \in (a + 1)..(a + c) : j <= k <=> keys[j] < key

(* The first n keys do not descend.                                          *)
Ordered(keys, n) == \A i, j \in 1..n : i <= j => keys[i] <= keys[j]

(* Every part of a node's keys that lower_bound may still have to search is  *)
(* in the domain of its recursion.                                           *)
LEMMA PartsOf ==
    ASSUME NEW n, NEW i \in 0..n, NEW c \in 0..n, i + c <= n
    PROVE  <<i, c>> \in Parts(n)
  BY DEF Parts

(* Binary search stops: among ordered keys the ones less than key end        *)
(* somewhere.                                                                *)
LEMMA CutExists ==
    ASSUME NEW keys \in Seq(Nat), NEW n \in Nat, n <= Len(keys), Ordered(keys, n), NEW key \in Nat,
           NEW a \in Nat, NEW c \in Nat, a + c <= n
    PROVE  \E k : Cut(keys, key, a, c, k)
  <1> DEFINE b == a + c
             T == {j \in (a + 1)..b : ~(keys[j] < key)} \cup {b + 1}
             m == Min(T)
  <1>1. b \in Nat /\ a <= b /\ b <= n /\ Len(keys) \in Nat
    OBVIOUS
  <1> HIDE DEF b
  <1>2. T \in SUBSET Nat /\ T # {}
    BY <1>1
  <1>3. m \in T /\ \A j \in T : m <= j
    BY <1>2, NatMinimum
  <1> HIDE DEF m
  <1>4. m \in Nat /\ a + 1 <= m /\ m <= b + 1
    BY <1>1, <1>3
  <1>5. ASSUME NEW j \in (a + 1)..b PROVE j <= m - 1 <=> keys[j] < key
    <2>1. j \in 1..n /\ keys[j] \in Nat /\ j \in Nat
      BY <1>1
    <2>2. CASE j <= m - 1
      <3>1. j \notin T
        BY <1>3, <1>4, <2>1, <2>2
      <3>2. QED
        BY <2>2, <3>1
    <2>3. CASE ~(j <= m - 1)
      <3>1. m \in (a + 1)..b /\ m <= j
        BY <1>1, <1>4, <2>1, <2>3
      <3>2. ~(keys[m] < key)
        BY <1>1, <1>3, <3>1
      <3>3. m \in 1..n /\ keys[m] \in Nat
        BY <1>1, <3>1
      <3>4. keys[m] <= keys[j]
        BY <2>1, <3>1, <3>3 DEF Ordered
      <3>5. QED
        BY <2>1, <2>3, <3>2, <3>3, <3>4
    <2>4. QED
      BY <2>2, <2>3
  <1>6. m - 1 \in a..b
    BY <1>1, <1>4
  <1>7. QED
    BY <1>5, <1>6 DEF Cut, b

(* Binary search has one answer: the keys less than key end in one place.    *)
LEMMA CutUnique ==
    ASSUME NEW keys, NEW key, NEW a \in Nat, NEW c \in Nat, NEW k, NEW l,
           Cut(keys, key, a, c, k), Cut(keys, key, a, c, l)
    PROVE  k = l
  <1>2. k \in Nat /\ l \in Nat
    BY DEF Cut
  <1>3. ASSUME NEW x, NEW y, Cut(keys, key, a, c, x), Cut(keys, key, a, c, y), x < y
        PROVE  FALSE
    <2>1. x + 1 \in (a + 1)..(a + c) /\ x + 1 <= y /\ ~(x + 1 <= x)
      BY <1>3 DEF Cut
    <2>2. QED
      BY <1>3, <2>1 DEF Cut
  <1>4. ~(k < l) /\ ~(l < k)
    BY <1>3
  <1>5. QED
    BY <1>2, <1>4

(* A turn of the loop leaves a smaller part that has the same cut. *)
LEMMA CutStep ==
    ASSUME NEW keys \in Seq(Nat), NEW n \in Nat, n <= Len(keys), Ordered(keys, n), NEW key \in Nat,
           NEW a \in Nat, NEW c \in Nat, a + c <= n, NEW step \in Nat, step < c,
           NEW m, m = a + step + 1
    PROVE  /\ keys[m] < key
                => \A k : Cut(keys, key, m, c - step - 1, k) => Cut(keys, key, a, c, k)
           /\ ~(keys[m] < key) => \A k : Cut(keys, key, a, step, k) => Cut(keys, key, a, c, k)
  <1>1. m \in 1..n /\ m \in (a + 1)..(a + c) /\ m + (c - step - 1) = a + c /\ m \in Nat
    OBVIOUS
  <1>2. \A j \in 1..n : keys[j] \in Nat
    OBVIOUS
  <1>3. ASSUME keys[m] < key, NEW k, Cut(keys, key, m, c - step - 1, k)
        PROVE  Cut(keys, key, a, c, k)
    <2>1. k \in m..(a + c) /\ \A j \in (m + 1)..(a + c) : j <= k <=> keys[j] < key
      BY <1>1, <1>3 DEF Cut
    <2>2. ASSUME NEW j \in (a + 1)..(a + c) PROVE j <= k <=> keys[j] < key
      <3>1. j \in 1..n
        OBVIOUS
      <3>2. CASE j <= m
        <4>1. keys[j] <= keys[m]
          BY <1>1, <3>1, <3>2 DEF Ordered
        <4>2. keys[j] < key
          BY <1>1, <1>2, <1>3, <3>1, <4>1
        <4>3. j <= k
          BY <1>1, <2>1, <3>1, <3>2
        <4>4. QED
          BY <4>2, <4>3
      <3>3. CASE ~(j <= m)
        BY <1>1, <2>1, <3>1, <3>3
      <3>4. QED
        BY <3>2, <3>3
    <2>3. k \in a..(a + c)
      BY <1>1, <2>1
    <2>4. QED
      BY <2>2, <2>3 DEF Cut
  <1>4. ASSUME ~(keys[m] < key), NEW k, Cut(keys, key, a, step, k)
        PROVE  Cut(keys, key, a, c, k)
    <2>1. k \in a..(a + step) /\ \A j \in (a + 1)..(a + step) : j <= k <=> keys[j] < key
      BY <1>4 DEF Cut
    <2>2. ASSUME NEW j \in (a + 1)..(a + c) PROVE j <= k <=> keys[j] < key
      <3>1. j \in 1..n
        OBVIOUS
      <3>2. CASE m <= j
        <4>1. keys[m] <= keys[j]
          BY <1>1, <3>1, <3>2 DEF Ordered
        <4>2. ~(keys[j] < key)
          BY <1>1, <1>2, <1>4, <3>1, <4>1
        <4>3. ~(j <= k)
          BY <1>1, <2>1, <3>1, <3>2
        <4>4. QED
          BY <4>2, <4>3
      <3>3. CASE ~(m <= j)
        BY <1>1, <2>1, <3>1, <3>3
      <3>4. QED
        BY <3>2, <3>3
    <2>3. k \in a..(a + c)
      BY <2>1
    <2>4. QED
      BY <2>2, <2>3 DEF Cut
  <1>5. QED
    BY <1>3, <1>4

(* Binary search finds the lower bound. *)
LEMMA LowerBoundCuts ==
    ASSUME NEW keys \in Seq(Nat), NEW n \in Nat, n <= Len(keys), Ordered(keys, n), NEW key \in Nat
    PROVE  Cut(keys, key, 0, n, LowerBound(keys, n, key))
  <1> DEFINE Turn(L, part) ==
               IF part[2] = 0 THEN part[1]
               ELSE IF keys[part[1] + (part[2] \div 2) + 1] < key
               THEN L[<<part[1] + (part[2] \div 2) + 1, part[2] - (part[2] \div 2) - 1>>]
               ELSE L[<<part[1], part[2] \div 2>>]
             IsLoop(L) == L = [part \in Parts(n) |-> Turn(L, part)]
             Loop == CHOOSE L : IsLoop(L)
             G == [part \in Parts(n) |-> CHOOSE k : Cut(keys, key, part[1], part[2], k)]
  <1>1. LowerBound(keys, n, key) = Loop[<<0, n>>]
    BY DEF LowerBound
  <1>2. <<0, n>> \in Parts(n)
    <2>1. 0 \in 0..n /\ n \in 0..n /\ 0 + n <= n
      OBVIOUS
    <2>2. QED
      BY <2>1, PartsOf
  <1>3. ASSUME NEW part \in Parts(n)
        PROVE  \E a, c \in Nat : part = <<a, c>> /\ a + c <= n
    BY DEF Parts
  <1> HIDE DEF IsLoop, Loop, G
  <1>4. ASSUME NEW a \in Nat, NEW c \in Nat, a + c <= n
        PROVE  Cut(keys, key, a, c, G[<<a, c>>])
    <2>1. <<a, c>> \in Parts(n)
      <3>1. a \in 0..n /\ c \in 0..n
        BY <1>4
      <3>2. QED
        BY <1>4, <3>1, PartsOf
    <2>2. G[<<a, c>>] = CHOOSE k : Cut(keys, key, a, c, k)
      BY <2>1 DEF G
    <2>3. QED
      BY <1>4, <2>2, CutExists
  <1>5. ASSUME NEW L, NEW a \in Nat, NEW c \in Nat, a + c <= n, NEW k, k = Turn(L, <<a, c>>),
               \A b, d \in Nat : b + d <= n /\ d < c => Cut(keys, key, b, d, L[<<b, d>>])
        PROVE  Cut(keys, key, a, c, k)
    <2>1. CASE c = 0
      <3>1. k = a
        BY <1>5, <2>1
      <3>2. QED
        BY <2>1, <3>1 DEF Cut
    <2>2. CASE c # 0
      <3>1. PICK step \in Nat : step = c \div 2 /\ step < c
        BY <2>2
      <3>2. PICK m \in Nat, d \in Nat : m = a + step + 1 /\ d = c - step - 1
        BY <3>1
      <3>3. m + d <= n /\ d < c /\ a + step <= n
        BY <1>5, <3>1, <3>2
      <3>4. k = IF keys[m] < key THEN L[<<m, d>>] ELSE L[<<a, step>>]
        BY <1>5, <2>2, <3>1, <3>2
      <3>5. Cut(keys, key, m, d, L[<<m, d>>]) /\ Cut(keys, key, a, step, L[<<a, step>>])
        BY <1>5, <3>1, <3>3
      <3>6. QED
        BY <1>5, <3>1, <3>2, <3>4, <3>5, CutStep, SMTT(30)
    <2>3. QED
      BY <2>1, <2>2
  <1>6. ASSUME NEW part \in Parts(n) PROVE G[part] = Turn(G, part)
    <2>1. PICK a \in Nat, c \in Nat : part = <<a, c>> /\ a + c <= n
      BY <1>3
    <2>2. \A b, d \in Nat : b + d <= n /\ d < c => Cut(keys, key, b, d, G[<<b, d>>])
      BY <1>4
    <2> HIDE DEF Turn
    <2>3. Cut(keys, key, a, c, Turn(G, <<a, c>>))
      BY <1>5, <2>1, <2>2
    <2>4. Cut(keys, key, a, c, G[<<a, c>>])
      BY <1>4, <2>1
    <2>5. QED
      BY <2>1, <2>3, <2>4, CutUnique
  <1> HIDE DEF Turn
  <1>7. \E L : IsLoop(L)
    <2>1. G = [part \in Parts(n) |-> G[part]]
      BY DEF G
    <2>2. G = [part \in Parts(n) |-> Turn(G, part)]
      BY <1>6, <2>1, Zenon
    <2>3. QED
      BY <2>2 DEF IsLoop
  <1>8. IsLoop(Loop)
    BY <1>7 DEF Loop
  <1>9. ASSUME NEW a \in Nat, NEW c \in Nat, a + c <= n
        PROVE  Loop[<<a, c>>] = Turn(Loop, <<a, c>>)
    <2>1. <<a, c>> \in Parts(n)
      <3>1. a \in 0..n /\ c \in 0..n
        BY <1>9
      <3>2. QED
        BY <1>9, <3>1, PartsOf
    <2>2. QED
      BY <1>8, <2>1 DEF IsLoop
  <1>10. ASSUME NEW a \in Nat, NEW c \in Nat, a + c <= n
         PROVE  Cut(keys, key, a, c, Loop[<<a, c>>])
    <2> DEFINE Bad(d) == \E b \in Nat : b + d <= n /\ ~Cut(keys, key, b, d, Loop[<<b, d>>])
               Sizes == {d \in Nat : Bad(d)}
    <2>1. SUFFICES ASSUME Sizes # {} PROVE FALSE
      BY <1>10
    <2>2. PICK d \in Sizes : \A e \in Sizes : d <= e
      BY <2>1, NatMinimum
    <2>3. ASSUME NEW b \in Nat, NEW e \in Nat, b + e <= n, e < d
          PROVE  Cut(keys, key, b, e, Loop[<<b, e>>])
      <3>1. ~(d <= e)
        BY <2>3
      <3>2. ~Bad(e)
        BY <2>2, <3>1
      <3>3. QED
        BY <2>3, <3>2
    <2>4. PICK b \in Nat : b + d <= n /\ ~Cut(keys, key, b, d, Loop[<<b, d>>])
      BY <2>2
    <2>5. QED
      BY <1>5, <1>9, <2>3, <2>4
  <1>11. QED
    BY <1>1, <1>10
------------------------------------------------------------------------------
(* What InsertAt makes of a sequence.                                        *)
Inserted(more, list, n, k, e) ==
    /\ Len(more) = n + 1
    /\ \A i \in 1..(n + 1) :
          more[i] = IF i < k THEN list[i] ELSE IF i = k THEN e ELSE list[i - 1]

(* InsertAt puts one element into a sequence and moves the ones behind it.   *)
LEMMA InsertAtElements ==
    ASSUME NEW S, NEW list \in Seq(S), NEW n \in Nat, n = Len(list),
           NEW k \in 1..(n + 1), NEW e \in S
    PROVE  /\ InsertAt(list, k, e) \in Seq(S)
           /\ Inserted(InsertAt(list, k, e), list, n, k, e)
  <1> DEFINE front == SubSeq(list, 1, k - 1)
             back == SubSeq(list, k, Len(list))
             head == front \o <<e>>
  <1>0. n = Len(list) /\ n \in Nat /\ k \in Nat
    OBVIOUS
  <1>1. /\ front \in Seq(S) /\ Len(front) = k - 1
        /\ \A i \in 1..(k - 1) : front[i] = list[i]
    BY <1>0, SubSeqProperties
  <1>2. /\ back \in Seq(S) /\ Len(back) = n - k + 1
        /\ \A i \in 1..(n - k + 1) : back[i] = list[k + i - 1]
    BY <1>0, SubSeqProperties
  <1>3. InsertAt(list, k, e) = head \o back
    BY DEF InsertAt
  <1> HIDE DEF front, back
  <1>4. /\ head \in Seq(S) /\ Len(head) = k
        /\ \A i \in 1..k : head[i] = IF i < k THEN list[i] ELSE e
    <2>1. <<e>> \in Seq(S) /\ Len(<<e>>) = 1 /\ <<e>>[1] = e
      OBVIOUS
    <2>2. head \in Seq(S) /\ Len(head) = Len(front) + 1
      BY <1>1, <2>1, ConcatProperties
    <2>3. \A i \in 1..(Len(front) + 1) :
             head[i] = IF i <= Len(front) THEN front[i] ELSE <<e>>[i - Len(front)]
      BY <1>1, <2>1, ConcatProperties
    <2>4. ASSUME NEW i \in 1..k PROVE head[i] = IF i < k THEN list[i] ELSE e
      <3>0. i < k \/ i = k
        BY <1>0
      <3>1. CASE i < k
        BY <1>1, <2>3, <3>1
      <3>2. CASE i = k
        <4>1. i - Len(front) = 1 /\ ~(i <= Len(front)) /\ i \in 1..(Len(front) + 1)
          BY <1>1, <3>2
        <4>2. QED
          BY <2>1, <2>3, <3>2, <4>1
      <3>3. QED
        BY <3>0, <3>1, <3>2
    <2>5. QED
      BY <1>1, <2>2, <2>4
  <1> HIDE DEF head
  <1>5. head \o back \in Seq(S) /\ Len(head \o back) = n + 1
    <2>1. head \o back \in Seq(S) /\ Len(head \o back) = Len(head) + Len(back)
      BY <1>2, <1>4, ConcatProperties
    <2>2. Len(head) + Len(back) = n + 1
      BY <1>0, <1>2, <1>4
    <2>3. QED
      BY <2>1, <2>2
  <1>6. \A i \in 1..(n + 1) :
           (head \o back)[i] = IF i <= k THEN head[i] ELSE back[i - k]
    <2>1. \A i \in 1..(Len(head) + Len(back)) :
             (head \o back)[i] = IF i <= Len(head) THEN head[i] ELSE back[i - Len(head)]
      BY <1>2, <1>4, ConcatProperties
    <2>2. QED
      BY <1>0, <1>2, <1>4, <2>1
  <1>7. ASSUME NEW i \in 1..(n + 1)
        PROVE  (head \o back)[i] = IF i < k THEN list[i] ELSE IF i = k THEN e ELSE list[i - 1]
    <2>1. CASE i <= k
      BY <1>4, <1>6, <2>1
    <2>2. CASE ~(i <= k)
      <3>1. i - k \in 1..(n - k + 1) /\ k + (i - k) - 1 = i - 1
        BY <1>0, <2>2
      <3>2. back[i - k] = list[i - 1]
        BY <1>2, <3>1
      <3>3. (head \o back)[i] = back[i - k]
        BY <1>6, <2>2
      <3>4. ~(i < k) /\ i # k
        BY <1>0, <2>2
      <3>5. QED
        BY <3>2, <3>3, <3>4
    <2>3. QED
      BY <2>1, <2>2
  <1>8. QED
    BY <1>3, <1>5, <1>7 DEF Inserted

(* What SubSeq makes of a sequence, whatever there is left of it.            *)
LEMMA SubSeqElements ==
    ASSUME NEW S, NEW list \in Seq(S), NEW a \in 0..Len(list), NEW b \in a..Len(list)
    PROVE  /\ SubSeq(list, a + 1, b) \in Seq(S)
           /\ Len(SubSeq(list, a + 1, b)) = b - a
           /\ \A i \in 1..(b - a) : SubSeq(list, a + 1, b)[i] = list[a + i]
  <1>1. a + 1 \in 1..(Len(list) + 1) /\ b \in a..Len(list) /\ a \in Nat /\ Len(list) \in Nat
    OBVIOUS
  <1>2. QED
    BY <1>1, SubSeqProperties

(* What is left of a sequence of n behind its first k elements.              *)
Ending(part, S, list, n, k) ==
    /\ part \in Seq(S) /\ Len(part) = n - k
    /\ \A i \in 1..(n - k) : part[i] = list[k + i]

(* The end of a sequence has its last elements.                              *)
LEMMA EndElements ==
    ASSUME NEW S, NEW list \in Seq(S), NEW n \in Nat, n = Len(list), NEW k \in 0..n
    PROVE  Ending(SubSeq(list, k + 1, n), S, list, n, k)
  <1>1. k \in 0..Len(list) /\ n \in k..Len(list)
    OBVIOUS
  <1>2. QED
    BY <1>1, SubSeqElements DEF Ending

(* What a sequence of n becomes without its k-th element.                    *)
Removed(less, S, list, n, k) ==
    /\ less \in Seq(S) /\ Len(less) = n - 1
    /\ \A j \in 1..(n - 1) : less[j] = IF j < k THEN list[j] ELSE list[j + 1]

(* RemoveAt takes one element out and moves up the ones behind it.           *)
LEMMA RemovedElement ==
    ASSUME NEW S, NEW list \in Seq(S), NEW n \in Nat, n = Len(list), NEW k \in 1..n
    PROVE  Removed(RemoveAt(list, k), S, list, n, k)
  <1>1. k \in 1..Len(list)
    OBVIOUS
  <1>2. PICK less : less = RemoveAt(list, k)
    OBVIOUS
  <1>3. less \in Seq(S) /\ Len(less) = Len(list) - 1
    BY <1>1, <1>2, RemoveAtElements
  <1>4. \A j \in 1..(Len(list) - 1) : less[j] = IF j < k THEN list[j] ELSE list[j + 1]
    BY <1>1, <1>2, RemoveAtElements
  <1>5. QED
    BY <1>2, <1>3, <1>4 DEF Removed

(* The front of a sequence has its first elements.                           *)
LEMMA FrontElements ==
    ASSUME NEW S, NEW list \in Seq(S), NEW b \in 0..Len(list)
    PROVE  /\ SubSeq(list, 1, b) \in Seq(S)
           /\ Len(SubSeq(list, 1, b)) = b
           /\ \A i \in 1..b : SubSeq(list, 1, b)[i] = list[i]
  <1>1. 0 \in 0..Len(list) /\ b \in 0..Len(list) /\ 0 + 1 = 1 /\ b - 0 = b
    OBVIOUS
  <1>2. QED
    BY <1>1, SubSeqProperties

------------------------------------------------------------------------------
(* Search in the nodes of the tree.                                          *)
LEMMA IncreasingOrdered ==
    ASSUME NEW keys \in Seq(Keys), NEW n \in Nat, n <= Len(keys), Increasing(keys, n)
    PROVE  keys \in Seq(Nat) /\ Ordered(keys, n)
  <1>1. keys \in Seq(Nat)
    BY BTreeAssumption, SeqMonotonic
  <1>2. ASSUME NEW i \in 1..n, NEW j \in 1..n, i <= j PROVE keys[i] <= keys[j]
    <2>1. keys[i] \in Nat /\ keys[j] \in Nat
      BY <1>1
    <2>2. i = j \/ i < j
      BY <1>2
    <2>3. QED
      BY <2>1, <2>2 DEF Increasing
  <1>3. QED
    BY <1>1, <1>2 DEF Ordered

(* InnerNode::lower_bound finds the one child that the node routes the key   *)
(* to.                                                                       *)
LEMMA SearchInner ==
    ASSUME NEW node \in Nodes, Count(node) >= 1, Increasing(node.keys, Count(node) - 1),
           NEW key \in Nat
    PROVE  /\ InnerBound(node, key) \in 0..(Count(node) - 1)
           /\ \A i \in 1..Count(node) : Routes(node, key, i) <=> i = InnerBound(node, key) + 1
  <1> DEFINE b == InnerBound(node, key)
  <1>1. PICK n \in Nat : n = Count(node) - 1 /\ n + 1 = Len(node.keys)
    BY DEF Nodes, Count
  <1>2. node.keys \in Seq(Keys)
    BY DEF Nodes
  <1>3. Cut(node.keys, key, 0, n, b)
    BY <1>1, <1>2, IncreasingOrdered, LowerBoundCuts DEF InnerBound
  <1> HIDE DEF b
  <1>4. b \in 0..n /\ \A j \in 1..n : j <= b <=> node.keys[j] < key
    BY <1>3 DEF Cut
  <1>5. ASSUME NEW j \in 1..n PROVE node.keys[j] \in Nat
    <2>1. j \in 1..Len(node.keys)
      BY <1>1
    <2>2. node.keys[j] \in Keys
      BY <1>2, <2>1, ElementOfSeq
    <2>3. QED
      BY <2>2, BTreeAssumption
  <1>6. ASSUME NEW i \in 1..(n + 1) PROVE Routes(node, key, i) <=> i = b + 1
    <2>1. Routes(node, key, i) <=> /\ i > 1 => node.keys[i - 1] < key
                                   /\ i < n + 1 => ~(node.keys[i] < key)
      BY <1>1, <1>5 DEF Routes, Count
    <2>2. i > 1 => (node.keys[i - 1] < key <=> i - 1 <= b)
      BY <1>4
    <2>3. i < n + 1 => (node.keys[i] < key <=> i <= b)
      BY <1>4
    <2>4. QED
      BY <1>4, <2>1, <2>2, <2>3
  <1>7. Count(node) = n + 1 /\ Count(node) - 1 = n
    BY <1>1 DEF Count
  <1>8. QED
    BY <1>4, <1>6, <1>7 DEF b

(* LeafNode::lower_bound finds the first key that is not less than the one   *)
(* looked for, which is that key if the leaf has it.                         *)
LEMMA SearchLeaf ==
    ASSUME NEW node \in Nodes, Increasing(node.keys, Count(node)), NEW key \in Nat
    PROVE  /\ LeafBound(node, key) \in 0..Count(node)
           /\ \A j \in 1..Count(node) : j <= LeafBound(node, key) <=> node.keys[j] < key
           /\ \A j \in 1..Count(node) : node.keys[j] = key =>
                 j = LeafBound(node, key) + 1 /\ Found(node, LeafBound(node, key), key)
  <1> DEFINE b == LeafBound(node, key)
  <1>1. PICK n \in Nat : n = Count(node) /\ n = Len(node.keys)
    BY DEF Nodes, Count
  <1>2. node.keys \in Seq(Keys)
    BY DEF Nodes
  <1>3. Cut(node.keys, key, 0, n, b)
    BY <1>1, <1>2, IncreasingOrdered, LowerBoundCuts DEF LeafBound
  <1> HIDE DEF b
  <1>4. b \in 0..n /\ \A j \in 1..n : j <= b <=> node.keys[j] < key
    BY <1>3 DEF Cut
  <1>5. ASSUME NEW j \in 1..n PROVE node.keys[j] \in Nat
    <2>1. j \in 1..Len(node.keys)
      BY <1>1
    <2>2. node.keys[j] \in Keys
      BY <1>2, <2>1, ElementOfSeq
    <2>3. QED
      BY <2>2, BTreeAssumption
  <1>6. ASSUME NEW j \in 1..n, node.keys[j] = key PROVE j = b + 1
    <2>1. ~(j <= b)
      BY <1>4, <1>6
    <2>2. CASE j > b + 1
      <3>1. b + 1 \in 1..n /\ ~(b + 1 <= b) /\ b + 1 < j
        BY <1>4, <2>2
      <3>2. ~(node.keys[b + 1] < key)
        BY <1>4, <3>1
      <3>3. node.keys[b + 1] < node.keys[j]
        BY <1>1, <3>1 DEF Increasing
      <3>4. QED
        BY <1>6, <3>2, <3>3
    <2>3. QED
      BY <1>4, <2>1, <2>2
  <1>7. ASSUME NEW j \in 1..n, node.keys[j] = key PROVE Found(node, b, key)
    <2>1. b < n /\ node.keys[b + 1] = key
      BY <1>4, <1>6, <1>7
    <2>2. QED
      BY <1>1, <2>1 DEF Found
  <1>8. QED
    BY <1>1, <1>4, <1>6, <1>7 DEF b

(* The keys of a node of the tree, in order and as numbers.                  *)
LEMMA KeysInOrder ==
    ASSUME NEW o \in SUBSET Keys, NEW node, NodeFor(node, o)
    PROVE  /\ node.keys \in Seq(Keys) /\ node.entries \in Seq(Values \cup Nat)
           /\ node.level \in Nat
           /\ Count(node) \in Nat /\ Valid(node) \in Nat /\ Valid(node) <= Count(node)
           /\ Len(node.keys) = Count(node) /\ Len(node.entries) = Count(node)
           /\ \A i \in 1..Count(node) : node.keys[i] \in Nat /\ node.keys[i] \in Keys
           /\ \A i, j \in 1..Valid(node) : i < j => node.keys[i] < node.keys[j]
  <1>1. node.keys \in Seq(Keys) /\ node.entries \in Seq(Values \cup Nat) /\ node.level \in Nat
    BY DEF NodeFor, Nodes
  <1>2. Count(node) \in Nat /\ Len(node.keys) = Count(node) /\ Len(node.entries) = Count(node)
    BY <1>1 DEF NodeFor, Count
  <1>3. Valid(node) \in Nat /\ Valid(node) <= Count(node)
    BY <1>2, BTreeAssumption DEF NodeFor, Valid
  <1>4. ASSUME NEW i \in 1..Count(node) PROVE node.keys[i] \in Nat /\ node.keys[i] \in Keys
    <2>1. node.keys[i] \in Keys
      BY <1>1, <1>2, ElementOfSeq
    <2>2. QED
      BY <2>1, BTreeAssumption
  <1>5. QED
    BY <1>1, <1>2, <1>3, <1>4 DEF NodeFor, Increasing

(* The two halves that a split leaves.                                       *)
LEMMA SplitShape ==
    ASSUME NEW node \in Nodes, Len(node.entries) = Count(node),
           NEW k \in 1..(Count(node) - 1), k = KeptBySplit(node)
    PROVE  LET left == SplitLeft(node)
               right == SplitRight(node)
           IN  /\ left \in Nodes /\ right \in Nodes
               /\ left.level = node.level /\ right.level = node.level
               /\ Count(left) = k /\ Len(left.entries) = k
               /\ Count(right) = Count(node) - k /\ Len(right.entries) = Count(node) - k
               /\ \A i \in 1..k : left.keys[i] = node.keys[i] /\ left.entries[i] = node.entries[i]
               /\ \A i \in 1..(Count(node) - k) :
                     right.keys[i] = node.keys[k + i] /\ right.entries[i] = node.entries[k + i]
  <1> DEFINE n == Count(node)
             left == SplitLeft(node)
             right == SplitRight(node)
  <1>1. node.keys \in Seq(Keys) /\ node.entries \in Seq(Values \cup Nat) /\ node.level \in Nat
    BY DEF Nodes
  <1>2. n \in Nat /\ n = Len(node.keys) /\ n = Len(node.entries)
    BY <1>1 DEF Count
  <1> HIDE DEF n
  <1>3. k \in 0..n /\ n \in k..n /\ k \in Nat
    BY <1>2 DEF n
  <1>4. /\ SubSeq(node.keys, 1, k) \in Seq(Keys) /\ Len(SubSeq(node.keys, 1, k)) = k
        /\ \A i \in 1..k : SubSeq(node.keys, 1, k)[i] = node.keys[i]
    <2>1. k \in 0..Len(node.keys)
      BY <1>2, <1>3
    <2>2. QED
      BY <1>1, <2>1, FrontElements
  <1>5. /\ SubSeq(node.entries, 1, k) \in Seq(Values \cup Nat)
        /\ Len(SubSeq(node.entries, 1, k)) = k
        /\ \A i \in 1..k : SubSeq(node.entries, 1, k)[i] = node.entries[i]
    BY <1>1, <1>2, <1>3, FrontElements
  <1>6. /\ SubSeq(node.keys, k + 1, n) \in Seq(Keys) /\ Len(SubSeq(node.keys, k + 1, n)) = n - k
        /\ \A i \in 1..(n - k) : SubSeq(node.keys, k + 1, n)[i] = node.keys[k + i]
    <2>1. n \in Nat /\ n = Len(node.keys)
      BY <1>2, <1>3
    <2>2. Ending(SubSeq(node.keys, k + 1, n), Keys, node.keys, n, k)
      BY <1>1, <1>3, <2>1, EndElements
    <2>3. QED
      BY <2>2 DEF Ending
  <1>7. /\ SubSeq(node.entries, k + 1, n) \in Seq(Values \cup Nat)
        /\ Len(SubSeq(node.entries, k + 1, n)) = n - k
        /\ \A i \in 1..(n - k) : SubSeq(node.entries, k + 1, n)[i] = node.entries[k + i]
    <2>1. n \in Nat /\ n = Len(node.entries)
      BY <1>2, <1>3
    <2>2. Ending(SubSeq(node.entries, k + 1, n), Values \cup Nat, node.entries, n, k)
      BY <1>1, <1>3, <2>1, EndElements
    <2>3. QED
      BY <2>2 DEF Ending
  <1>8. /\ left = [node EXCEPT !.keys = SubSeq(node.keys, 1, k),
                               !.entries = SubSeq(node.entries, 1, k)]
        /\ right = [node EXCEPT !.keys = SubSeq(node.keys, k + 1, n),
                                !.entries = SubSeq(node.entries, k + 1, n)]
    BY DEF SplitLeft, SplitRight, n
  <1> HIDE DEF left, right
  <1>9. /\ left.level = node.level /\ right.level = node.level
        /\ left.keys = SubSeq(node.keys, 1, k) /\ left.entries = SubSeq(node.entries, 1, k)
        /\ right.keys = SubSeq(node.keys, k + 1, n) /\ right.entries = SubSeq(node.entries, k + 1, n)
        /\ left \in Nodes /\ right \in Nodes
    BY <1>1, <1>4, <1>5, <1>6, <1>7, <1>8 DEF Nodes
  <1>10. /\ Count(left) = k /\ Len(left.entries) = k
         /\ Count(right) = n - k /\ Len(right.entries) = n - k
    BY <1>4, <1>5, <1>6, <1>7, <1>9 DEF Count
  <1>11. QED
    BY <1>4, <1>5, <1>6, <1>7, <1>9, <1>10 DEF left, right, n

(* left and right divide a node and its keys at sep.                         *)
Halves(node, o, sep, left, right, pg, own) ==
    LET low == {x \in o : x <= sep}
        high == {x \in o : x > sep}
    IN  /\ sep \in low /\ high # {}
        /\ left.level = node.level /\ right.level = node.level
        /\ NodeFor(left, low) /\ NodeFor(right, high)
        /\ ChildrenFor(left, low, pg, own) /\ ChildrenFor(right, high, pg, own)

(* A split divides the keys of a node at the separator, and its children     *)
(* with them: both halves are nodes for their share of the keys.             *)
LEMMA SplitNode ==
    ASSUME NEW o \in SUBSET Keys, NEW node, NodeFor(node, o), NEW k \in Nat,
           k = KeptBySplit(node), 1 <= k, k < Valid(node),
           ~IsLeaf(node) => 2 <= k,
           NEW pg, NEW own, ChildrenFor(node, o, pg, own)
    PROVE  /\ Count(SplitLeft(node)) = k /\ Count(SplitRight(node)) = Count(node) - k
           /\ Halves(node, o, Separator(node), SplitLeft(node), SplitRight(node), pg, own)
  <1> DEFINE n == Count(node)
             v == Valid(node)
             left == SplitLeft(node)
             right == SplitRight(node)
             sep == Separator(node)
             low == {x \in o : x <= sep}
             high == {x \in o : x > sep}
             key(i) == node.keys[i]
  <1>1. /\ n \in Nat /\ v \in Nat /\ v <= n /\ k \in 1..(n - 1) /\ k < v /\ 1 <= k
        /\ v = IF IsLeaf(node) THEN n ELSE n - 1
        /\ \A i \in 1..n : key(i) \in Nat
        /\ \A i, j \in 1..v : i < j => key(i) < key(j)
        /\ \A i \in 1..v : key(i) \in o
    <2>1. /\ n \in Nat /\ v \in Nat /\ v <= n
          /\ \A i \in 1..n : key(i) \in Nat
          /\ \A i, j \in 1..v : i < j => key(i) < key(j)
      BY KeysInOrder
    <2>2. v = IF IsLeaf(node) THEN n ELSE n - 1
      BY DEF Valid
    <2>3. \A i \in 1..v : key(i) \in o
      BY DEF NodeFor
    <2> HIDE DEF n, v
    <2>4. k \in 1..(n - 1) /\ k < v /\ 1 <= k
      BY <2>1 DEF v
    <2>5. QED
      BY <2>1, <2>2, <2>3, <2>4
  <1>2. /\ left \in Nodes /\ right \in Nodes
        /\ left.level = node.level /\ right.level = node.level
        /\ Count(left) = k /\ Len(left.entries) = k
        /\ Count(right) = n - k /\ Len(right.entries) = n - k
        /\ \A i \in 1..k : left.keys[i] = key(i) /\ left.entries[i] = node.entries[i]
        /\ \A i \in 1..(n - k) :
              right.keys[i] = key(k + i) /\ right.entries[i] = node.entries[k + i]
    BY <1>1, SplitShape DEF NodeFor
  <1>3. sep = key(k)
    BY DEF Separator, KeptBySplit, LeafKept, InnerKept
  <1>4. IsLeaf(left) = IsLeaf(node) /\ IsLeaf(right) = IsLeaf(node)
    BY <1>2 DEF IsLeaf
  <1>5. Valid(left) = (IF IsLeaf(node) THEN k ELSE k - 1) /\ Valid(right) = v - k
    BY <1>1, <1>2, <1>4 DEF Valid
  <1>6. \A x \in o : x \in Nat
    BY BTreeAssumption
  <1> HIDE DEF n, v, left, right, sep, key
  <1>7. sep \in low /\ sep \in Nat
    BY <1>1, <1>3
  <1>8. ASSUME NEW i \in 1..(v - k) PROVE right.keys[i] \in high
    <2>1. k + i \in 1..v /\ k \in 1..v /\ k < k + i /\ i \in 1..(n - k)
      BY <1>1
    <2>2. key(k) < key(k + i) /\ key(k + i) \in o
      BY <1>1, <2>1
    <2>3. QED
      BY <1>2, <1>3, <1>6, <1>7, <2>1, <2>2
  <1>9. high # {}
    <2>1. 1 \in 1..(v - k)
      BY <1>1
    <2>2. QED
      BY <1>8, <2>1
  <1>10. ASSUME NEW i \in 1..k PROVE left.keys[i] = key(i) /\ key(i) \in low
    <2>1. i \in 1..v /\ k \in 1..v /\ (i < k \/ i = k)
      BY <1>1
    <2>2. key(i) \in o /\ key(i) <= key(k)
      BY <1>1, <1>6, <2>1
    <2>3. QED
      BY <1>2, <1>3, <2>2
  <1>11. NodeFor(left, low)
    <2>1. Increasing(left.keys, Valid(left))
      <3>1. SUFFICES ASSUME NEW i \in 1..Valid(left), NEW j \in 1..Valid(left), i < j
                     PROVE  left.keys[i] < left.keys[j]
        BY DEF Increasing
      <3>2. i \in 1..k /\ j \in 1..k /\ i \in 1..v /\ j \in 1..v
        BY <1>1, <1>5
      <3>3. QED
        BY <1>1, <1>2, <3>1, <3>2
    <2>2. \A i \in 1..Valid(left) : left.keys[i] \in low
      <3>1. \A i \in 1..Valid(left) : i \in 1..k
        BY <1>1, <1>5
      <3>2. QED
        BY <1>10, <3>1
    <2>3. IsLeaf(left) => /\ Count(left) <= LeafCapacity
                          /\ \A i \in 1..Count(left) : left.entries[i] \in Values
      <3>1. \A i \in 1..k : i \in 1..n
        BY <1>1
      <3>2. IsLeaf(node) => /\ n <= LeafCapacity
                            /\ \A i \in 1..n : node.entries[i] \in Values
        BY DEF NodeFor, n
      <3>3. k <= n /\ (IsLeaf(node) => k <= LeafCapacity)
        BY <1>1, <3>2, CapacityAssumption
      <3>4. QED
        BY <1>2, <1>4, <3>1, <3>2, <3>3
    <2>4. ~IsLeaf(left) => /\ Count(left) \in 2..(InnerCapacity - 1)
                           /\ \A x \in low : x <= left.keys[Count(left)]
      <3>1. ~IsLeaf(node) => n \in 2..(InnerCapacity - 1)
        BY DEF NodeFor, n
      <3>2. ~IsLeaf(node) => k \in 2..(InnerCapacity - 1)
        BY <1>1, <3>1, CapacityAssumption
      <3>3. left.keys[k] = sep
        BY <1>1, <1>2, <1>3
      <3>4. QED
        BY <1>2, <1>4, <3>2, <3>3
    <2>5. QED
      BY <1>2, <2>1, <2>2, <2>3, <2>4 DEF NodeFor
  <1>12. NodeFor(right, high)
    <2>1. Increasing(right.keys, Valid(right))
      <3>1. SUFFICES ASSUME NEW i \in 1..(v - k), NEW j \in 1..(v - k), i < j
                     PROVE  right.keys[i] < right.keys[j]
        BY <1>5 DEF Increasing
      <3>2. /\ k + i \in 1..v /\ k + j \in 1..v /\ k + i < k + j
            /\ i \in 1..(n - k) /\ j \in 1..(n - k)
        BY <1>1, <3>1
      <3>3. key(k + i) < key(k + j)
        BY <1>1, <3>2
      <3>4. QED
        BY <1>2, <3>2, <3>3
    <2>2. \A i \in 1..Valid(right) : right.keys[i] \in high
      BY <1>5, <1>8
    <2>3. IsLeaf(right) => /\ Count(right) <= LeafCapacity
                           /\ \A i \in 1..Count(right) : right.entries[i] \in Values
      <3>1. \A i \in 1..(n - k) : k + i \in 1..n
        BY <1>1
      <3>2. IsLeaf(node) => /\ n <= LeafCapacity
                            /\ \A i \in 1..n : node.entries[i] \in Values
        BY DEF NodeFor, n
      <3>3. IsLeaf(node) => n - k <= LeafCapacity
        BY <1>1, <3>2, CapacityAssumption
      <3>4. QED
        BY <1>2, <1>4, <3>1, <3>2, <3>3
    <2>4. ~IsLeaf(right) =>
            /\ Count(right) \in 2..(InnerCapacity - 1)
            /\ \/ right.keys[Count(right)] <= right.keys[Count(right) - 1]
               \/ \A x \in high : x <= right.keys[Count(right)]
      <3>1. SUFFICES ASSUME ~IsLeaf(node)
                     PROVE  /\ n - k \in 2..(InnerCapacity - 1)
                            /\ \/ right.keys[n - k] <= right.keys[n - k - 1]
                               \/ \A x \in high : x <= right.keys[n - k]
        BY <1>2, <1>4
      <3>2. /\ n \in 2..(InnerCapacity - 1)
            /\ key(n) <= key(n - 1) \/ \A x \in o : x <= key(n)
        BY <3>1 DEF NodeFor, n, key
      <3>3. n - k \in 2..(InnerCapacity - 1)
        BY <1>1, <3>1, <3>2, CapacityAssumption
      <3>4. n - k \in 1..(n - k) /\ n - k - 1 \in 1..(n - k)
            /\ k + (n - k) = n /\ k + (n - k - 1) = n - 1
        BY <1>1, <3>2, <3>3
      <3>5. right.keys[n - k] = key(n) /\ right.keys[n - k - 1] = key(n - 1)
        BY <1>2, <3>4
      <3>6. QED
        BY <3>2, <3>3, <3>5
    <2>5. QED
      BY <1>2, <2>1, <2>2, <2>3, <2>4 DEF NodeFor
  <1>13. ASSUME ~IsLeaf(node), NEW i \in 1..k
         PROVE  /\ left.entries[i] \in DOMAIN own
                /\ pg[left.entries[i]].level = left.level - 1
                /\ own[left.entries[i]] = {x \in low : Routes(left, x, i)}
    <2>1. i \in 1..n /\ i < n /\ i \in 1..v /\ k \in 1..v /\ i \in Nat
      BY <1>1
    <2>2. /\ node.entries[i] \in DOMAIN own
          /\ pg[node.entries[i]].level = node.level - 1
          /\ own[node.entries[i]] = {x \in o : Routes(node, x, i)}
      BY <1>13, <2>1 DEF ChildrenFor, n
    <2>3. ASSUME NEW x \in o PROVE Routes(node, x, i) <=> (x \in low /\ Routes(left, x, i))
      <3>1. Routes(node, x, i) <=> (i > 1 => key(i - 1) < x) /\ x <= key(i)
        BY <2>1 DEF Routes, n, key
      <3>2. i > 1 => left.keys[i - 1] = key(i - 1)
        BY <1>2, <2>1
      <3>3. Routes(left, x, i) <=> (i > 1 => key(i - 1) < x) /\ (i < k => x <= key(i))
        BY <1>2, <3>2 DEF Routes
      <3>4. i < k => key(i) < key(k)
        BY <1>1, <2>1
      <3>5. i < k \/ i = k
        BY <1>1
      <3>6. x \in Nat /\ key(i) \in Nat /\ key(k) \in Nat
        BY <1>1, <1>6, <2>1
      <3>7. x \in low <=> x <= key(k)
        BY <1>3
      <3> HIDE DEF low
      <3>8. CASE i = k
        BY <3>1, <3>3, <3>7, <3>8
      <3>9. CASE i < k
        <4>1. x <= key(i) => x <= key(k)
          BY <3>4, <3>6, <3>9
        <4>2. QED
          BY <3>1, <3>3, <3>7, <3>9, <4>1
      <3>10. QED
        BY <3>5, <3>8, <3>9
    <2>4. {x \in o : Routes(node, x, i)} = {x \in low : Routes(left, x, i)}
      BY <2>3
    <2>5. QED
      BY <1>2, <2>2, <2>4
  <1>14. ASSUME ~IsLeaf(node), NEW i \in 1..(n - k)
         PROVE  /\ right.entries[i] \in DOMAIN own
                /\ pg[right.entries[i]].level = right.level - 1
                /\ own[right.entries[i]] = {x \in high : Routes(right, x, i)}
    <2>1. k + i \in 1..n /\ i \in Nat /\ i <= n - k /\ 1 <= i /\ k + i > 1
          /\ k + i - 1 \in 1..v /\ (k + i < n <=> i < n - k)
      BY <1>1, <1>13
    <2>2. /\ node.entries[k + i] \in DOMAIN own
          /\ pg[node.entries[k + i]].level = node.level - 1
          /\ own[node.entries[k + i]] = {x \in o : Routes(node, x, k + i)}
      BY <1>14, <2>1 DEF ChildrenFor, n
    <2>3. ASSUME NEW x \in o PROVE Routes(node, x, k + i) <=> (x \in high /\ Routes(right, x, i))
      <3>1. Routes(node, x, k + i) <=> key(k + i - 1) < x /\ (i < n - k => x <= key(k + i))
        BY <2>1 DEF Routes, n, key
      <3>2. i > 1 => right.keys[i - 1] = key(k + i - 1)
        <4>1. i > 1 => i - 1 \in 1..(n - k) /\ k + (i - 1) = k + i - 1
          BY <1>1, <2>1
        <4>2. QED
          BY <1>2, <4>1
      <3>3. Routes(right, x, i) <=> (i > 1 => key(k + i - 1) < x) /\ (i < n - k => x <= key(k + i))
        BY <1>2, <3>2 DEF Routes
      <3>4. x \in Nat /\ key(k) \in Nat /\ key(k + i - 1) \in Nat
        BY <1>1, <1>6, <2>1
      <3>5. x \in high <=> key(k) < x
        BY <1>3, <3>4
      <3> HIDE DEF high
      <3>6. CASE i = 1
        <4>1. k + i - 1 = k
          BY <1>1, <3>6
        <4>2. QED
          BY <3>1, <3>3, <3>5, <3>6, <4>1
      <3>7. CASE i > 1
        <4>1. k < k + i - 1 /\ k \in 1..v
          BY <1>1, <2>1, <3>7
        <4>2. key(k) < key(k + i - 1)
          BY <1>1, <2>1, <4>1
        <4>3. key(k + i - 1) < x => key(k) < x
          BY <3>4, <4>2
        <4>4. QED
          BY <3>1, <3>3, <3>5, <3>7, <4>3
      <3>8. QED
        BY <2>1, <3>6, <3>7
    <2>4. {x \in o : Routes(node, x, k + i)} = {x \in high : Routes(right, x, i)}
      BY <2>3
    <2>5. QED
      BY <1>2, <2>2, <2>4
  <1>15. ChildrenFor(left, low, pg, own) /\ ChildrenFor(right, high, pg, own)
    BY <1>2, <1>4, <1>13, <1>14 DEF ChildrenFor
  <1>16. QED
    BY <1>2, <1>7, <1>9, <1>11, <1>12, <1>15 DEF left, right, sep, n, Halves

(* A full leaf splits into two that have room.                               *)
LEMMA LeafSplits ==
    ASSUME NEW o \in SUBSET Keys, NEW node, NodeFor(node, o), IsLeaf(node),
           Count(node) = LeafCapacity
    PROVE  \E k \in Nat : /\ k = KeptBySplit(node) /\ 1 <= k /\ k < Valid(node)
                          /\ k < LeafCapacity /\ Count(node) - k < LeafCapacity
  <1>1. PICK n \in Nat, k \in Nat : n = LeafCapacity /\ n >= 3 /\ k = n \div 2 + 1
    BY CapacityAssumption
  <1>2. 1 <= k /\ k < n /\ n - k < n
    BY <1>1
  <1>3. KeptBySplit(node) = k /\ Valid(node) = n /\ Count(node) = n
    BY <1>1 DEF KeptBySplit, LeafKept, Valid
  <1>4. QED
    BY <1>1, <1>2, <1>3

(* An unsafe inner node splits into two that are safe.                       *)
LEMMA InnerSplits ==
    ASSUME NEW o \in SUBSET Keys, NEW node, NodeFor(node, o), ~IsLeaf(node), Unsafe(node)
    PROVE  \E k \in Nat : /\ k = KeptBySplit(node) /\ 2 <= k /\ k < Valid(node)
                          /\ k < InnerCapacity - 1 /\ Count(node) - k < InnerCapacity - 1
  <1>1. PICK n \in Nat, k \in Nat, c \in Nat :
           n = Count(node) /\ k = (n - 1) \div 2 + 1 /\ c = InnerCapacity /\ c >= 5 /\ n = c - 1
    BY CapacityAssumption DEF NodeFor, Unsafe
  <1>2. 2 <= k /\ k < n - 1 /\ k < c - 1 /\ n - k < c - 1
    BY <1>1
  <1>3. KeptBySplit(node) = k /\ Valid(node) = n - 1
    BY <1>1 DEF KeptBySplit, InnerKept, Valid
  <1>4. QED
    BY <1>1, <1>2, <1>3

------------------------------------------------------------------------------
(* new is the inner node with the separator sep and a child right more, next *)
(* to the i-th child.                                                        *)
Widened(new, node, n, i, sep, right) ==
    /\ new \in Nodes /\ new.level = node.level
    /\ Count(new) = n + 1 /\ Len(new.entries) = n + 1
    /\ \A j \in 1..n :
          new.keys[j] = IF j < i THEN node.keys[j] ELSE IF j = i THEN sep ELSE node.keys[j - 1]
    /\ new.keys[n + 1] = IF i = n THEN sep ELSE node.keys[n]
    /\ \A j \in 1..(n + 1) :
          new.entries[j] = IF j <= i THEN node.entries[j]
                           ELSE IF j = i + 1 THEN right ELSE node.entries[j - 1]

(* InnerNode::insert puts the separator in front of the place of the new     *)
(* child, behind the child that was split.                                   *)
LEMMA InnerInsertShape ==
    ASSUME NEW o \in SUBSET Keys, NEW node, NodeFor(node, o), ~IsLeaf(node),
           NEW sep \in Keys, NEW right \in Nat,
           NEW n \in Nat, n = Count(node), NEW i \in 1..n, Routes(node, sep, i)
    PROVE  InnerBound(node, sep) = i - 1 /\ Widened(InnerInsert(node, sep, right), node, n, i, sep, right)
  <1> DEFINE new == InnerInsert(node, sep, right)
             keys == IF i = n THEN Front(node.keys) \o <<sep, sep>>
                     ELSE InsertAt(node.keys, i, sep)
             entries == InsertAt(node.entries, i + 1, right)
  <1>1. /\ node.keys \in Seq(Keys) /\ node.entries \in Seq(Values \cup Nat)
        /\ node.level \in Nat /\ n \in Nat /\ n >= 2
        /\ Len(node.keys) = n /\ Len(node.entries) = n
        /\ node \in Nodes /\ Increasing(node.keys, n - 1)
    <2>1. /\ node.keys \in Seq(Keys) /\ node.entries \in Seq(Values \cup Nat)
          /\ node.level \in Nat /\ Count(node) \in Nat
          /\ Len(node.keys) = Count(node) /\ Len(node.entries) = Count(node)
      BY KeysInOrder
    <2>2. n >= 2 /\ node \in Nodes /\ Increasing(node.keys, n - 1)
      BY <2>1 DEF NodeFor, Valid
    <2>3. QED
      BY <2>1, <2>2
  <1>2. sep \in Nat
    BY BTreeAssumption
  <1>3. InnerBound(node, sep) + 1 = i
    BY <1>1, <1>2, SearchInner
  <1>4. InnerBound(node, sep) \in 0..(n - 1)
    BY <1>1, <1>2, SearchInner
  <1>5. i \in Nat /\ i \in 1..n /\ InnerBound(node, sep) = i - 1 /\ i - 1 + 1 = i /\ i - 1 + 2 = i + 1
        /\ (i - 1 = n - 1 <=> i = n)
    BY <1>1, <1>3, <1>4
  <1>6. new = [node EXCEPT !.keys = keys, !.entries = entries]
    BY <1>5 DEF InnerInsert
  <1>7. /\ entries \in Seq(Values \cup Nat) /\ Len(entries) = n + 1
        /\ \A j \in 1..(n + 1) :
              entries[j] = IF j <= i THEN node.entries[j]
                           ELSE IF j = i + 1 THEN right ELSE node.entries[j - 1]
    <2>1. i + 1 \in 1..(n + 1)
      BY <1>1, <1>5
    <2>a. right \in Values \cup Nat
      OBVIOUS
    <2>b. entries \in Seq(Values \cup Nat) /\ Inserted(entries, node.entries, n, i + 1, right)
      BY <1>1, <2>1, <2>a, InsertAtElements
    <2>2. /\ Len(entries) = n + 1
          /\ \A j \in 1..(n + 1) :
                entries[j] = IF j < i + 1 THEN node.entries[j]
                             ELSE IF j = i + 1 THEN right ELSE node.entries[j - 1]
      BY <2>b DEF Inserted
    <2>3. \A j \in 1..(n + 1) : j < i + 1 <=> j <= i
      BY <1>1, <1>5
    <2> HIDE DEF entries
    <2>4. QED
      BY <2>b, <2>2, <2>3
  <1>8. /\ keys \in Seq(Keys) /\ Len(keys) = n + 1
        /\ \A j \in 1..n : keys[j] = IF j < i THEN node.keys[j]
                                   ELSE IF j = i THEN sep ELSE node.keys[j - 1]
        /\ keys[n + 1] = IF i = n THEN sep ELSE node.keys[n]
    <2>1. CASE i = n
      <3> DEFINE front == SubSeq(node.keys, 1, n - 1)
                 two == <<sep, sep>>
      <3>1. n - 1 \in 0..Len(node.keys)
        BY <1>1
      <3>2. /\ front \in Seq(Keys) /\ Len(front) = n - 1
            /\ \A j \in 1..(n - 1) : front[j] = node.keys[j]
        BY <1>1, <3>1, FrontElements
      <3>3. two \in Seq(Keys) /\ Len(two) = 2 /\ two[1] = sep /\ two[2] = sep
        OBVIOUS
      <3>4. keys = front \o two
        BY <1>1, <2>1 DEF Front
      <3> HIDE DEF front, two, keys
      <3>5. /\ front \o two \in Seq(Keys) /\ Len(front \o two) = Len(front) + Len(two)
            /\ \A j \in 1..(Len(front) + Len(two)) :
                  (front \o two)[j] = IF j <= Len(front) THEN front[j] ELSE two[j - Len(front)]
        BY <3>2, <3>3, ConcatProperties
      <3>6. \A j \in 1..(n + 1) :
               keys[j] = IF j <= n - 1 THEN front[j] ELSE two[j - (n - 1)]
        BY <1>1, <3>2, <3>3, <3>4, <3>5
      <3>7. keys \in Seq(Keys) /\ Len(keys) = n + 1
        BY <1>1, <3>2, <3>3, <3>4, <3>5
      <3>8. \A j \in 1..(n - 1) : keys[j] = node.keys[j]
        BY <1>1, <3>2, <3>6
      <3>9. keys[n] = sep /\ keys[n + 1] = sep
        <4>1. n \in 1..(n + 1) /\ n + 1 \in 1..(n + 1) /\ n - (n - 1) = 1 /\ n + 1 - (n - 1) = 2
              /\ ~(n <= n - 1) /\ ~(n + 1 <= n - 1)
          BY <1>1
        <4>2. keys[n] = two[1]
          BY <3>6, <4>1
        <4>3. keys[n + 1] = two[2]
          BY <3>6, <4>1
        <4>4. QED
          BY <3>3, <4>2, <4>3
      <3>10. \A j \in 1..n : (j \in 1..(n - 1) /\ j < i) \/ j = n
        BY <1>1, <2>1
      <3>11. QED
        BY <2>1, <3>7, <3>8, <3>9, <3>10
    <2>2. CASE i # n
      <3>1. i \in 1..(n + 1)
        BY <1>1, <1>5
      <3> DEFINE more == InsertAt(node.keys, i, sep)
      <3>b. more \in Seq(Keys) /\ Inserted(more, node.keys, n, i, sep)
        BY <1>1, <3>1, InsertAtElements
      <3>2. /\ more \in Seq(Keys) /\ Len(more) = n + 1
            /\ \A j \in 1..(n + 1) : more[j] = IF j < i THEN node.keys[j]
                                              ELSE IF j = i THEN sep ELSE node.keys[j - 1]
        BY <3>b DEF Inserted
      <3>a. keys = more
        BY <2>2
      <3> HIDE DEF keys, more
      <3>3. n + 1 \in 1..(n + 1) /\ ~(n + 1 < i) /\ n + 1 # i /\ n + 1 - 1 = n
            /\ \A j \in 1..n : j \in 1..(n + 1)
        BY <1>1, <1>5
      <3>4. more[n + 1] = node.keys[n]
        BY <3>2, <3>3
      <3>5. QED
        BY <2>2, <3>2, <3>3, <3>4, <3>a
    <2>3. QED
      BY <2>1, <2>2
  <1> HIDE DEF keys, entries, new
  <1>9. new.keys = keys /\ new.entries = entries /\ new.level = node.level /\ new \in Nodes
    BY <1>1, <1>6, <1>7, <1>8 DEF Nodes
  <1>10. Count(new) = n + 1 /\ Len(new.entries) = n + 1
    BY <1>7, <1>8, <1>9 DEF Count
  <1>11. QED
    BY <1>5, <1>7, <1>8, <1>9, <1>10 DEF new, Widened

(* Where an inner node leads after an insertion.                             *)
LEMMA InnerInsertRoutes ==
    ASSUME NEW o \in SUBSET Keys, NEW node, NodeFor(node, o), ~IsLeaf(node),
           NEW sep \in Keys, NEW right \in Nat,
           NEW n \in Nat, n = Count(node), NEW i \in 1..n, Routes(node, sep, i), NEW x \in Nat
    PROVE  LET new == InnerInsert(node, sep, right)
           IN  /\ \A j \in 1..(i - 1) : Routes(new, x, j) <=> Routes(node, x, j)
               /\ Routes(new, x, i) <=> Routes(node, x, i) /\ x <= sep
               /\ Routes(new, x, i + 1) <=> Routes(node, x, i) /\ x > sep
               /\ \A j \in (i + 2)..(n + 1) : Routes(new, x, j) <=> Routes(node, x, j - 1)
  <1> DEFINE new == InnerInsert(node, sep, right)
             key(j) == node.keys[j]
  <1>1. n = Count(node)
    OBVIOUS
  <1>a. Widened(new, node, n, i, sep, right)
    BY InnerInsertShape
  <1>2. /\ Count(new) = n + 1
        /\ \A j \in 1..n : new.keys[j] = IF j < i THEN key(j) ELSE IF j = i THEN sep ELSE key(j - 1)
    BY <1>a DEF Widened
  <1>3. \A j \in 1..n : key(j) \in Nat
    BY <1>1, KeysInOrder
  <1>4. sep \in Nat /\ i \in 1..n /\ i \in Nat
    BY <1>1, BTreeAssumption
  <1>5. (i > 1 => key(i - 1) < sep) /\ (i < n => sep <= key(i))
    BY <1>1 DEF Routes
  <1>6. \A j \in Nat : Routes(node, x, j) <=> (j > 1 => key(j - 1) < x) /\ (j < n => x <= key(j))
    BY <1>1 DEF Routes
  <1> HIDE DEF new, key
  <1>7. \A j \in Nat :
           Routes(new, x, j) <=> (j > 1 => new.keys[j - 1] < x) /\ (j < n + 1 => x <= new.keys[j])
    <2>1. Count(new) = n + 1
      BY <1>2
    <2>2. QED
      BY <2>1 DEF Routes
  <1>8. ASSUME NEW j \in 1..(i - 1) PROVE Routes(new, x, j) <=> Routes(node, x, j)
    <2>1. j \in 1..n /\ j < i /\ j < n /\ j < n + 1 /\ (j > 1 => j - 1 \in 1..n /\ j - 1 < i)
      BY <1>4
    <2>2. new.keys[j] = key(j) /\ (j > 1 => new.keys[j - 1] = key(j - 1))
      BY <1>2, <2>1
    <2>3. QED
      BY <1>6, <1>7, <2>1, <2>2
  <1>9. Routes(new, x, i) <=> Routes(node, x, i) /\ x <= sep
    <2>1. i < n + 1 /\ (i > 1 => i - 1 \in 1..n /\ i - 1 < i)
      BY <1>4
    <2>2. new.keys[i] = sep /\ (i > 1 => new.keys[i - 1] = key(i - 1))
      BY <1>2, <1>4, <2>1
    <2>3. i < n => (x <= sep => x <= key(i))
      BY <1>3, <1>4, <1>5
    <2>4. QED
      BY <1>6, <1>7, <2>1, <2>2, <2>3
  <1>10. Routes(new, x, i + 1) <=> Routes(node, x, i) /\ x > sep
    <2>1. i + 1 > 1 /\ i + 1 - 1 = i /\ (i + 1 < n + 1 <=> i < n)
          /\ (i < n => i + 1 \in 1..n /\ ~(i + 1 < i) /\ i + 1 # i)
      BY <1>4
    <2>2. new.keys[i] = sep /\ (i < n => new.keys[i + 1] = key(i))
      BY <1>2, <1>4, <2>1
    <2>3. i > 1 => (sep < x => key(i - 1) < x)
      <3>1. i > 1 => i - 1 \in 1..n
        BY <1>4
      <3>2. i > 1 => key(i - 1) \in Nat
        BY <1>3, <3>1
      <3>3. QED
        BY <1>4, <1>5, <3>2
    <2>4. Routes(new, x, i + 1) <=> sep < x /\ (i < n => x <= key(i))
      BY <1>7, <2>1, <2>2
    <2>5. x > sep <=> sep < x
      BY <1>4
    <2>6. QED
      BY <1>6, <2>3, <2>4, <2>5
  <1>11. ASSUME NEW j \in (i + 2)..(n + 1) PROVE Routes(new, x, j) <=> Routes(node, x, j - 1)
    <2>1. j > 1 /\ j - 1 > 1 /\ j - 1 \in 1..n /\ ~(j - 1 < i) /\ j - 1 # i
          /\ (j < n + 1 <=> j - 1 < n) /\ (j < n + 1 => j \in 1..n /\ ~(j < i) /\ j # i)
      BY <1>4
    <2>2. new.keys[j - 1] = key(j - 1 - 1) /\ (j < n + 1 => new.keys[j] = key(j - 1))
      BY <1>2, <2>1
    <2>3. QED
      BY <1>6, <1>7, <2>1, <2>2
  <1>12. QED
    BY <1>1, <1>8, <1>9, <1>10, <1>11 DEF new

(***************************************************************************)
(* The separator of a child that was split is new to the node above, at    *)
(* the place of that child, and the node stays one for the same keys.      *)
(***************************************************************************)
LEMMA InnerInsertNode ==
    ASSUME NEW o \in SUBSET Keys, NEW node, NodeFor(node, o), ~IsLeaf(node), ~Unsafe(node),
           NEW sep \in o, NEW right \in Nat,
           NEW n \in Nat, n = Count(node), NEW i \in 1..n, Routes(node, sep, i),
           NEW y \in o, Routes(node, y, i), y > sep
    PROVE  /\ NodeFor(InnerInsert(node, sep, right), o)
           /\ InnerInsertAsserts(node, sep, node.entries[i])
  <1> DEFINE new == InnerInsert(node, sep, right)
             key(j) == node.keys[j]
  <1>1. n = Count(node)
    OBVIOUS
  <1>2. /\ InnerBound(node, sep) = i - 1
        /\ new \in Nodes /\ new.level = node.level
        /\ Count(new) = n + 1 /\ Len(new.entries) = n + 1
        /\ \A j \in 1..n : new.keys[j] = IF j < i THEN key(j) ELSE IF j = i THEN sep ELSE key(j - 1)
        /\ new.keys[n + 1] = IF i = n THEN sep ELSE key(n)
    <2>1. InnerBound(node, sep) = i - 1 /\ Widened(new, node, n, i, sep, right)
      BY InnerInsertShape
    <2>2. QED
      BY <2>1 DEF Widened
  <1>3. \A j \in 1..n : key(j) \in Nat
    BY <1>1, KeysInOrder
  <1>4. sep \in Nat /\ y \in Nat /\ i \in 1..n /\ i \in Nat
    BY <1>1, BTreeAssumption
  <1>5. (i > 1 => key(i - 1) < sep) /\ (i < n => sep < key(i))
    <2>1. (i > 1 => key(i - 1) < sep) /\ (i < n => y <= key(i))
      BY <1>1 DEF Routes
    <2>2. QED
      BY <1>3, <1>4, <2>1
  <1>6. /\ n >= 2 /\ n < InnerCapacity - 1 /\ n \in 2..(InnerCapacity - 1)
        /\ n + 1 \in 2..(InnerCapacity - 1)
    BY <1>1, CapacityAssumption DEF NodeFor, Unsafe
  <1>7. /\ \A j, k \in 1..(n - 1) : j < k => key(j) < key(k)
        /\ \A j \in 1..(n - 1) : key(j) \in o
        /\ key(n) <= key(n - 1) \/ \A x \in o : x <= key(n)
    BY <1>1 DEF NodeFor, Increasing, Valid
  <1>8. ~IsLeaf(new) /\ Valid(new) = n
    BY <1>2 DEF Valid, IsLeaf
  <1> HIDE DEF new, key
  <1>9. ASSUME NEW j \in 1..n PROVE new.keys[j] \in o
    <2>1. j < i => j \in 1..(n - 1)
      BY <1>4
    <2>2. ~(j < i) /\ j # i => j - 1 \in 1..(n - 1)
      BY <1>4
    <2>3. QED
      BY <1>2, <1>7, <2>1, <2>2
  <1>10. ASSUME NEW j \in 1..n, NEW k \in 1..n, j < k PROVE new.keys[j] < new.keys[k]
    <2>1. CASE k < i
      <3>1. j < i /\ j \in 1..(n - 1) /\ k \in 1..(n - 1)
        BY <1>4, <1>10, <2>1
      <3>2. QED
        BY <1>2, <1>7, <1>10, <2>1, <3>1
    <2>2. CASE k = i
      <3>1. j < i /\ j \in 1..(n - 1) /\ i > 1 /\ i - 1 \in 1..(n - 1) /\ (j < i - 1 \/ j = i - 1)
            /\ i - 1 \in 1..n
        BY <1>4, <1>10, <2>2
      <3>2. new.keys[j] = key(j) /\ new.keys[k] = sep
        BY <1>2, <2>2, <3>1
      <3>3. key(j) \in Nat /\ key(i - 1) \in Nat /\ (j < i - 1 => key(j) < key(i - 1))
        BY <1>3, <1>7, <3>1
      <3>4. QED
        BY <1>4, <1>5, <3>1, <3>2, <3>3
    <2>3. CASE k > i
      <3>1. ~(k < i) /\ k # i /\ k - 1 \in 1..(n - 1) /\ i < n /\ i \in 1..(n - 1) /\ i <= k - 1
            /\ k - 1 \in 1..n
        BY <1>4, <2>3
      <3>2. new.keys[k] = key(k - 1) /\ key(k - 1) \in Nat /\ key(i) \in Nat /\ sep < key(i)
        BY <1>2, <1>3, <1>4, <1>5, <3>1
      <3>3. key(i) <= key(k - 1)
        <4>1. i = k - 1 \/ i < k - 1
          BY <1>4, <3>1
        <4>2. QED
          BY <1>7, <3>1, <3>2, <4>1
      <3>4. CASE j < i
        <4>1. j \in 1..(n - 1) /\ j < k - 1
          BY <1>4, <3>1, <3>4
        <4>2. new.keys[j] = key(j) /\ key(j) < key(k - 1)
          BY <1>2, <1>7, <3>1, <3>4, <4>1
        <4>3. QED
          BY <3>2, <4>2
      <3>5. CASE j = i
        <4>1. new.keys[j] = sep
          BY <1>2, <3>5
        <4>2. QED
          BY <1>4, <3>2, <3>3, <4>1
      <3>6. CASE j > i
        <4>1. ~(j < i) /\ j # i /\ j - 1 \in 1..(n - 1) /\ j - 1 < k - 1
          BY <1>4, <1>10, <3>1, <3>6
        <4>2. new.keys[j] = key(j - 1) /\ key(j - 1) < key(k - 1)
          BY <1>2, <1>7, <3>1, <4>1
        <4>3. QED
          BY <3>2, <4>2
      <3>7. QED
        BY <1>4, <3>4, <3>5, <3>6
    <2>4. QED
      BY <1>4, <2>1, <2>2, <2>3
  <1>11. \/ new.keys[n + 1] <= new.keys[n]
         \/ \A x \in o : x <= new.keys[n + 1]
    <2>1. CASE i = n
      <3>1. new.keys[n] = sep /\ new.keys[n + 1] = sep
        BY <1>2, <1>4, <2>1
      <3>2. QED
        BY <1>4, <3>1
    <2>2. CASE i # n
      <3>1. n \in 1..n /\ ~(n < i) /\ n # i
        BY <1>4, <2>2
      <3>2. new.keys[n] = key(n - 1) /\ new.keys[n + 1] = key(n)
        BY <1>2, <2>2, <3>1
      <3>3. QED
        BY <1>7, <3>2
    <2>3. QED
      BY <2>1, <2>2
  <1>12. NodeFor(new, o)
    <2>1. Increasing(new.keys, Valid(new)) /\ \A j \in 1..Valid(new) : new.keys[j] \in o
      BY <1>8, <1>9, <1>10 DEF Increasing
    <2>2. n + 1 - 1 = n
      OBVIOUS
    <2>3. QED
      BY <1>2, <1>6, <1>8, <1>11, <2>1, <2>2 DEF NodeFor
  <1>13. ~Found(node, i - 1, sep)
    <2>1. Found(node, i - 1, sep) => key(i) = sep
      BY <1>4 DEF Found, key
    <2>2. CASE i < n
      BY <1>3, <1>4, <1>5, <2>1, <2>2
    <2>3. CASE i = n
      <3>1. key(n - 1) < sep /\ n - 1 \in 1..n /\ n \in 1..n
        BY <1>4, <1>5, <1>6, <2>3
      <3>2. key(n - 1) \in Nat /\ key(n) \in Nat
        BY <1>3, <3>1
      <3>3. key(n) # sep
        <4>1. CASE key(n) <= key(n - 1)
          BY <1>4, <3>1, <3>2, <4>1
        <4>2. CASE \A x \in o : x <= key(n)
          <5>1. y <= key(n)
            BY <4>2
          <5>2. QED
            BY <1>4, <3>2, <5>1
        <4>3. QED
          BY <1>7, <4>1, <4>2
      <3>4. QED
        BY <2>1, <2>3, <3>3
    <2>4. QED
      BY <1>4, <2>2, <2>3
  <1>14. i - 1 + 1 = i
    BY <1>4
  <1>15. InnerInsertAsserts(node, sep, node.entries[i])
    BY <1>1, <1>2, <1>6, <1>13, <1>14 DEF InnerInsertAsserts
  <1>16. QED
    BY <1>12, <1>15 DEF new

------------------------------------------------------------------------------
(* new is the leaf with value under key.                                     *)
LeafWith(new, node, o, key, value) ==
    /\ NodeFor(new, o) /\ IsLeaf(new)
    /\ \A x, v : Holds(new, x, v) <=> IF x = key THEN v = value ELSE Holds(node, x, v)

(* LeafNode::insert keeps the order of a leaf that has room and changes what *)
(* it holds under the one key.                                               *)
LEMMA LeafInsertNode ==
    ASSUME NEW o \in SUBSET Keys, NEW node, NodeFor(node, o), IsLeaf(node),
           Count(node) < LeafCapacity, NEW key \in o, NEW value \in Values
    PROVE  LeafWith(LeafInsert(node, key, value), node, o, key, value)
  <1> DEFINE new == LeafInsert(node, key, value)
             b == LeafBound(node, key)
             kk(j) == node.keys[j]
  <1>0. SUFFICES /\ NodeFor(new, o) /\ IsLeaf(new)
                 /\ \A x, v : Holds(new, x, v) <=>
                               IF x = key THEN v = value ELSE Holds(node, x, v)
    BY DEF LeafWith
  <1>1. PICK n \in Nat : n = Count(node)
    BY KeysInOrder
  <1>2. /\ node.keys \in Seq(Keys) /\ node.entries \in Seq(Values \cup Nat)
        /\ node.level = 0 /\ node \in Nodes
        /\ Len(node.keys) = n /\ Len(node.entries) = n /\ Valid(node) = n
    BY <1>1, KeysInOrder DEF NodeFor, IsLeaf, Valid
  <1>3. /\ \A j \in 1..n : kk(j) \in Nat
        /\ \A j, k \in 1..n : j < k => kk(j) < kk(k)
    BY <1>1, <1>2, KeysInOrder
  <1>4. key \in Nat /\ key \in Keys /\ value \in Values \cup Nat
    BY BTreeAssumption
  <1>5. /\ n < LeafCapacity /\ n + 1 <= LeafCapacity
        /\ \A j \in 1..n : kk(j) \in o
        /\ \A j \in 1..n : node.entries[j] \in Values
    BY <1>1, <1>2, CapacityAssumption DEF NodeFor
  <1>6. Increasing(node.keys, Count(node))
    BY <1>1, <1>2 DEF NodeFor
  <1>7. b \in 0..n /\ \A j \in 1..n : j <= b <=> kk(j) < key
    BY <1>1, <1>2, <1>4, <1>6, SearchLeaf
  <1>8. \A j \in 1..n : kk(j) = key => j = b + 1 /\ Found(node, b, key)
    BY <1>1, <1>2, <1>4, <1>6, SearchLeaf
  <1>9. new = IF Found(node, b, key) THEN [node EXCEPT !.entries[b + 1] = value]
              ELSE [node EXCEPT !.keys = InsertAt(node.keys, b + 1, key),
                                !.entries = InsertAt(node.entries, b + 1, value)]
    BY DEF LeafInsert
  <1>10. Found(node, b, key) <=> b < n /\ kk(b + 1) = key
    BY <1>1 DEF Found
  <1> HIDE DEF new, b, kk
  <1>11. CASE Found(node, b, key)
    <2>1. b + 1 \in 1..n /\ kk(b + 1) = key
      BY <1>7, <1>10, <1>11
    <2>2. new = [node EXCEPT !.entries = [node.entries EXCEPT ![b + 1] = value]]
      BY <1>2, <1>9, <1>11 DEF Nodes
    <2> DEFINE es == [node.entries EXCEPT ![b + 1] = value]
    <2>3. es \in Seq(Values \cup Nat) /\ Len(es) = n
      BY <1>2, <1>4, <2>1
    <2>4. \A j \in 1..n : es[j] = IF j = b + 1 THEN value ELSE node.entries[j]
      BY <1>2, <2>1
    <2> HIDE DEF es
    <2>5. new.level = 0 /\ new.keys = node.keys /\ new.entries = es /\ new \in Nodes
      BY <1>2, <2>2, <2>3 DEF Nodes, es
    <2>6. Count(new) = n /\ IsLeaf(new) /\ Valid(new) = n /\ Len(new.entries) = n
      BY <1>2, <2>3, <2>5 DEF Count, IsLeaf, Valid
    <2>7. Increasing(new.keys, n) /\ \A j \in 1..n : new.keys[j] \in o
      BY <1>1, <1>5, <1>6, <2>5 DEF kk
    <2>8. \A j \in 1..n : new.entries[j] \in Values
      BY <1>5, <2>4, <2>5
    <2>9. NodeFor(new, o)
      <3>1. n <= LeafCapacity
        BY <1>5, CapacityAssumption
      <3>2. QED
        BY <2>5, <2>6, <2>7, <2>8, <3>1 DEF NodeFor
    <2>10. ASSUME NEW x, NEW v
           PROVE  Holds(new, x, v) <=> IF x = key THEN v = value ELSE Holds(node, x, v)
      <3>1. Holds(new, x, v) <=> \E j \in 1..n : kk(j) = x /\ es[j] = v
        BY <2>5, <2>6 DEF Holds, kk
      <3>2. Holds(node, x, v) <=> \E j \in 1..n : kk(j) = x /\ node.entries[j] = v
        BY <1>1 DEF Holds, kk
      <3>3. CASE x = key
        <4>1. es[b + 1] = value
          BY <2>1, <2>4
        <4>2. \A j \in 1..n : kk(j) = x => j = b + 1
          BY <1>8, <3>3
        <4>3. QED
          BY <2>1, <3>1, <3>3, <4>1, <4>2
      <3>4. CASE x # key
        <4>1. \A j \in 1..n : kk(j) = x => es[j] = node.entries[j]
          BY <2>1, <2>4, <3>4
        <4>2. QED
          BY <3>1, <3>2, <3>4, <4>1
      <3>5. QED
        BY <3>3, <3>4
    <2>11. QED
      BY <2>6, <2>9, <2>10 DEF new
  <1>12. CASE ~Found(node, b, key)
    <2> DEFINE ks == InsertAt(node.keys, b + 1, key)
               es == InsertAt(node.entries, b + 1, value)
    <2>1. b + 1 \in 1..(n + 1) /\ b \in Nat /\ b + 1 \in Nat
      BY <1>7
    <2>2. ks \in Seq(Keys) /\ Inserted(ks, node.keys, n, b + 1, key)
      BY <1>2, <1>4, <2>1, InsertAtElements
    <2>3. es \in Seq(Values \cup Nat) /\ Inserted(es, node.entries, n, b + 1, value)
      BY <1>2, <1>4, <2>1, InsertAtElements
    <2> HIDE DEF ks, es
    <2>4. /\ Len(ks) = n + 1
          /\ \A j \in 1..(n + 1) :
                ks[j] = IF j < b + 1 THEN kk(j) ELSE IF j = b + 1 THEN key ELSE kk(j - 1)
      BY <2>2 DEF Inserted, kk
    <2>5. /\ Len(es) = n + 1
          /\ \A j \in 1..(n + 1) :
                es[j] = IF j < b + 1 THEN node.entries[j]
                        ELSE IF j = b + 1 THEN value ELSE node.entries[j - 1]
      BY <2>3 DEF Inserted
    <2>6. new = [node EXCEPT !.keys = ks, !.entries = es]
      BY <1>9, <1>12 DEF ks, es
    <2>7. new.level = 0 /\ new.keys = ks /\ new.entries = es /\ new \in Nodes
      BY <1>2, <2>2, <2>3, <2>6 DEF Nodes
    <2>8. Count(new) = n + 1 /\ IsLeaf(new) /\ Valid(new) = n + 1 /\ Len(new.entries) = n + 1
      BY <2>4, <2>5, <2>7 DEF Count, IsLeaf, Valid
    <2>9. ASSUME NEW j \in 1..n
          PROVE  /\ j < b + 1 => kk(j) < key
                 /\ ~(j < b + 1) => key < kk(j)
      <3>1. j < b + 1 <=> j <= b
        BY <2>1
      <3>2. kk(j) # key
        <4>1. SUFFICES ASSUME kk(j) = key PROVE FALSE
          OBVIOUS
        <4>2. Found(node, b, key)
          BY <1>8, <4>1
        <4>3. QED
          BY <1>12, <4>2
      <3>3. kk(j) \in Nat /\ (j <= b <=> kk(j) < key)
        BY <1>3, <1>7
      <3>4. QED
        BY <1>4, <3>1, <3>2, <3>3
    <2>10. ASSUME NEW j \in 1..(n + 1), NEW k \in 1..(n + 1), j < k PROVE ks[j] < ks[k]
      <3>1. CASE k < b + 1
        <4>1. j \in 1..n /\ k \in 1..n /\ j < b + 1
          BY <2>1, <2>10, <3>1
        <4>2. ks[j] = kk(j) /\ ks[k] = kk(k)
          BY <2>4, <3>1, <4>1
        <4>3. QED
          BY <1>3, <2>10, <4>1, <4>2
      <3>2. CASE k = b + 1
        <4>1. j \in 1..n /\ j < b + 1
          BY <2>1, <2>10, <3>2
        <4>2. ks[j] = kk(j) /\ ks[k] = key
          BY <2>4, <3>2, <4>1
        <4>3. kk(j) < key
          BY <2>9, <4>1
        <4>4. QED
          BY <4>2, <4>3
      <3>3. CASE k > b + 1
        <4>1. ~(k < b + 1) /\ k # b + 1 /\ k - 1 \in 1..n /\ ~(k - 1 < b + 1)
          BY <2>1, <3>3
        <4>2. ks[k] = kk(k - 1) /\ key < kk(k - 1) /\ kk(k - 1) \in Nat
          BY <1>3, <2>4, <2>9, <4>1
        <4>3. CASE j < b + 1
          <5>1. j \in 1..n
            BY <2>1, <4>1, <4>3
          <5>2. ks[j] = kk(j) /\ kk(j) \in Nat
            BY <1>3, <2>4, <4>3, <5>1
          <5>3. kk(j) < key
            BY <2>9, <4>3, <5>1
          <5>4. QED
            BY <1>4, <4>2, <5>2, <5>3
        <4>4. CASE j = b + 1
          <5>1. ks[j] = key
            BY <2>1, <2>4, <4>4
          <5>2. QED
            BY <4>2, <5>1
        <4>5. CASE j > b + 1
          <5>1. ~(j < b + 1) /\ j # b + 1 /\ j - 1 \in 1..n /\ j - 1 < k - 1
            BY <2>1, <2>10, <4>5
          <5>2. ks[j] = kk(j - 1) /\ kk(j - 1) < kk(k - 1)
            BY <1>3, <2>4, <4>1, <5>1
          <5>3. QED
            BY <4>2, <5>2
        <4>6. QED
          BY <2>1, <4>3, <4>4, <4>5
      <3>4. QED
        BY <2>1, <3>1, <3>2, <3>3
    <2>11. ASSUME NEW j \in 1..(n + 1) PROVE ks[j] \in o /\ es[j] \in Values
      <3>1. CASE j < b + 1
        <4>1. j \in 1..n
          BY <2>1, <3>1
        <4>2. QED
          BY <1>5, <2>4, <2>5, <3>1, <4>1
      <3>2. CASE j = b + 1
        <4>1. ks[j] = key /\ es[j] = value
          BY <2>1, <2>4, <2>5, <3>2
        <4>2. QED
          BY <4>1
      <3>3. CASE j > b + 1
        <4>1. ~(j < b + 1) /\ j # b + 1 /\ j - 1 \in 1..n
          BY <2>1, <3>3
        <4>2. ks[j] = kk(j - 1) /\ es[j] = node.entries[j - 1]
          BY <2>4, <2>5, <4>1
        <4>3. QED
          BY <1>5, <4>1, <4>2
      <3>4. QED
        BY <2>1, <3>1, <3>2, <3>3
    <2>12. NodeFor(new, o)
      <3>1. Increasing(new.keys, n + 1)
        BY <2>7, <2>10 DEF Increasing
      <3>2. QED
        BY <1>5, <2>7, <2>8, <2>11, <3>1 DEF NodeFor
    <2>13. ASSUME NEW x, NEW v
           PROVE  Holds(new, x, v) <=> IF x = key THEN v = value ELSE Holds(node, x, v)
      <3>1. Holds(new, x, v) <=> \E j \in 1..(n + 1) : ks[j] = x /\ es[j] = v
        BY <2>7, <2>8 DEF Holds
      <3>2. Holds(node, x, v) <=> \E j \in 1..n : kk(j) = x /\ node.entries[j] = v
        BY <1>1 DEF Holds, kk
      <3>3. \A j \in 1..n : kk(j) # key
        <4>1. ASSUME NEW j \in 1..n, kk(j) = key PROVE FALSE
          <5>1. Found(node, b, key)
            BY <1>8, <4>1
          <5>2. QED
            BY <1>12, <5>1
        <4>2. QED
          BY <4>1
      <3>4. ks[b + 1] = key /\ es[b + 1] = value
        BY <2>1, <2>4, <2>5
      <3>5. ASSUME NEW j \in 1..(n + 1), j # b + 1
            PROVE  \E k \in 1..n : ks[j] = kk(k) /\ es[j] = node.entries[k]
        <4>1. CASE j < b + 1
          <5>1. j \in 1..n
            BY <2>1, <4>1
          <5>2. QED
            BY <2>4, <2>5, <4>1, <5>1
        <4>2. CASE ~(j < b + 1)
          <5>1. j - 1 \in 1..n
            BY <2>1, <3>5, <4>2
          <5>2. ks[j] = kk(j - 1) /\ es[j] = node.entries[j - 1]
            BY <2>4, <2>5, <3>5, <4>2
          <5>3. QED
            BY <5>1, <5>2
        <4>3. QED
          BY <4>1, <4>2
      <3>6. ASSUME NEW k \in 1..n
            PROVE  \E j \in 1..(n + 1) : ks[j] = kk(k) /\ es[j] = node.entries[k]
        <4>1. CASE k < b + 1
          <5>1. k \in 1..(n + 1)
            OBVIOUS
          <5>2. QED
            BY <2>4, <2>5, <4>1, <5>1
        <4>2. CASE ~(k < b + 1)
          <5>1. k + 1 \in 1..(n + 1) /\ ~(k + 1 < b + 1) /\ k + 1 # b + 1 /\ k + 1 - 1 = k
            BY <2>1, <4>2
          <5>2. ks[k + 1] = kk(k) /\ es[k + 1] = node.entries[k]
            BY <2>4, <2>5, <5>1
          <5>3. QED
            BY <5>1, <5>2
        <4>3. QED
          BY <4>1, <4>2
      <3>7. CASE x = key
        <4>1. ASSUME NEW j \in 1..(n + 1), ks[j] = x, es[j] = v PROVE v = value
          <5>1. CASE j = b + 1
            BY <3>4, <4>1, <5>1
          <5>2. CASE j # b + 1
            BY <3>3, <3>5, <3>7, <4>1, <5>2
          <5>3. QED
            BY <5>1, <5>2
        <4>2. QED
          BY <2>1, <3>1, <3>4, <3>7, <4>1
      <3>8. CASE x # key
        <4>1. ASSUME NEW j \in 1..(n + 1), ks[j] = x, es[j] = v PROVE Holds(node, x, v)
          <5>1. j # b + 1
            BY <3>4, <3>8, <4>1
          <5>2. QED
            BY <3>2, <3>5, <4>1, <5>1
        <4>2. ASSUME NEW k \in 1..n, kk(k) = x, node.entries[k] = v PROVE Holds(new, x, v)
          BY <3>1, <3>6, <4>2
        <4>3. QED
          BY <3>1, <3>2, <3>8, <4>1, <4>2
      <3>9. QED
        BY <3>7, <3>8
    <2>14. QED
      BY <2>8, <2>12, <2>13 DEF new
  <1>13. QED
    BY <1>11, <1>12

(* new is the leaf without key.                                              *)
LeafWithout(new, node, o, key) ==
    /\ NodeFor(new, o) /\ IsLeaf(new)
    /\ \A x, v : Holds(new, x, v) <=> x # key /\ Holds(node, x, v)

(* LeafNode::erase keeps the order of a leaf and removes what it holds under *)
(* the one key.                                                              *)
LEMMA LeafEraseNode ==
    ASSUME NEW o \in SUBSET Keys, NEW node, NodeFor(node, o), IsLeaf(node), NEW key \in o
    PROVE  LeafWithout(LeafErase(node, key), node, o, key)
  <1> DEFINE new == LeafErase(node, key)
             b == LeafBound(node, key)
             kk(j) == node.keys[j]
  <1>0. SUFFICES /\ NodeFor(new, o) /\ IsLeaf(new)
                 /\ \A x, v : Holds(new, x, v) <=> x # key /\ Holds(node, x, v)
    BY DEF LeafWithout
  <1>1. PICK n \in Nat : n = Count(node)
    BY KeysInOrder
  <1>2. /\ node.keys \in Seq(Keys) /\ node.entries \in Seq(Values \cup Nat)
        /\ node.level = 0 /\ node \in Nodes
        /\ Len(node.keys) = n /\ Len(node.entries) = n /\ Valid(node) = n
    BY <1>1, KeysInOrder DEF NodeFor, IsLeaf, Valid
  <1>3. /\ \A j \in 1..n : kk(j) \in Nat
        /\ \A j, k \in 1..n : j < k => kk(j) < kk(k)
    BY <1>1, <1>2, KeysInOrder
  <1>4. key \in Nat
    BY BTreeAssumption
  <1>5. /\ n <= LeafCapacity
        /\ \A j \in 1..n : kk(j) \in o
        /\ \A j \in 1..n : node.entries[j] \in Values
    BY <1>1, <1>2 DEF NodeFor
  <1>6. Increasing(node.keys, Count(node))
    BY <1>1, <1>2 DEF NodeFor
  <1>7. b \in 0..n
    BY <1>1, <1>2, <1>4, <1>6, SearchLeaf
  <1>8. \A j \in 1..n : kk(j) = key => j = b + 1 /\ Found(node, b, key)
    BY <1>1, <1>2, <1>4, <1>6, SearchLeaf
  <1>9. new = IF Found(node, b, key)
              THEN [node EXCEPT !.keys = RemoveAt(node.keys, b + 1),
                                !.entries = RemoveAt(node.entries, b + 1)]
              ELSE node
    BY DEF LeafErase
  <1>10. Found(node, b, key) <=> b < n /\ kk(b + 1) = key
    BY <1>1 DEF Found
  <1> HIDE DEF new, b, kk
  <1>11. CASE ~Found(node, b, key)
    <2>1. new = node
      BY <1>9, <1>11
    <2>2. ASSUME NEW x, NEW v PROVE Holds(node, x, v) => x # key
      <3>1. Holds(node, x, v) => \E j \in 1..n : kk(j) = x
        BY <1>1 DEF Holds, kk
      <3>2. QED
        BY <1>8, <1>11, <3>1
    <2>3. QED
      BY <2>1, <2>2 DEF new
  <1>12. CASE Found(node, b, key)
    <2> DEFINE ks == RemoveAt(node.keys, b + 1)
               es == RemoveAt(node.entries, b + 1)
    <2>1. b + 1 \in 1..n /\ kk(b + 1) = key /\ b \in Nat
      BY <1>7, <1>10, <1>12
    <2>2. Removed(ks, Keys, node.keys, n, b + 1)
      BY <1>2, <2>1, RemovedElement
    <2>3. /\ ks \in Seq(Keys) /\ Len(ks) = n - 1
          /\ \A j \in 1..(n - 1) : ks[j] = IF j < b + 1 THEN kk(j) ELSE kk(j + 1)
      BY <2>2 DEF Removed, kk
    <2>4. Removed(es, Values \cup Nat, node.entries, n, b + 1)
      BY <1>2, <2>1, RemovedElement
    <2>5. /\ es \in Seq(Values \cup Nat) /\ Len(es) = n - 1
          /\ \A j \in 1..(n - 1) :
                es[j] = IF j < b + 1 THEN node.entries[j] ELSE node.entries[j + 1]
      BY <2>4 DEF Removed
    <2>6. new = [node EXCEPT !.keys = ks, !.entries = es]
      BY <1>9, <1>12
    <2> HIDE DEF ks, es
    <2>7. new.level = 0 /\ new.keys = ks /\ new.entries = es /\ new \in Nodes
      BY <1>2, <2>3, <2>5, <2>6 DEF Nodes
    <2>8. Count(new) = n - 1 /\ IsLeaf(new) /\ Valid(new) = n - 1 /\ Len(new.entries) = n - 1
      BY <2>3, <2>5, <2>7 DEF Count, IsLeaf, Valid
    <2>9. ASSUME NEW j \in 1..(n - 1)
          PROVE  \E k \in 1..n : /\ k # b + 1 /\ ks[j] = kk(k) /\ es[j] = node.entries[k]
                                 /\ k = IF j < b + 1 THEN j ELSE j + 1
      <3>1. CASE j < b + 1
        <4>1. j \in 1..n /\ j # b + 1
          BY <2>1, <3>1
        <4>2. ks[j] = kk(j) /\ es[j] = node.entries[j]
          BY <2>3, <2>5, <3>1
        <4>3. QED
          BY <3>1, <4>1, <4>2
      <3>2. CASE ~(j < b + 1)
        <4>1. j + 1 \in 1..n /\ j + 1 # b + 1
          BY <2>1, <3>2
        <4>2. ks[j] = kk(j + 1) /\ es[j] = node.entries[j + 1]
          BY <2>3, <2>5, <3>2
        <4>3. QED
          BY <3>2, <4>1, <4>2
      <3>3. QED
        BY <3>1, <3>2
    <2>10. ASSUME NEW k \in 1..n, k # b + 1
           PROVE  \E j \in 1..(n - 1) : ks[j] = kk(k) /\ es[j] = node.entries[k]
      <3>1. CASE k < b + 1
        <4>1. k \in 1..(n - 1)
          BY <2>1, <3>1
        <4>2. QED
          BY <2>3, <2>5, <3>1, <4>1
      <3>2. CASE ~(k < b + 1)
        <4>1. k - 1 \in 1..(n - 1) /\ ~(k - 1 < b + 1) /\ k - 1 + 1 = k
          BY <2>1, <2>10, <3>2
        <4>2. ks[k - 1] = kk(k) /\ es[k - 1] = node.entries[k]
          BY <2>3, <2>5, <4>1
        <4>3. QED
          BY <4>1, <4>2
      <3>3. QED
        BY <3>1, <3>2
    <2>11. NodeFor(new, o)
      <3>1. ASSUME NEW i \in 1..(n - 1), NEW j \in 1..(n - 1), i < j PROVE ks[i] < ks[j]
        <4>1. PICK k \in 1..n : ks[i] = kk(k) /\ k = IF i < b + 1 THEN i ELSE i + 1
          BY <2>9
        <4>2. PICK l \in 1..n : ks[j] = kk(l) /\ l = IF j < b + 1 THEN j ELSE j + 1
          BY <2>9
        <4>3. k < l
          BY <2>1, <3>1, <4>1, <4>2
        <4>4. QED
          BY <1>3, <4>1, <4>2, <4>3
      <3>2. Increasing(new.keys, n - 1)
        BY <2>7, <3>1 DEF Increasing
      <3>3. \A j \in 1..(n - 1) : ks[j] \in o /\ es[j] \in Values
        BY <1>5, <2>9
      <3>4. n - 1 <= LeafCapacity
        BY <1>5, CapacityAssumption
      <3>5. QED
        BY <2>7, <2>8, <3>2, <3>3, <3>4 DEF NodeFor
    <2>12. ASSUME NEW x, NEW v PROVE Holds(new, x, v) <=> x # key /\ Holds(node, x, v)
      <3>1. Holds(new, x, v) <=> \E j \in 1..(n - 1) : ks[j] = x /\ es[j] = v
        BY <2>7, <2>8 DEF Holds
      <3>2. Holds(node, x, v) <=> \E j \in 1..n : kk(j) = x /\ node.entries[j] = v
        BY <1>1 DEF Holds, kk
      <3>3. \A j \in 1..n : kk(j) = key <=> j = b + 1
        BY <1>8, <2>1
      <3>4. Holds(new, x, v) => x # key /\ Holds(node, x, v)
        BY <2>9, <3>1, <3>2, <3>3
      <3>5. x # key /\ Holds(node, x, v) => Holds(new, x, v)
        BY <2>10, <3>1, <3>2, <3>3
      <3>6. QED
        BY <3>4, <3>5
    <2>13. QED
      BY <2>8, <2>11, <2>12 DEF new
  <1>13. QED
    BY <1>11, <1>12

(* LeafNode::lookup returns the value that the leaf holds.                   *)
LEMMA LeafLookup ==
    ASSUME NEW o \in SUBSET Keys, NEW node, NodeFor(node, o), IsLeaf(node), NEW key \in Nat
    PROVE  /\ \A v : Holds(node, key, v) => ValueIn(node, key, Nothing) = v
           /\ (\A v : ~Holds(node, key, v)) => ValueIn(node, key, Nothing) = Nothing
           /\ \A v : Holds(node, key, v) => v \in Values /\ key \in o
           /\ key \in ToSet(node.keys) <=> \E v : Holds(node, key, v)
  <1> DEFINE b == LeafBound(node, key)
  <1>1. PICK n \in Nat : n = Count(node)
    BY KeysInOrder
  <1>2. /\ node \in Nodes /\ Len(node.keys) = n /\ node.keys \in Seq(Keys)
        /\ Increasing(node.keys, Count(node))
        /\ \A j \in 1..n : node.entries[j] \in Values /\ node.keys[j] \in o
    BY <1>1, KeysInOrder DEF NodeFor, Valid
  <1>3. b \in 0..n
    BY <1>1, <1>2, SearchLeaf
  <1>4. \A j \in 1..n : node.keys[j] = key => j = b + 1 /\ Found(node, b, key)
    BY <1>1, <1>2, SearchLeaf
  <1>5. Found(node, b, key) => Holds(node, key, node.entries[b + 1])
    <2>1. Found(node, b, key) => b + 1 \in 1..n /\ node.keys[b + 1] = key
      BY <1>1, <1>3 DEF Found
    <2>2. QED
      BY <1>1, <2>1 DEF Holds
  <1> HIDE DEF b
  <1>6. ValueIn(node, key, Nothing) = IF Found(node, b, key) THEN node.entries[b + 1] ELSE Nothing
    BY DEF ValueIn, b
  <1>7. ASSUME NEW v, Holds(node, key, v)
        PROVE  Found(node, b, key) /\ v = node.entries[b + 1] /\ v \in Values /\ key \in o
    <2>1. PICK j \in 1..n : node.keys[j] = key /\ node.entries[j] = v
      BY <1>1, <1>7 DEF Holds
    <2>2. QED
      BY <1>2, <1>4, <2>1
  <1>8. key \in ToSet(node.keys) <=> \E j \in 1..n : node.keys[j] = key
    BY <1>2 DEF ToSet
  <1>9. (\E j \in 1..n : node.keys[j] = key) <=> \E v : Holds(node, key, v)
    BY <1>1 DEF Holds
  <1>10. QED
    BY <1>5, <1>6, <1>7, <1>8, <1>9

(* A split leaf holds what its halves hold.                                  *)
LEMMA LeafSplitHolds ==
    ASSUME NEW o \in SUBSET Keys, NEW node, NodeFor(node, o), IsLeaf(node), NEW k \in Nat,
           k = KeptBySplit(node), 1 <= k, k < Valid(node), NEW x, NEW v
    PROVE  Holds(node, x, v) <=> Holds(SplitLeft(node), x, v) \/ Holds(SplitRight(node), x, v)
  <1> DEFINE left == SplitLeft(node)
             right == SplitRight(node)
  <1>1. PICK n \in Nat : n = Count(node)
    BY KeysInOrder
  <1>2. Valid(node) = n /\ node \in Nodes /\ Len(node.entries) = n
    BY <1>1 DEF NodeFor, Valid
  <1>3. k \in 1..(n - 1)
    BY <1>2
  <1>4. /\ Count(left) = k /\ Count(right) = n - k
        /\ \A i \in 1..k : left.keys[i] = node.keys[i] /\ left.entries[i] = node.entries[i]
        /\ \A i \in 1..(n - k) :
              right.keys[i] = node.keys[k + i] /\ right.entries[i] = node.entries[k + i]
    BY <1>1, <1>2, <1>3, SplitShape
  <1> HIDE DEF left, right
  <1>5. \A i \in 1..k : i \in 1..n
    BY <1>3
  <1>6. \A i \in 1..(n - k) : k + i \in 1..n
    BY <1>3
  <1>7. \A i \in 1..n : i \in 1..k \/ \E j \in 1..(n - k) : i = k + j
    <2> TAKE i \in 1..n
    <2>1. i \in 1..k \/ (i - k \in 1..(n - k) /\ i = k + (i - k))
      BY <1>3
    <2>2. QED
      BY <2>1
  <1>8. Holds(left, x, v) => Holds(node, x, v)
    BY <1>1, <1>4, <1>5 DEF Holds
  <1>9. Holds(right, x, v) => Holds(node, x, v)
    BY <1>1, <1>4, <1>6 DEF Holds
  <1>10. Holds(node, x, v) => Holds(left, x, v) \/ Holds(right, x, v)
    BY <1>1, <1>4, <1>7 DEF Holds
  <1>11. QED
    BY <1>8, <1>9, <1>10 DEF left, right

------------------------------------------------------------------------------
(* Lemmas about trees: what holds of a page, and of its children.            *)
LEMMA TreeSize ==
    ASSUME NEW pg, NEW own, NEW top, Tree(pg, own, top), NEW n \in Nat, DOMAIN own = 1..n
    PROVE  n = Len(own) /\ n <= Len(pg)
  <1>1. own \in Seq(SUBSET Keys) /\ top \in DOMAIN own /\ Len(own) <= Len(pg)
    BY DEF Tree
  <1>2. DOMAIN own = 1..Len(own) /\ Len(own) \in Nat
    BY <1>1
  <1>3. n \in 1..n /\ Len(own) \in 1..Len(own)
    BY <1>1, <1>2
  <1>4. QED
    BY <1>1, <1>2, <1>3

(* What a tree says of its pages: each is a node for the keys it owns, its   *)
(* children own their share, and no two pages of a level own the same key.   *)
LEMMA TreePages ==
    ASSUME NEW pg, NEW own, NEW top, Tree(pg, own, top), NEW n \in Nat, DOMAIN own = 1..n
    PROVE  /\ n <= Len(pg)
           /\ top \in 1..n /\ own[top] = Keys /\ pg[top].level < n
           /\ \A p \in 1..n : /\ own[p] \in SUBSET Keys /\ own[p] # {}
                              /\ NodeFor(pg[p], own[p]) /\ pg[p].level \in Nat
                              /\ pg[p].level <= pg[top].level
                              /\ ChildrenFor(pg[p], own[p], pg, own)
           /\ \A p, q \in 1..n : p # q /\ pg[p].level = pg[q].level => own[p] \cap own[q] = {}
  <1>1. own \in Seq(SUBSET Keys) /\ n = Len(own) /\ n <= Len(pg)
    BY TreeSize DEF Tree
  <1>2. ASSUME NEW p \in 1..n
        PROVE  /\ own[p] \in SUBSET Keys /\ own[p] # {}
               /\ NodeFor(pg[p], own[p]) /\ pg[p].level \in Nat
               /\ pg[p].level <= pg[top].level
               /\ ChildrenFor(pg[p], own[p], pg, own)
    <2>1. own[p] \in SUBSET Keys
      BY <1>1
    <2>2. /\ own[p] # {} /\ NodeFor(pg[p], own[p]) /\ pg[p].level <= pg[top].level
          /\ ChildrenFor(pg[p], own[p], pg, own)
      BY <1>1 DEF Tree
    <2>3. pg[p].level \in Nat
      BY <2>2 DEF NodeFor, Nodes
    <2>4. QED
      BY <2>1, <2>2, <2>3
  <1>3. QED
    BY <1>1, <1>2 DEF Tree

(* The child that a node leads a key to, and only that one, has the key.     *)
LEMMA TreeChild ==
    ASSUME NEW pg, NEW own, NEW top, Tree(pg, own, top), NEW s \in Nat, DOMAIN own = 1..s,
           NEW p \in 1..s, ~IsLeaf(pg[p]),
           NEW key \in own[p]
    PROVE  LET b == InnerBound(pg[p], key) + 1
               c == ChildFor(pg[p], key)
           IN  /\ b \in 1..Count(pg[p]) /\ c = pg[p].entries[b]
               /\ c \in 1..s /\ key \in own[c]
               /\ pg[c].level = pg[p].level - 1
               /\ Routes(pg[p], key, b)
               /\ \A i \in 1..Count(pg[p]) : key \in own[pg[p].entries[i]] => i = b
  <1>1. /\ own[p] \in SUBSET Keys /\ NodeFor(pg[p], own[p])
        /\ ChildrenFor(pg[p], own[p], pg, own)
    BY TreePages
  <1>2. key \in Nat
    BY <1>1, BTreeAssumption
  <1>3. PICK n \in Nat : n = Count(pg[p]) /\ n >= 1 /\ pg[p] \in Nodes
                         /\ Increasing(pg[p].keys, Count(pg[p]) - 1)
    BY <1>1, KeysInOrder DEF NodeFor, Valid
  <1> DEFINE b == InnerBound(pg[p], key) + 1
  <1>4. InnerBound(pg[p], key) \in 0..(n - 1)
    BY <1>2, <1>3, SearchInner
  <1>5. \A i \in 1..n : Routes(pg[p], key, i) <=> i = b
    BY <1>2, <1>3, SearchInner
  <1>6. b \in 1..n
    BY <1>4
  <1> HIDE DEF b
  <1>7. Routes(pg[p], key, b)
    BY <1>5, <1>6
  <1>8. \A i \in 1..n : /\ pg[p].entries[i] \in DOMAIN own
                        /\ pg[pg[p].entries[i]].level = pg[p].level - 1
                        /\ own[pg[p].entries[i]] = {k \in own[p] : Routes(pg[p], k, i)}
    BY <1>1, <1>3 DEF ChildrenFor
  <1>9. \A i \in 1..n : key \in own[pg[p].entries[i]] => i = b
    BY <1>5, <1>8
  <1>10. ChildFor(pg[p], key) = pg[p].entries[b]
    BY DEF ChildFor, b
  <1>11. key \in own[pg[p].entries[b]]
    BY <1>6, <1>7, <1>8
  <1>12. QED
    BY <1>3, <1>6, <1>7, <1>8, <1>9, <1>10, <1>11 DEF b

(* c is a child of p, its i-th, and of no other page.                        *)
OnlyChild(pg, own, top, n, c, p, i) ==
    /\ c # top /\ c # p /\ c \in 1..n /\ own[c] \subseteq own[p]
    /\ \A q \in 1..n : ~IsLeaf(pg[q]) =>
          \A j \in 1..Count(pg[q]) : pg[q].entries[j] = c => q = p /\ j = i

(* A page has one parent, in which it is one child; the root has none.       *)
LEMMA TreeParent ==
    ASSUME NEW pg, NEW own, NEW top, Tree(pg, own, top), NEW n \in Nat, DOMAIN own = 1..n, NEW c,
           NEW p \in 1..n, ~IsLeaf(pg[p]), NEW i \in 1..Count(pg[p]), c = pg[p].entries[i]
    PROVE  OnlyChild(pg, own, top, n, c, p, i)
  <1>2. /\ \A q \in 1..n : /\ own[q] \in SUBSET Keys /\ own[q] # {}
                           /\ pg[q].level \in Nat /\ pg[q].level <= pg[top].level
                           /\ ChildrenFor(pg[q], own[q], pg, own)
        /\ top \in 1..n
    BY TreePages
  <1>3. \A q, r \in 1..n : q # r /\ pg[q].level = pg[r].level => own[q] \cap own[r] = {}
    BY TreePages
  <1>4. ASSUME NEW q \in 1..n, ~IsLeaf(pg[q]), NEW j \in 1..Count(pg[q]), pg[q].entries[j] = c
        PROVE  c \in 1..n /\ pg[c].level = pg[q].level - 1 /\ own[c] \subseteq own[q]
    BY <1>2, <1>4 DEF ChildrenFor
  <1>5. c \in 1..n /\ pg[c].level = pg[p].level - 1 /\ own[c] \subseteq own[p]
    BY <1>4
  <1>6. c # p /\ c # top
    BY <1>2, <1>5, SMTT(30)
  <1>7. PICK key : key \in own[c]
    BY <1>2, <1>5
  <1>8. ASSUME NEW q \in 1..n, ~IsLeaf(pg[q]), NEW j \in 1..Count(pg[q]), pg[q].entries[j] = c
        PROVE  q = p /\ j = i
    <2>1. pg[q].level = pg[p].level
      <3>1. pg[c].level = pg[q].level - 1
        BY <1>4, <1>8
      <3>2. pg[q].level \in Nat /\ pg[p].level \in Nat
        BY <1>2
      <3>3. PICK x \in Nat, y \in Nat : x = pg[q].level /\ y = pg[p].level
        BY <3>2
      <3>4. x - 1 = y - 1
        BY <1>5, <3>1, <3>3
      <3>5. x = y
        BY <3>4
      <3>6. QED
        BY <3>3, <3>5
    <2>2. key \in own[q] /\ key \in own[p]
      BY <1>4, <1>5, <1>7, <1>8
    <2>3. q = p
      BY <1>3, <2>1, <2>2
    <2>4. \A k \in 1..Count(pg[p]) : key \in own[pg[p].entries[k]] => k = InnerBound(pg[p], key) + 1
      BY <2>2, TreeChild
    <2>5. j = InnerBound(pg[p], key) + 1 /\ i = InnerBound(pg[p], key) + 1
      BY <1>7, <1>8, <2>3, <2>4
    <2>6. QED
      BY <2>3, <2>5
  <1>9. QED
    BY <1>5, <1>6, <1>8 DEF OnlyChild

(* A leaf may be replaced by one for the same keys.                          *)
LEMMA TreeReplace ==
    ASSUME NEW pg, NEW own, NEW top, Tree(pg, own, top), NEW pg2, Len(pg2) >= Len(own),
           NEW c \in DOMAIN own, IsLeaf(pg[c]), IsLeaf(pg2[c]), NodeFor(pg2[c], own[c]),
           \A q \in DOMAIN own : q # c => pg2[q] = pg[q]
    PROVE  Tree(pg2, own, top)
  <1>1. \A q \in DOMAIN own : pg2[q].level = pg[q].level
    BY DEF IsLeaf
  <1>2. ASSUME NEW q \in DOMAIN own
        PROVE  NodeFor(pg2[q], own[q]) /\ ChildrenFor(pg2[q], own[q], pg2, own)
    <2>1. NodeFor(pg[q], own[q]) /\ ChildrenFor(pg[q], own[q], pg, own)
      BY DEF Tree
    <2>2. CASE q = c
      BY <2>2 DEF ChildrenFor
    <2>3. CASE q # c
      <3>1. pg2[q] = pg[q]
        BY <2>3
      <3>2. QED
        BY <1>1, <2>1, <3>1 DEF ChildrenFor
    <2>4. QED
      BY <2>2, <2>3
  <1>3. Len(own) <= Len(pg2)
    <2>1. own \in Seq(SUBSET Keys) /\ Len(own) <= Len(pg)
      BY DEF Tree
    <2>2. QED
      BY <2>1
  <1>4. QED
    BY <1>1, <1>2, <1>3 DEF Tree

------------------------------------------------------------------------------
(* pg2 has the halves of the page c, whose parent is p, in c and behind n    *)
(* pages.                                                                    *)
DividesPage(pg, own, n, c, p, sep, pg2, own2) ==
    /\ Halves(pg[c], own[c], sep, pg2[c], pg2[n + 1], pg, own)
    /\ own2[c] = {x \in own[c] : x <= sep}
    /\ own2[n + 1] = {x \in own[c] : x > sep}
    /\ \A q \in 1..n : q # c => own2[q] = own[q]
    /\ \A q \in 1..n : q # c /\ q # p => pg2[q] = pg[q]
    /\ p \in 1..n => pg2[p].level = pg[p].level

(* What a split leaves of the tree: p is the page that still has to be told. *)
Divided(pg, n, c, p, pg2, own2) ==
    /\ \A q \in 1..n : pg2[q].level = pg[q].level
    /\ pg2[n + 1].level = pg[c].level
    /\ \A q \in 1..(n + 1) : /\ own2[q] # {}
                             /\ q # p => NodeFor(pg2[q], own2[q])
                             /\ q # p => ChildrenFor(pg2[q], own2[q], pg2, own2)
    /\ \A q, r \in 1..(n + 1) :
          q # r /\ pg2[q].level = pg2[r].level => own2[q] \cap own2[r] = {}

(* No inner page but p has the child c.                                      *)
NoOtherParent(pg, n, c, p) ==
    \A q \in 1..n : q # p /\ ~IsLeaf(pg[q]) =>
        \A j \in 1..Count(pg[q]) : pg[q].entries[j] # c

(* Dividing a page at a separator leaves nodes for the keys they own         *)
(* everywhere but in the parent, which does not know the new page yet.       *)
LEMMA DividedPages ==
    ASSUME NEW pg, NEW own, NEW top, Tree(pg, own, top), NEW n \in Nat, DOMAIN own = 1..n,
           NEW c \in 1..n, NEW p, p # c, p # n + 1,
           NoOtherParent(pg, n, c, p),
           NEW sep, NEW pg2, NEW own2, 1..(n + 1) \subseteq DOMAIN own2,
           DividesPage(pg, own, n, c, p, sep, pg2, own2)
    PROVE  Divided(pg, n, c, p, pg2, own2)
  <1> DEFINE low == {x \in own[c] : x <= sep}
             high == {x \in own[c] : x > sep}
  <1>1. \A q \in 1..n : /\ own[q] \in SUBSET Keys /\ own[q] # {}
                        /\ NodeFor(pg[q], own[q]) /\ pg[q].level \in Nat
                        /\ ChildrenFor(pg[q], own[q], pg, own)
    BY TreePages
  <1>2. \A q, r \in 1..n : q # r /\ pg[q].level = pg[r].level => own[q] \cap own[r] = {}
    BY TreePages
  <1>3. /\ sep \in low /\ high # {}
        /\ pg2[c].level = pg[c].level /\ pg2[n + 1].level = pg[c].level
        /\ NodeFor(pg2[c], low) /\ NodeFor(pg2[n + 1], high)
        /\ ChildrenFor(pg2[c], low, pg, own) /\ ChildrenFor(pg2[n + 1], high, pg, own)
    BY DEF DividesPage, Halves
  <1>4. /\ own2[c] = low /\ own2[n + 1] = high
        /\ \A q \in 1..n : q # c => own2[q] = own[q]
        /\ \A q \in 1..n : q # c /\ q # p => pg2[q] = pg[q]
        /\ p \in 1..n => pg2[p].level = pg[p].level
    BY DEF DividesPage
  <1> HIDE DEF low, high
  <1>5. ASSUME NEW q \in 1..n PROVE pg2[q].level = pg[q].level
    BY <1>3, <1>4
  <1>6. low \subseteq own[c] /\ high \subseteq own[c] /\ low \cap high = {} /\ low # {}
    <2>1. \A x \in own[c] : x \in Nat
      BY <1>1, BTreeAssumption
    <2>2. sep \in Nat
      BY <1>3, <2>1 DEF low
    <2>3. QED
      BY <1>3, <2>1, <2>2 DEF low, high
  <1>7. ASSUME NEW q \in 1..(n + 1) PROVE own2[q] # {} /\ (q # p => NodeFor(pg2[q], own2[q]))
    <2>1. CASE q = n + 1
      BY <1>3, <1>4, <2>1
    <2>2. CASE q = c
      BY <1>3, <1>4, <1>6, <2>2
    <2>3. CASE q \in 1..n /\ q # c
      BY <1>1, <1>4, <2>3
    <2>4. QED
      BY <1>1, <2>1, <2>2, <2>3
  (* Children other than c are what they were. *)
  <1>8. ASSUME NEW node, NEW o, ChildrenFor(node, o, pg, own),
               ~IsLeaf(node) => \A j \in 1..Count(node) : node.entries[j] # c
        PROVE  ChildrenFor(node, o, pg2, own2)
    <2>1. SUFFICES ASSUME ~IsLeaf(node), NEW j \in 1..Count(node)
                   PROVE  /\ node.entries[j] \in DOMAIN own2
                          /\ pg2[node.entries[j]].level = node.level - 1
                          /\ own2[node.entries[j]] = {k \in o : Routes(node, k, j)}
      BY DEF ChildrenFor
    <2>2. /\ node.entries[j] \in 1..n /\ node.entries[j] # c
          /\ pg[node.entries[j]].level = node.level - 1
          /\ own[node.entries[j]] = {k \in o : Routes(node, k, j)}
      BY <1>1, <1>8, <2>1 DEF ChildrenFor
    <2>3. node.entries[j] \in 1..(n + 1)
      BY <1>1, <2>2
    <2>4. QED
      BY <1>4, <1>5, <2>2, <2>3
  (* The children of the halves are on the level below c. *)
  <1>9. ASSUME NEW node, NEW o, ChildrenFor(node, o, pg, own), node.level = pg[c].level
        PROVE  ChildrenFor(node, o, pg2, own2)
    <2>1. ASSUME ~IsLeaf(node), NEW j \in 1..Count(node) PROVE node.entries[j] # c
      <3>1. pg[node.entries[j]].level = node.level - 1
        BY <1>9, <2>1 DEF ChildrenFor
      <3>2. pg[c].level \in Nat
        BY <1>1
      <3>3. QED
        BY <1>9, <3>1, <3>2
    <2>2. QED
      BY <1>8, <1>9, <2>1
  <1>10. ASSUME NEW q \in 1..(n + 1), q # p PROVE ChildrenFor(pg2[q], own2[q], pg2, own2)
    <2>1. CASE q = n + 1
      BY <1>3, <1>4, <1>9, <2>1
    <2>2. CASE q = c
      BY <1>3, <1>4, <1>9, <2>2
    <2>3. CASE q \in 1..n /\ q # c
      <3>1. pg2[q] = pg[q] /\ own2[q] = own[q]
        BY <1>4, <1>10, <2>3
      <3>2. ~IsLeaf(pg[q]) => \A j \in 1..Count(pg[q]) : pg[q].entries[j] # c
        BY <1>10, <2>3 DEF NoOtherParent
      <3>3. ChildrenFor(pg[q], own[q], pg, own)
        BY <1>1, <2>3
      <3>4. QED
        BY <1>8, <3>1, <3>2, <3>3
    <2>4. QED
      BY <1>1, <2>1, <2>2, <2>3
  <1>11. ASSUME NEW q \in 1..(n + 1), NEW r \in 1..(n + 1),
                q # r, pg2[q].level = pg2[r].level
         PROVE  own2[q] \cap own2[r] = {}
    <2>1. CASE q \in 1..n /\ r \in 1..n
      <3>1. own2[q] \subseteq own[q] /\ own2[r] \subseteq own[r]
        BY <1>4, <1>6, <2>1
      <3>2. own[q] \cap own[r] = {}
        BY <1>2, <1>5, <1>11, <2>1
      <3>3. QED
        BY <3>1, <3>2
    <2>2. CASE q \in 1..n /\ r = n + 1
      <3>1. CASE q = c
        BY <1>4, <1>6, <2>2, <3>1
      <3>2. CASE q # c
        <4>1. own[q] \cap own[c] = {}
          BY <1>2, <1>3, <1>5, <1>11, <2>2, <3>2
        <4>2. QED
          BY <1>4, <1>6, <2>2, <3>2, <4>1
      <3>3. QED
        BY <3>1, <3>2
    <2>3. CASE r \in 1..n /\ q = n + 1
      <3>1. CASE r = c
        BY <1>4, <1>6, <2>3, <3>1
      <3>2. CASE r # c
        <4>1. own[r] \cap own[c] = {}
          BY <1>2, <1>3, <1>5, <1>11, <2>3, <3>2
        <4>2. QED
          BY <1>4, <1>6, <2>3, <3>2, <4>1
      <3>3. QED
        BY <3>1, <3>2
    <2>4. QED
      BY <1>1, <1>11, <2>1, <2>2, <2>3
  <1>12. pg2[n + 1].level = pg[c].level
    BY <1>3
  <1>13. QED
    BY <1>5, <1>7, <1>10, <1>11, <1>12 DEF Divided

(* A page is split below a page that has room for the separator.             *)
LEMMA TreeSplitBelow ==
    ASSUME NEW pg, NEW own, NEW top, Tree(pg, own, top), NEW n \in Nat, DOMAIN own = 1..n,
           NEW p \in 1..n, ~IsLeaf(pg[p]), ~Unsafe(pg[p]),
           NEW i \in 1..Count(pg[p]), NEW c, c = pg[p].entries[i],
           NEW sep, NEW pg2, NEW own2 \in Seq(SUBSET Keys), DOMAIN own2 = 1..(n + 1), n + 1 <= Len(pg2),
           DividesPage(pg, own, n, c, p, sep, pg2, own2),
           pg2[p] = InnerInsert(pg[p], sep, n + 1)
    PROVE  Tree(pg2, own2, top) /\ InnerInsertAsserts(pg[p], sep, c)
  <1>1. /\ top \in 1..n /\ own[top] = Keys
        /\ pg[top].level < n
        /\ \A q \in 1..n : /\ own[q] \in SUBSET Keys /\ NodeFor(pg[q], own[q])
                           /\ pg[q].level \in Nat /\ pg[q].level <= pg[top].level
                           /\ ChildrenFor(pg[q], own[q], pg, own)
    BY TreePages, SMTT(30)
  <1>2. /\ c # top /\ c # p /\ c \in 1..n /\ own[c] \subseteq own[p]
        /\ \A q \in 1..n : ~IsLeaf(pg[q]) =>
              \A j \in 1..Count(pg[q]) : pg[q].entries[j] = c => q = p /\ j = i
    <2>1. OnlyChild(pg, own, top, n, c, p, i)
      BY TreeParent
    <2>2. QED
      BY <2>1 DEF OnlyChild
  <1>3. 1..(n + 1) \subseteq DOMAIN own2 /\ Len(own2) = n + 1
    OBVIOUS
  <1>4. p # n + 1 /\ p \in 1..n
    BY <1>1
  <1>5. Divided(pg, n, c, p, pg2, own2)
    <2>1. NoOtherParent(pg, n, c, p)
      BY <1>2 DEF NoOtherParent
    <2>2. QED
      BY <1>2, <1>3, <1>4, <2>1, DividedPages
  <1>6. /\ \A q \in 1..n : pg2[q].level = pg[q].level
        /\ pg2[n + 1].level = pg[c].level
    BY <1>5 DEF Divided
  <1>7. \A q \in 1..(n + 1) : /\ own2[q] # {}
                              /\ q # p => NodeFor(pg2[q], own2[q])
                              /\ q # p => ChildrenFor(pg2[q], own2[q], pg2, own2)
    BY <1>5 DEF Divided
  <1>8. \A q, r \in 1..(n + 1) :
           q # r /\ pg2[q].level = pg2[r].level => own2[q] \cap own2[r] = {}
    BY <1>5 DEF Divided
  <1>9. /\ sep \in own[c] /\ \E y \in own[c] : y > sep
        /\ own2[c] = {x \in own[c] : x <= sep}
        /\ own2[n + 1] = {x \in own[c] : x > sep}
        /\ \A q \in 1..n : q # c => own2[q] = own[q]
    BY DEF DividesPage, Halves
  <1>10. PICK m \in Nat : m = Count(pg[p])
    BY <1>1, <1>4, KeysInOrder
  <1>11. own[c] = {k \in own[p] : Routes(pg[p], k, i)} /\ pg[c].level = pg[p].level - 1
    BY <1>1, <1>4 DEF ChildrenFor
  <1>12. PICK y \in own[p] : Routes(pg[p], y, i) /\ y > sep
    BY <1>9, <1>11
  <1>13. sep \in own[p] /\ Routes(pg[p], sep, i) /\ sep \in Keys /\ n + 1 \in Nat
    BY <1>1, <1>4, <1>9, <1>11
  <1>14. /\ NodeFor(InnerInsert(pg[p], sep, n + 1), own[p])
         /\ InnerInsertAsserts(pg[p], sep, pg[p].entries[i])
    BY <1>1, <1>4, <1>10, <1>12, <1>13, InnerInsertNode
  <1> DEFINE new == InnerInsert(pg[p], sep, n + 1)
  <1>15. Widened(new, pg[p], m, i, sep, n + 1)
    BY <1>1, <1>4, <1>10, <1>13, InnerInsertShape
  <1>16. /\ Count(new) = m + 1 /\ new.level = pg[p].level
         /\ \A j \in 1..(m + 1) :
               new.entries[j] = IF j <= i THEN pg[p].entries[j]
                                ELSE IF j = i + 1 THEN n + 1 ELSE pg[p].entries[j - 1]
    BY <1>15 DEF Widened
  <1>17. ASSUME NEW x \in own[p]
         PROVE  /\ \A j \in 1..(i - 1) : Routes(new, x, j) <=> Routes(pg[p], x, j)
                /\ Routes(new, x, i) <=> Routes(pg[p], x, i) /\ x <= sep
                /\ Routes(new, x, i + 1) <=> Routes(pg[p], x, i) /\ x > sep
                /\ \A j \in (i + 2)..(m + 1) : Routes(new, x, j) <=> Routes(pg[p], x, j - 1)
    <2>1. x \in Nat
      BY <1>1, <1>4, <1>17, BTreeAssumption
    <2>2. own[p] \in SUBSET Keys /\ NodeFor(pg[p], own[p]) /\ i \in 1..m
      BY <1>1, <1>4, <1>10
    <2>3. \A j \in 1..(i - 1) : Routes(new, x, j) <=> Routes(pg[p], x, j)
      BY <1>10, <1>13, <2>1, <2>2, InnerInsertRoutes
    <2>4. Routes(new, x, i) <=> Routes(pg[p], x, i) /\ x <= sep
      BY <1>10, <1>13, <2>1, <2>2, InnerInsertRoutes
    <2>5. Routes(new, x, i + 1) <=> Routes(pg[p], x, i) /\ x > sep
      BY <1>10, <1>13, <2>1, <2>2, InnerInsertRoutes
    <2>6. \A j \in (i + 2)..(m + 1) : Routes(new, x, j) <=> Routes(pg[p], x, j - 1)
      BY <1>10, <1>13, <2>1, <2>2, InnerInsertRoutes
    <2>7. QED
      BY <2>3, <2>4, <2>5, <2>6
  <1> HIDE DEF new
  <1>18. ChildrenFor(new, own[p], pg2, own2)
    <2>1. SUFFICES ASSUME ~IsLeaf(new), NEW j \in 1..(m + 1)
                   PROVE  /\ new.entries[j] \in DOMAIN own2
                          /\ pg2[new.entries[j]].level = new.level - 1
                          /\ own2[new.entries[j]] = {k \in own[p] : Routes(new, k, j)}
      BY <1>16 DEF ChildrenFor
    <2>2. i \in 1..m /\ i \in Nat
      BY <1>10
    <2>3. ASSUME NEW k \in 1..m, k # i, new.entries[j] = pg[p].entries[k],
                 \A x \in own[p] : Routes(new, x, j) <=> Routes(pg[p], x, k)
          PROVE  /\ new.entries[j] \in DOMAIN own2
                 /\ pg2[new.entries[j]].level = new.level - 1
                 /\ own2[new.entries[j]] = {x \in own[p] : Routes(new, x, j)}
      <3>1. /\ pg[p].entries[k] \in 1..n
            /\ pg[pg[p].entries[k]].level = pg[p].level - 1
            /\ own[pg[p].entries[k]] = {x \in own[p] : Routes(pg[p], x, k)}
        BY <1>1, <1>4, <1>10 DEF ChildrenFor
      <3>2. pg[p].entries[k] # c
        BY <1>2, <1>4, <1>10, <2>3
      <3>3. pg[p].entries[k] \in 1..(n + 1)
        BY <1>1, <3>1
      <3>4. QED
        BY <1>3, <1>6, <1>9, <1>16, <2>3, <3>1, <3>2, <3>3
    <2>4. CASE j < i
      <3>1. j \in 1..m /\ j # i /\ j \in 1..(i - 1) /\ j <= i
        BY <2>2, <2>4
      <3>2. new.entries[j] = pg[p].entries[j]
        BY <1>16, <3>1
      <3>3. QED
        BY <1>17, <2>3, <3>1, <3>2
    <2>5. CASE j = i
      <3>1. new.entries[j] = c
        BY <1>16, <2>2, <2>5
      <3>2. c \in 1..(n + 1)
        BY <1>1, <1>2
      <3>3. own2[c] = {x \in own[p] : Routes(new, x, j)}
        BY <1>9, <1>11, <1>17, <2>5
      <3>4. QED
        BY <1>2, <1>3, <1>6, <1>11, <1>16, <3>1, <3>2, <3>3
    <2>6. CASE j = i + 1
      <3>1. new.entries[j] = n + 1
        BY <1>16, <2>2, <2>6
      <3>2. n + 1 \in 1..(n + 1)
        BY <1>1
      <3>3. own2[n + 1] = {x \in own[p] : Routes(new, x, j)}
        BY <1>9, <1>11, <1>17, <2>6
      <3>4. QED
        BY <1>3, <1>6, <1>11, <1>16, <3>1, <3>2, <3>3
    <2>7. CASE j > i + 1
      <3>1. j - 1 \in 1..m /\ j - 1 # i /\ j \in (i + 2)..(m + 1) /\ ~(j <= i) /\ j # i + 1
        BY <2>2, <2>7
      <3>2. new.entries[j] = pg[p].entries[j - 1]
        BY <1>16, <3>1
      <3>3. QED
        BY <1>17, <2>3, <3>1, <3>2
    <2>8. QED
      BY <2>2, <2>4, <2>5, <2>6, <2>7
  <1>19. NodeFor(pg2[p], own2[p]) /\ ChildrenFor(pg2[p], own2[p], pg2, own2)
    BY <1>2, <1>4, <1>9, <1>14, <1>18 DEF new
  <1>20. ASSUME NEW q \in 1..(n + 1)
         PROVE  NodeFor(pg2[q], own2[q]) /\ ChildrenFor(pg2[q], own2[q], pg2, own2)
    BY <1>7, <1>19
  <1>21. top \in 1..(n + 1) /\ own2[top] = Keys /\ pg2[top].level < n + 1
    <2>1. pg[top].level \in Nat
      BY <1>1
    <2>2. QED
      BY <1>1, <1>2, <1>6, <1>9, <2>1
  <1>22. \A q \in 1..(n + 1) : pg2[q].level <= pg2[top].level
    <2>1. \A q \in 1..n : pg2[q].level <= pg2[top].level
      BY <1>1, <1>6
    <2>2. pg2[n + 1].level <= pg2[top].level
      BY <1>1, <1>2, <1>6
    <2>3. QED
      BY <1>1, <2>1, <2>2
  <1>23. Tree(pg2, own2, top)
    BY <1>3, <1>7, <1>8, <1>20, <1>21, <1>22 DEF Tree
  <1>24. QED
    BY <1>14, <1>23

(* The root of a split tree.                                                 *)
RootAbove(new, l, sep, left, right) ==
    /\ NodeFor(new, Keys) /\ new.level = l /\ ~IsLeaf(new) /\ Count(new) = 2
    /\ new.entries[1] = left /\ new.entries[2] = right
    /\ \A x \in Nat : /\ Routes(new, x, 1) <=> x <= sep
                      /\ Routes(new, x, 2) <=> x > sep

(* InnerNode::init_insert makes a root that routes the keys up to the        *)
(* separator to the left half and the others to the right half.              *)
LEMMA NewRoot ==
    ASSUME NEW l \in Nat, NEW sep \in Keys, NEW left \in Nat, NEW right \in Nat, NEW new,
           new = InitInsert(NewNode(l), sep, left, right), l > 0
    PROVE  RootAbove(new, l, sep, left, right)
  <1>1. new = [level |-> l, keys |-> <<sep, sep>>, entries |-> <<left, right>>]
    BY DEF InitInsert, NewNode
  <1>2. /\ new.level = l /\ ~IsLeaf(new) /\ Count(new) = 2 /\ Valid(new) = 1
        /\ new.keys[1] = sep /\ new.keys[2] = sep
        /\ Len(new.entries) = 2 /\ new.entries[1] = left /\ new.entries[2] = right
    BY <1>1 DEF IsLeaf, Count, Valid
  <1>3. sep \in Nat
    BY BTreeAssumption
  <1>4. new \in Nodes
    <2>1. <<sep, sep>> \in Seq(Keys)
      OBVIOUS
    <2>2. <<left, right>> \in Seq(Values \cup Nat)
      <3>1. left \in Values \cup Nat /\ right \in Values \cup Nat
        OBVIOUS
      <3>2. QED
        BY <3>1
    <2>3. QED
      BY <1>1, <2>1, <2>2 DEF Nodes
  <1>5. InnerCapacity \in Nat /\ InnerCapacity >= 5
    BY CapacityAssumption
  <1>6. Increasing(new.keys, Valid(new))
    BY <1>2 DEF Increasing
  <1>7. NodeFor(new, Keys)
    <2>1. 2 \in 2..(InnerCapacity - 1)
      BY <1>5
    <2>2. new.keys[2] <= new.keys[1]
      BY <1>2, <1>3
    <2>3. \A i \in 1..1 : new.keys[i] \in Keys
      BY <1>2
    <2>4. 2 - 1 = 1
      OBVIOUS
    <2>5. QED
      BY <1>2, <1>4, <1>6, <2>1, <2>2, <2>3, <2>4 DEF NodeFor
  <1>8. ASSUME NEW x \in Nat
        PROVE  /\ Routes(new, x, 1) <=> x <= sep
               /\ Routes(new, x, 2) <=> x > sep
    BY <1>2, <1>3 DEF Routes
  <1>9. QED
    BY <1>2, <1>7, <1>8 DEF RootAbove

(* The root is split, and a new one put above it.                            *)
LEMMA TreeSplitTop ==
    ASSUME NEW pg, NEW own, NEW top, Tree(pg, own, top), NEW n \in Nat, DOMAIN own = 1..n,
           NEW sep, NEW pg2, NEW own2 \in Seq(SUBSET Keys), DOMAIN own2 = 1..(n + 2),
           n + 2 <= Len(pg2),
           DividesPage(pg, own, n, top, n + 2, sep, pg2, own2),
           own2[n + 2] = Keys,
           pg2[n + 2] = InitInsert(NewNode(pg[top].level + 1), sep, top, n + 1)
    PROVE  Tree(pg2, own2, n + 2)
  <1>1. /\ top \in 1..n /\ own[top] = Keys /\ pg[top].level < n
        /\ \A q \in 1..n : /\ NodeFor(pg[q], own[q]) /\ pg[q].level \in Nat
                           /\ pg[q].level <= pg[top].level
    BY TreePages
  <1>2. NoOtherParent(pg, n, top, n + 2)
    <2>1. ASSUME NEW q \in 1..n, ~IsLeaf(pg[q]), NEW j \in 1..Count(pg[q]),
                 pg[q].entries[j] = top
          PROVE  FALSE
      <3>1. OnlyChild(pg, own, top, n, top, q, j)
        BY <2>1, TreeParent
      <3>2. QED
        BY <3>1 DEF OnlyChild
    <2>2. QED
      BY <2>1 DEF NoOtherParent
  <1>3. Divided(pg, n, top, n + 2, pg2, own2)
    <2>1. 1..(n + 1) \subseteq DOMAIN own2 /\ top # n + 2 /\ n + 2 # n + 1
      BY <1>1
    <2>2. QED
      BY <1>1, <1>2, <2>1, DividedPages
  <1>4. /\ \A q \in 1..n : pg2[q].level = pg[q].level
        /\ pg2[n + 1].level = pg[top].level
    BY <1>3 DEF Divided
  <1>5. \A q \in 1..(n + 1) : /\ own2[q] # {}
                              /\ q # n + 2 => NodeFor(pg2[q], own2[q])
                              /\ q # n + 2 => ChildrenFor(pg2[q], own2[q], pg2, own2)
    BY <1>3 DEF Divided
  <1>6. \A q, r \in 1..(n + 1) :
           q # r /\ pg2[q].level = pg2[r].level => own2[q] \cap own2[r] = {}
    BY <1>3 DEF Divided
  <1>7. /\ sep \in Keys
        /\ own2[top] = {x \in Keys : x <= sep}
        /\ own2[n + 1] = {x \in Keys : x > sep}
    BY <1>1 DEF DividesPage, Halves
  <1> DEFINE l == pg[top].level
             new == pg2[n + 2]
  <1>8. l \in Nat /\ l + 1 > 0 /\ l + 1 \in Nat /\ n + 1 \in Nat /\ top \in Nat
    BY <1>1
  <1>9. new = InitInsert(NewNode(l + 1), sep, top, n + 1)
    OBVIOUS
  <1>10. /\ NodeFor(new, Keys) /\ new.level = l + 1 /\ ~IsLeaf(new) /\ Count(new) = 2
         /\ new.entries[1] = top /\ new.entries[2] = n + 1
    <2>1. RootAbove(new, l + 1, sep, top, n + 1)
      BY <1>7, <1>8, <1>9, NewRoot
    <2>2. QED
      BY <2>1 DEF RootAbove
  <1>11. \A x \in Nat : /\ Routes(new, x, 1) <=> x <= sep
                        /\ Routes(new, x, 2) <=> x > sep
    <2>1. RootAbove(new, l + 1, sep, top, n + 1)
      BY <1>7, <1>8, <1>9, NewRoot
    <2>2. QED
      BY <2>1 DEF RootAbove
  <1>12. ChildrenFor(new, Keys, pg2, own2)
    <2>1. SUFFICES ASSUME NEW j \in 1..2
                   PROVE  /\ new.entries[j] \in DOMAIN own2
                          /\ pg2[new.entries[j]].level = new.level - 1
                          /\ own2[new.entries[j]] = {k \in Keys : Routes(new, k, j)}
      BY <1>10 DEF ChildrenFor
    <2>2. \A k \in Keys : k \in Nat
      BY BTreeAssumption
    <2>3. top \in DOMAIN own2 /\ n + 1 \in DOMAIN own2
      BY <1>1
    <2>4. pg2[top].level = l /\ pg2[n + 1].level = l /\ new.level - 1 = l
      BY <1>1, <1>4, <1>8, <1>10
    <2>5. own2[top] = {k \in Keys : Routes(new, k, 1)}
      BY <1>7, <1>11, <2>2
    <2>6. own2[n + 1] = {k \in Keys : Routes(new, k, 2)}
      BY <1>7, <1>11, <2>2
    <2>7. j = 1 \/ j = 2
      OBVIOUS
    <2>8. QED
      BY <1>10, <2>3, <2>4, <2>5, <2>6, <2>7
  <1> HIDE DEF l, new
  <1>13. \A q \in 1..(n + 1) : pg2[q].level <= l
    <2>1. \A q \in 1..n : pg2[q].level <= l
      BY <1>1, <1>4 DEF l
    <2>2. pg2[n + 1].level <= l
      BY <1>4, <1>8 DEF l
    <2>3. QED
      BY <2>1, <2>2
  <1>14. \A q \in 1..(n + 1) : pg2[q].level \in Nat
    BY <1>1, <1>4
  <1>15. ASSUME NEW q \in 1..(n + 2)
         PROVE  /\ own2[q] # {} /\ NodeFor(pg2[q], own2[q])
                /\ ChildrenFor(pg2[q], own2[q], pg2, own2)
    <2>1. CASE q = n + 2
      <3>1. own2[q] = Keys /\ pg2[q] = new /\ Keys # {}
        BY <1>7, <2>1 DEF new
      <3>2. QED
        BY <1>10, <1>12, <3>1
    <2>2. CASE q # n + 2
      BY <1>5, <2>2
    <2>3. QED
      BY <2>1, <2>2
  <1>16. ASSUME NEW q \in 1..(n + 2), NEW r \in 1..(n + 2), q # r, pg2[q].level = pg2[r].level
         PROVE  own2[q] \cap own2[r] = {}
    <2>1. pg2[n + 2].level = l + 1
      BY <1>10 DEF new
    <2>2. CASE q = n + 2
      <3>1. r \in 1..(n + 1)
        BY <1>16, <2>2
      <3>2. pg2[r].level <= l /\ pg2[r].level = l + 1
        BY <1>13, <1>16, <2>1, <2>2, <3>1
      <3>3. QED
        BY <1>8, <3>2
    <2>3. CASE r = n + 2
      <3>1. q \in 1..(n + 1)
        BY <1>16, <2>3
      <3>2. pg2[q].level <= l /\ pg2[q].level = l + 1
        BY <1>13, <1>16, <2>1, <2>3, <3>1
      <3>3. QED
        BY <1>8, <3>2
    <2>4. CASE q # n + 2 /\ r # n + 2
      <3>1. q \in 1..(n + 1) /\ r \in 1..(n + 1)
        BY <2>4
      <3>2. QED
        BY <1>6, <1>16, <3>1
    <2>5. QED
      BY <2>2, <2>3, <2>4
  <1>17. \A q \in 1..(n + 2) : pg2[q].level <= pg2[n + 2].level
    <2>1. pg2[n + 2].level = l + 1
      BY <1>10 DEF new
    <2>2. ASSUME NEW q \in 1..(n + 2) PROVE pg2[q].level <= l + 1
      <3>1. CASE q = n + 2
        BY <1>8, <2>1, <3>1
      <3>2. CASE q # n + 2
        <4>1. pg2[q].level <= l /\ pg2[q].level \in Nat
          BY <1>13, <1>14, <3>2
        <4>2. QED
          BY <1>8, <4>1
      <3>3. QED
        BY <3>1, <3>2
    <2>3. QED
      BY <2>1, <2>2
  <1>18. n + 2 \in 1..(n + 2) /\ own2[n + 2] = Keys /\ pg2[n + 2].level < n + 2 /\ Len(own2) = n + 2
    BY <1>1, <1>8, <1>10 DEF l, new
  <1>19. QED
    BY <1>15, <1>16, <1>17, <1>18 DEF Tree

(* A tree of one leaf.                                                       *)
LEMMA TreeStart ==
    ASSUME NEW pg, Len(pg) = 1, NodeFor(pg[1], Keys), IsLeaf(pg[1]), Keys # {}
    PROVE  Tree(pg, <<Keys>>, 1)
  <1>1. pg[1].level = 0
    BY DEF IsLeaf
  <1>2. DOMAIN <<Keys>> = {1} /\ Len(<<Keys>>) = 1 /\ <<Keys>>[1] = Keys
    OBVIOUS
  <1>3. <<Keys>> \in Seq(SUBSET Keys)
    OBVIOUS
  <1>4. ChildrenFor(pg[1], Keys, pg, <<Keys>>)
    BY DEF ChildrenFor
  <1>5. QED
    BY <1>1, <1>2, <1>3, <1>4 DEF Tree

(* Who owns what once a page is split, with a new root above or without.     *)
Divide(own, n, c, sep, above) ==
    [q \in 1..(n + above + 1) |-> IF q = c THEN {x \in own[c] : x <= sep}
                                 ELSE IF q = n + 1 THEN {x \in own[c] : x > sep}
                                 ELSE IF q = n + 2 THEN Keys
                                 ELSE own[q]]

(* own2 divides what own[c] owns between c and the page behind the n pages.  *)
Owns(own2, own, n, c, sep, above) ==
    /\ own2 \in Seq(SUBSET Keys) /\ DOMAIN own2 = 1..(n + above + 1)
    /\ Len(own2) = n + above + 1
    /\ own2[c] = {x \in own[c] : x <= sep}
    /\ own2[n + 1] = {x \in own[c] : x > sep}
    /\ \A q \in 1..n : q # c => own2[q] = own[q]
    /\ above = 1 => own2[n + 2] = Keys

(* Divide gives the two halves of a page its keys and leaves every other     *)
(* page what it owns.                                                        *)
LEMMA DivideOwn ==
    ASSUME NEW own \in Seq(SUBSET Keys), NEW n \in Nat, DOMAIN own = 1..n, NEW c \in 1..n, NEW sep,
           NEW above \in {0, 1}
    PROVE  Owns(Divide(own, n, c, sep, above), own, n, c, sep, above)
  <1> DEFINE own2 == Divide(own, n, c, sep, above)
  <1>1. \A q \in 1..n : own[q] \in SUBSET Keys
    OBVIOUS
  <1>2. ASSUME NEW q \in 1..(n + above + 1)
        PROVE  (IF q = c THEN {x \in own[c] : x <= sep}
                ELSE IF q = n + 1 THEN {x \in own[c] : x > sep}
                ELSE IF q = n + 2 THEN Keys
                ELSE own[q]) \in SUBSET Keys
    <2>1. q \in 1..n \/ q = n + 1 \/ q = n + 2
      OBVIOUS
    <2>2. own[c] \in SUBSET Keys
      BY <1>1
    <2>3. QED
      BY <1>1, <2>1, <2>2
  <1>3. n + above + 1 \in Nat
    OBVIOUS
  <1>4. own2 \in [1..(n + above + 1) -> SUBSET Keys]
    BY <1>2 DEF Divide
  <1>5. own2 \in Seq(SUBSET Keys) /\ DOMAIN own2 = 1..(n + above + 1) /\ Len(own2) = n + above + 1
    BY <1>3, <1>4
  <1>6. c \in 1..(n + above + 1) /\ n + 1 \in 1..(n + above + 1) /\ c # n + 1
        /\ (above = 1 => n + 2 \in 1..(n + above + 1))
    OBVIOUS
  <1>7. /\ own2[c] = {x \in own[c] : x <= sep}
        /\ own2[n + 1] = {x \in own[c] : x > sep}
        /\ above = 1 => own2[n + 2] = Keys
    BY <1>6 DEF Divide
  <1>8. ASSUME NEW q \in 1..n, q # c PROVE own2[q] = own[q]
    <2>1. q \in 1..(n + above + 1) /\ q # n + 1 /\ q # n + 2
      OBVIOUS
    <2>2. QED
      BY <1>8, <2>1 DEF Divide
  <1>9. QED
    BY <1>5, <1>7, <1>8 DEF Owns

------------------------------------------------------------------------------
(* The walk for key stands on q after d steps.                               *)
OnPath(own, n, top, key, q, d) ==
    /\ q \in 1..n /\ key \in own[q]
    /\ pages[q].level = IF d <= pages[top].level THEN pages[top].level - d ELSE 0

(* One step down the tree keeps the key on its path: the child that the      *)
(* search takes owns it, one level lower.                                    *)
LEMMA PathStep ==
    ASSUME NEW own, NEW top, Tree(pages, own, top), NEW n \in Nat, DOMAIN own = 1..n,
           NEW key, NEW q, NEW d \in Nat, OnPath(own, n, top, key, q, d)
    PROVE  OnPath(own, n, top, key, IF IsLeaf(pages[q]) THEN q ELSE ChildFor(pages[q], key), d + 1)
  <1>1. /\ q \in 1..n /\ key \in own[q]
        /\ pages[q].level = IF d <= pages[top].level THEN pages[top].level - d ELSE 0
    BY DEF OnPath
  <1>2. top \in 1..n /\ \A r \in 1..n : pages[r].level \in Nat
    BY TreePages
  <1>3. PICK l \in Nat : l = pages[top].level
    BY <1>2
  <1>4. CASE IsLeaf(pages[q])
    <2>1. pages[q].level = 0
      BY <1>4 DEF IsLeaf
    <2>2. pages[q].level = IF d + 1 <= l THEN l - (d + 1) ELSE 0
      BY <1>1, <1>3, <2>1
    <2>3. QED
      BY <1>1, <1>3, <1>4, <2>2 DEF OnPath
  <1>5. CASE ~IsLeaf(pages[q])
    <2>1. pages[q].level # 0
      BY <1>5 DEF IsLeaf
    <2>2. d + 1 <= l /\ pages[q].level - 1 = l - (d + 1)
      BY <1>1, <1>3, <2>1
    <2>3. /\ ChildFor(pages[q], key) \in 1..n /\ key \in own[ChildFor(pages[q], key)]
          /\ pages[ChildFor(pages[q], key)].level = pages[q].level - 1
      BY <1>1, <1>5, TreeChild
    <2>4. QED
      BY <1>3, <1>5, <2>2, <2>3 DEF OnPath
  <1>6. QED
    BY <1>4, <1>5

(* Two pages for a key on the same level are one.                            *)
LEMMA PathUnique ==
    ASSUME NEW own, NEW top, Tree(pages, own, top), NEW n \in Nat, DOMAIN own = 1..n,
           NEW key, NEW q, NEW r, NEW d, OnPath(own, n, top, key, q, d),
           OnPath(own, n, top, key, r, d)
    PROVE  q = r
  <1>1. /\ q \in 1..n /\ r \in 1..n /\ key \in own[q] /\ key \in own[r]
        /\ pages[q].level = pages[r].level
    BY DEF OnPath
  <1>2. q # r /\ pages[q].level = pages[r].level => own[q] \cap own[r] = {}
    BY <1>1, TreePages
  <1>3. QED
    BY <1>1, <1>2

(* The walk for a key ends at the leaf that the key belongs to.              *)
LEMMA WalkEnds ==
    ASSUME NEW own, Tree(pages, own, root), NEW n \in Nat, DOMAIN own = 1..n,
           Len(pages) \in Nat,
           NEW p \in 1..n, IsLeaf(pages[p]), NEW key \in own[p]
    PROVE  LeafFor(key) = p
  <1> DEFINE N == Len(pages)
             At(q, d) == OnPath(own, n, root, key, q, d)
             From(q) == IF IsLeaf(pages[q]) THEN q ELSE ChildFor(pages[q], key)
             Turn(L, d) == IF d = 0 THEN root ELSE From(L[d - 1])
             IsWalk(L) == L = [d \in 0..N |-> Turn(L, d)]
             Walk == CHOOSE L : IsWalk(L)
             G == [d \in 0..N |-> CHOOSE q : At(q, d)]
  <1>1. LeafFor(key) = Walk[N]
    BY DEF LeafFor
  <1>2. /\ n <= N /\ N \in Nat /\ root \in 1..n /\ own[root] = Keys
        /\ pages[root].level \in Nat /\ pages[root].level < n
        /\ \A q \in 1..n : own[q] \in SUBSET Keys
    BY TreePages
  <1>3. key \in Keys
    BY <1>2
  <1>4. At(root, 0)
    BY <1>2, <1>3 DEF OnPath
  <1>5. ASSUME NEW q, NEW d \in Nat, At(q, d) PROVE At(From(q), d + 1)
    BY <1>5, PathStep
  <1>6. ASSUME NEW q, NEW r, NEW d, At(q, d), At(r, d) PROVE q = r
    BY <1>6, PathUnique
  <1> HIDE DEF At, From, Walk, IsWalk, N
  <1>7. ASSUME NEW d \in 0..N PROVE \E q : At(q, d)
    <2> DEFINE Bad == {e \in 0..N : ~\E q : At(q, e)}
    <2>1. SUFFICES ASSUME Bad # {} PROVE FALSE
      OBVIOUS
    <2>2. Bad \in SUBSET Nat
      BY <1>2
    <2>3. PICK e \in Bad : \A x \in Bad : e <= x
      BY <2>1, <2>2, NatMinimum
    <2>4. e # 0 /\ e \in 0..N /\ ~\E q : At(q, e)
      BY <1>4, <2>3
    <2>5. e - 1 \in 0..N /\ ~(e <= e - 1) /\ e - 1 \in Nat /\ e - 1 + 1 = e
      BY <1>2, <2>4
    <2>6. PICK q : At(q, e - 1)
      BY <2>3, <2>5
    <2>7. At(From(q), e)
      BY <1>5, <2>5, <2>6
    <2>8. QED
      BY <2>4, <2>7
  <1>8. ASSUME NEW d \in 0..N PROVE At(G[d], d)
    BY <1>7, <1>8
  <1> HIDE DEF G
  <1>9. ASSUME NEW d \in 0..N PROVE G[d] = Turn(G, d)
    <2>1. CASE d = 0
      <3>1. At(G[0], 0)
        BY <1>8, <2>1
      <3>2. G[0] = root
        BY <1>4, <1>6, <3>1
      <3>3. QED
        BY <2>1, <3>2
    <2>2. CASE d # 0
      <3>1. d - 1 \in 0..N /\ d - 1 \in Nat /\ d - 1 + 1 = d
        BY <1>2, <2>2
      <3>2. At(From(G[d - 1]), d)
        BY <1>5, <1>8, <3>1
      <3>3. At(G[d], d)
        BY <1>8
      <3>4. QED
        BY <1>6, <2>2, <3>2, <3>3
    <2>3. QED
      BY <2>1, <2>2
  <1> HIDE DEF Turn
  <1>10. IsWalk(Walk)
    <2>1. G = [d \in 0..N |-> G[d]]
      BY DEF G
    <2>2. G = [d \in 0..N |-> Turn(G, d)]
      BY <1>9, <2>1, Zenon
    <2>3. \E L : IsWalk(L)
      BY <2>2 DEF IsWalk
    <2>4. QED
      BY <2>3 DEF Walk
  <1>11. ASSUME NEW d \in 0..N PROVE Walk[d] = Turn(Walk, d)
    BY <1>10 DEF IsWalk
  <1>12. ASSUME NEW d \in 0..N PROVE At(Walk[d], d)
    <2> DEFINE Bad == {e \in 0..N : ~At(Walk[e], e)}
    <2>1. SUFFICES ASSUME Bad # {} PROVE FALSE
      OBVIOUS
    <2>2. Bad \in SUBSET Nat
      BY <1>2
    <2>3. PICK e \in Bad : \A x \in Bad : e <= x
      BY <2>1, <2>2, NatMinimum
    <2>4. e \in 0..N /\ ~At(Walk[e], e) /\ Walk[e] = Turn(Walk, e)
      BY <1>11, <2>3
    <2>5. e # 0
      <3>1. Turn(Walk, 0) = root
        BY DEF Turn
      <3>2. QED
        BY <1>4, <2>4, <3>1
    <2>6. e - 1 \in 0..N /\ ~(e <= e - 1) /\ e - 1 \in Nat /\ e - 1 + 1 = e
      BY <1>2, <2>4, <2>5
    <2>7. At(Walk[e - 1], e - 1)
      BY <2>3, <2>6
    <2>8. At(From(Walk[e - 1]), e)
      BY <1>5, <2>6, <2>7
    <2>9. Turn(Walk, e) = From(Walk[e - 1])
      BY <2>5 DEF Turn
    <2>10. QED
      BY <2>4, <2>8, <2>9
  <1>13. At(Walk[N], N)
    BY <1>2, <1>12
  <1>14. At(p, N)
    <2>1. ~(N <= pages[root].level) /\ pages[p].level = 0
      BY <1>2 DEF IsLeaf
    <2>2. QED
      BY <2>1 DEF At, OnPath
  <1>15. QED
    BY <1>1, <1>6, <1>13, <1>14

------------------------------------------------------------------------------
(* What the steps of one thread need of the state.                           *)
OneInv(own, t, th) ==
    /\ TypeOK /\ failed = FALSE
    /\ own \in Seq(SUBSET Keys)
    /\ th = thread[t] /\ th \in Standing /\ Stands(th, own)
    /\ root = Nothing => pages = <<>> /\ own = <<>>
    /\ root # Nothing => Tree(pages, own, root)
    /\ root # Nothing => Len(own) = IF th.pc = "split" THEN Len(pages) - 1 ELSE Len(pages)

(* The invariant, for the one thread: where it stands, and a tree whose      *)
(* pages own their keys.                                                     *)
LEMMA InvOfOne ==
    ASSUME OneThread, IInv, NEW t \in Threads
    PROVE  \E own, th : OneInv(own, t, th)
  <1>1. PICK own \in Seq(SUBSET Keys) : OwnInv(own)
    BY DEF IInv
  <1>2. thread[t] \in Standing /\ Stands(thread[t], own)
    BY <1>1 DEF IInv, TypeOK, OwnInv
  <1>3. Settled <=> thread[t].pc # "split"
    BY DEF Settled, OneThread
  <1>4. OneInv(own, t, thread[t])
    BY <1>1, <1>2, <1>3 DEF IInv, OwnInv, InTree, OneInv
  <1>5. QED
    BY <1>4

(* The invariant holds after a step of the one thread if the tree is one     *)
(* again and the thread stands where it now is.                              *)
LEMMA OneOfInv ==
    ASSUME OneThread, TypeOK, NEW t \in Threads, NEW own \in Seq(SUBSET Keys), NEW th \in Standing,
           pages' \in Seq(Nodes), root' \in Nat \cup {Nothing}, failed' = FALSE,
           thread' = [thread EXCEPT ![t] = th], Stands(th, own)',
           root' = Nothing => pages' = <<>> /\ own = <<>>,
           root' # Nothing => Tree(pages', own, root'),
           root' # Nothing => Len(own) = IF th.pc = "split" THEN Len(pages') - 1 ELSE Len(pages')
    PROVE  IInv'
  <1>1. thread' \in [Threads -> Standing] /\ thread'[t] = th /\ \A u \in Threads : u = t
    BY DEF TypeOK, OneThread
  <1>2. TypeOK'
    BY <1>1 DEF TypeOK
  <1>3. Settled' <=> th.pc # "split"
    BY <1>1 DEF Settled
  <1>4. \A u \in Threads : Stands(thread[u], own)'
    <2>1. \A u \in Threads : thread'[u] = th
      BY <1>1
    <2>2. QED
      BY <2>1
  <1>5. OwnInv(own)'
    BY <1>3, <1>4 DEF OwnInv, InTree
  <1>6. QED
    BY <1>2, <1>5 DEF IInv

(* A step that changes no page. *)
LEMMA Quiet ==
    ASSUME OneThread, NEW t \in Threads, NEW own, NEW th, OneInv(own, t, th), NEW th2 \in Standing,
           thread' = [thread EXCEPT ![t] = th2], pages' = pages, root' = root, failed' = FALSE,
           th.pc = "split" <=> th2.pc = "split", Stands(th2, own)
    PROVE  IInv'
  <1>1. Stands(th2, own)'
    BY DEF Stands, Below, Safe, AtLeaf, HasSplit
  <1>2. pages \in Seq(Nodes) /\ root \in Nat \cup {Nothing} /\ TypeOK
    BY DEF OneInv, TypeOK
  <1>3. QED
    BY <1>1, <1>2, OneOfInv DEF OneInv

(* th goes on as th2. *)
Gone(th, th2, pc, p, c) ==
    /\ th2 = [th EXCEPT !.pc = pc, !.parent = p, !.child = c]
    /\ th2.pc = pc /\ th2.parent = p /\ th2.child = c
    /\ th2.op = th.op /\ th2.key = th.key /\ th2.value = th.value

(* A thread that goes on to pc, with parent p and child c, is still a        *)
(* thread, and its call is the same.                                         *)
LEMMA Going ==
    ASSUME NEW th \in Standing,
           NEW pc \in {"inner root", "child", "inner", "arrived", "leaf", "refix"},
           NEW p \in Nat \cup {Nothing}, NEW c \in Nat \cup {Nothing}
    PROVE  \E th2 \in Standing : Gone(th, th2, pc, p, c)
  <1> DEFINE th2 == [th EXCEPT !.pc = pc, !.parent = p, !.child = c]
  <1>1. th2 \in Standing
    BY DEF Standing
  <1>2. Gone(th, th2, pc, p, c)
    BY DEF Standing, Gone
  <1>3. QED
    BY <1>1, <1>2

(* A thread outside the tree may stand there in every state.                 *)
LEMMA IdleStands == Idle \in Standing /\ \A own : Stands(Idle, own)
  <1>1. Idle \in Standing
    BY DEF Idle, Standing
  <1>2. Idle.pc = "idle"
    BY DEF Idle
  <1>3. QED
    BY <1>1, <1>2 DEF Stands

(* The child below a node that a thread has come to is a page for its key.   *)
LEMMA ChildBelow ==
    ASSUME NEW own \in Seq(SUBSET Keys), Tree(pages, own, root), NEW th, Below(th, own)
    PROVE  /\ th.parent \in DOMAIN own /\ th.parent \in Nat
           /\ th.child \in DOMAIN own /\ th.child \in Nat /\ th.key \in own[th.child]
           /\ pages[th.child].level = pages[th.parent].level - 1
           /\ th.child # th.parent
  <1>1. PICK n \in Nat : DOMAIN own = 1..n
    OBVIOUS
  <1>2. PICK p, c : p = th.parent /\ c = th.child
    OBVIOUS
  <1>3. /\ p \in 1..n /\ ~IsLeaf(pages[p]) /\ th.key \in own[p] /\ c = ChildFor(pages[p], th.key)
    BY <1>1, <1>2 DEF Below
  <1>4. c \in 1..n /\ th.key \in own[c] /\ pages[c].level = pages[p].level - 1
    BY <1>1, <1>3, TreeChild
  <1>5. pages[p].level \in Nat
    BY <1>1, <1>3, TreePages
  <1>6. c # p
    BY <1>4, <1>5
  <1>7. QED
    BY <1>1, <1>2, <1>3, <1>4, <1>6

------------------------------------------------------------------------------
(* The steps that change no page.                                            *)
LEMMA CallStep ==
    ASSUME OneThread, IInv, NEW t \in Threads, NEW key \in Keys, NEW op, NEW value,
           \/ op \in {"lookup", "erase"} /\ value = Nothing
           \/ op = "insert" /\ value \in Values,
           Call(t, op, key, value)
    PROVE  IInv'
  <1>1. PICK own, th : OneInv(own, t, th)
    BY InvOfOne
  <1>2. /\ TypeOK /\ failed = FALSE /\ th = thread[t] /\ root \in Nat \cup {Nothing}
        /\ pages' = pages /\ root' = root /\ failed' = failed /\ th.pc = "idle"
    BY <1>1 DEF OneInv, TypeOK, Call
  <1>3. CASE root # Nothing \/ op = "insert"
    <2> DEFINE pc == IF root = Nothing THEN "empty" ELSE "root"
               th2 == [Idle EXCEPT !.op = op, !.key = key, !.value = value, !.parent = root,
                                   !.pc = pc]
    <2>1. thread' = [thread EXCEPT ![t] = th2]
      BY <1>3 DEF Call
    <2>2. key \in Nat
      BY BTreeAssumption
    <2>3. th2 \in Standing
      BY <1>2, <2>2 DEF Idle, Standing
    <2>4. th2.pc = pc /\ th2.op = op /\ th2.key = key /\ th2.value = value /\ th2.parent = root
      BY DEF Idle
    <2> HIDE DEF th2
    <2>5. Stands(th2, own)
      BY <1>3, <2>4 DEF Stands
    <2>6. th2.pc # "split"
      BY <2>4
    <2>7. QED
      BY <1>1, <1>2, <2>1, <2>3, <2>5, <2>6, Quiet
  <1>4. CASE ~(root # Nothing \/ op = "insert")
    <2>1. thread' = [thread EXCEPT ![t] = Idle]
      BY <1>4 DEF Call
    <2>2. Idle.pc # "split"
      BY DEF Idle
    <2>3. QED
      BY <1>1, <1>2, <2>1, <2>2, IdleStands, Quiet
  <1>5. QED
    BY <1>3, <1>4

(* Fixing the root page preserves the invariant.                             *)
LEMMA FixRootStep ==
    ASSUME OneThread, IInv, NEW t \in Threads, FixRoot(t)
    PROVE  IInv'
  <1>1. PICK own, th : OneInv(own, t, th)
    BY InvOfOne
  <1>2. /\ TypeOK /\ failed = FALSE /\ th = thread[t] /\ th \in Standing /\ Stands(th, own)
        /\ pages' = pages /\ root' = root /\ failed' = failed /\ th.pc = "root"
    BY <1>1 DEF OneInv, FixRoot
  <1>3. /\ root # Nothing /\ th.parent = root /\ th.key \in Keys
        /\ th.op # "none"
        /\ (th.op = "insert" => th.value \in Values)
        /\ (th.op = "erase" => th.value = Nothing)
    BY <1>2 DEF Stands
  <1>4. Tree(pages, own, root) /\ root \in Nat
    BY <1>1, <1>3 DEF OneInv, TypeOK
  <1>5. root \in DOMAIN own /\ own[root] = Keys
    BY <1>4 DEF Tree
  <1>6. CASE IsLeaf(pages[root]) /\ th.op # "erase"
    <2>1. Goes(t, "leaf", root, root)
      BY <1>2, <1>3, <1>6 DEF FixRoot
    <2>2. PICK th2 \in Standing :
             /\ thread' = [thread EXCEPT ![t] = th2]
             /\ th2.pc = "leaf" /\ th2.parent = root /\ th2.child = root
             /\ th2.op = th.op /\ th2.key = th.key /\ th2.value = th.value
      <3>1. PICK th2 \in Standing : Gone(th, th2, "leaf", root, root)
        BY <1>2, <1>4, <2>1, Going
      <3>2. QED
        BY <1>2, <1>4, <2>1, <3>1 DEF Gone, Goes, TypeOK
    <2>3. AtLeaf(th2, own)
      BY <1>3, <1>5, <1>6, <2>2 DEF AtLeaf
    <2>4. Stands(th2, own)
      BY <1>3, <2>2, <2>3 DEF Stands
    <2>5. QED
      BY <1>1, <1>2, <2>2, <2>4, Quiet
  <1>7. CASE IsLeaf(pages[root]) /\ th.op = "erase"
    <2>1. Goes(t, "refix", root, root)
      BY <1>2, <1>3, <1>7 DEF FixRoot
    <2>2. PICK th2 \in Standing :
             /\ thread' = [thread EXCEPT ![t] = th2]
             /\ th2.pc = "refix" /\ th2.parent = root /\ th2.child = root
             /\ th2.op = th.op /\ th2.key = th.key /\ th2.value = th.value
      <3>1. PICK th2 \in Standing : Gone(th, th2, "refix", root, root)
        BY <1>2, <1>4, <2>1, Going
      <3>2. QED
        BY <1>2, <1>4, <2>1, <3>1 DEF Gone, Goes, TypeOK
    <2>3. Stands(th2, own)
      BY <1>3, <1>7, <2>2 DEF Stands
    <2>4. QED
      BY <1>1, <1>2, <2>2, <2>3, Quiet
  <1>8. CASE ~IsLeaf(pages[root])
    <2>1. Goes(t, "inner root", root, Nothing)
      BY <1>2, <1>3, <1>8 DEF FixRoot
    <2>2. PICK th2 \in Standing :
             /\ thread' = [thread EXCEPT ![t] = th2]
             /\ th2.pc = "inner root" /\ th2.parent = root /\ th2.child = Nothing
             /\ th2.op = th.op /\ th2.key = th.key /\ th2.value = th.value
      <3>1. PICK th2 \in Standing : Gone(th, th2, "inner root", root, Nothing)
        BY <1>2, <1>4, <2>1, Going
      <3>2. QED
        BY <1>2, <1>4, <2>1, <3>1 DEF Gone, Goes, TypeOK
    <2>3. Stands(th2, own)
      BY <1>3, <1>5, <1>8, <2>2 DEF Stands
    <2>4. QED
      BY <1>1, <1>2, <2>2, <2>3, Quiet
  <1>9. QED
    BY <1>6, <1>7, <1>8

(* Fixing the root again, exclusively, preserves the invariant: with one     *)
(* thread it is still the root and still a leaf.                             *)
LEMMA RefixRootStep ==
    ASSUME OneThread, IInv, NEW t \in Threads, RefixRoot(t)
    PROVE  IInv'
  <1>1. PICK own, th : OneInv(own, t, th)
    BY InvOfOne
  <1>2. /\ TypeOK /\ failed = FALSE /\ th = thread[t] /\ th \in Standing /\ Stands(th, own)
        /\ pages' = pages /\ root' = root /\ failed' = failed /\ th.pc = "refix"
    BY <1>1 DEF OneInv, RefixRoot
  <1>3. /\ root # Nothing /\ th.parent = root /\ th.key \in Keys
        /\ IsLeaf(pages[root]) /\ th.op = "erase" /\ th.value = Nothing
    BY <1>2 DEF Stands
  <1>4. Tree(pages, own, root) /\ root \in Nat
    BY <1>1, <1>3 DEF OneInv, TypeOK
  <1>5. root \in DOMAIN own /\ own[root] = Keys
    BY <1>4 DEF Tree
  <1>6. Goes(t, "leaf", root, root)
    BY <1>2, <1>3 DEF RefixRoot
  <1>7. PICK th2 \in Standing :
           /\ thread' = [thread EXCEPT ![t] = th2]
           /\ th2.pc = "leaf" /\ th2.parent = root /\ th2.child = root
           /\ th2.op = th.op /\ th2.key = th.key /\ th2.value = th.value
    <2>1. PICK th2 \in Standing : Gone(th, th2, "leaf", root, root)
      BY <1>2, <1>4, <1>6, Going
    <2>2. QED
      BY <1>2, <1>4, <1>6, <2>1 DEF Gone, Goes, TypeOK
  <1>8. AtLeaf(th2, own)
    BY <1>3, <1>5, <1>7 DEF AtLeaf
  <1>9. Stands(th2, own)
    BY <1>3, <1>7, <1>8 DEF Stands
  <1>10. QED
    BY <1>1, <1>2, <1>7, <1>9, Quiet

(* Going on from the root - as a leaf, or to search it - preserves the       *)
(* invariant.                                                                *)
LEMMA EnterRootStep ==
    ASSUME OneThread, IInv, NEW t \in Threads, EnterRoot(t)
    PROVE  IInv'
  <1>1. PICK own, th : OneInv(own, t, th)
    BY InvOfOne
  <1>2. PICK p : p = th.parent
    OBVIOUS
  <1>3. /\ TypeOK /\ failed = FALSE /\ th = thread[t] /\ th \in Standing /\ Stands(th, own)
        /\ pages' = pages /\ root' = root /\ failed' = failed /\ th.pc = "inner root"
        /\ ~(th.op = "insert" /\ Unsafe(pages[p]))
        /\ Goes(t, "child", p, ChildFor(pages[p], th.key))
    BY <1>1, <1>2 DEF OneInv, EnterRoot
  <1>4. /\ root # Nothing /\ th.key \in Keys /\ th.op # "none"
        /\ (th.op = "insert" => th.value \in Values)
        /\ (th.op = "erase" => th.value = Nothing)
        /\ p \in DOMAIN own /\ ~IsLeaf(pages[p]) /\ th.key \in own[p]
    BY <1>2, <1>3 DEF Stands
  <1>5. Tree(pages, own, root) /\ own \in Seq(SUBSET Keys)
    BY <1>1, <1>4 DEF OneInv
  <1>6. p \in Nat /\ ChildFor(pages[p], th.key) \in Nat
    <2>1. PICK n \in Nat : DOMAIN own = 1..n
      BY <1>5
    <2>2. p \in 1..n /\ ChildFor(pages[p], th.key) \in 1..n
      BY <1>4, <1>5, <2>1, TreeChild
    <2>3. QED
      BY <2>2
  <1>7. PICK th2 \in Standing :
           /\ thread' = [thread EXCEPT ![t] = th2]
           /\ th2.pc = "child" /\ th2.parent = p /\ th2.child = ChildFor(pages[p], th.key)
           /\ th2.op = th.op /\ th2.key = th.key /\ th2.value = th.value
    <2>1. PICK th2 \in Standing : Gone(th, th2, "child", p, ChildFor(pages[p], th.key))
      BY <1>3, <1>6, Going
    <2>2. QED
      BY <1>3, <1>6, <2>1 DEF Gone, Goes, TypeOK
  <1>8. Below(th2, own) /\ Safe(th2, p)
    BY <1>3, <1>4, <1>7 DEF Below, Safe
  <1>9. Stands(th2, own)
    BY <1>4, <1>7, <1>8 DEF Stands
  <1>10. QED
    BY <1>1, <1>3, <1>7, <1>9, Quiet

(* Fixing the child that the search leads to preserves the invariant.        *)
LEMMA FixChildStep ==
    ASSUME OneThread, IInv, NEW t \in Threads, FixChild(t)
    PROVE  IInv'
  <1>1. PICK own, th : OneInv(own, t, th)
    BY InvOfOne
  <1>2. PICK p, c : p = th.parent /\ c = th.child
    OBVIOUS
  <1> DEFINE pc == IF IsLeaf(pages[c]) THEN "arrived" ELSE "inner"
  <1>3. /\ TypeOK /\ failed = FALSE /\ th = thread[t] /\ th \in Standing /\ Stands(th, own)
        /\ pages' = pages /\ root' = root /\ th.pc = "child"
        /\ Goes(t, pc, p, c)
        /\ failed' = (failed \/ ~(pages[c].level = pages[p].level - 1))
    BY <1>1, <1>2 DEF OneInv, FixChild, Asserts
  <1>4. /\ root # Nothing /\ th.key \in Keys /\ th.op # "none"
        /\ (th.op = "insert" => th.value \in Values)
        /\ (th.op = "erase" => th.value = Nothing)
        /\ Below(th, own) /\ Safe(th, p)
    BY <1>2, <1>3 DEF Stands
  <1>5. Tree(pages, own, root) /\ own \in Seq(SUBSET Keys)
    BY <1>1, <1>4 DEF OneInv
  <1>6. p \in Nat /\ c \in Nat /\ pages[c].level = pages[p].level - 1
    BY <1>2, <1>4, <1>5, ChildBelow
  <1>7. PICK th2 \in Standing :
           /\ thread' = [thread EXCEPT ![t] = th2]
           /\ th2.pc = pc /\ th2.parent = p /\ th2.child = c
           /\ th2.op = th.op /\ th2.key = th.key /\ th2.value = th.value
    <2>1. PICK th2 \in Standing : Gone(th, th2, pc, p, c)
      BY <1>3, <1>6, Going
    <2>2. QED
      BY <1>3, <1>6, <2>1 DEF Gone, Goes, TypeOK
  <1>8. Below(th2, own) /\ Safe(th2, p)
    BY <1>2, <1>4, <1>7 DEF Below, Safe
  <1>9. Stands(th2, own)
    BY <1>4, <1>7, <1>8 DEF Stands
  <1>10. failed' = FALSE
    BY <1>3, <1>6
  <1>11. th2.pc # "split"
    BY <1>7
  <1>12. QED
    BY <1>1, <1>3, <1>7, <1>9, <1>10, <1>11, Quiet

(* Making the child the next parent preserves the invariant: the key belongs *)
(* to it, and it has room for a separator, or was split.                     *)
LEMMA DescendStep ==
    ASSUME OneThread, IInv, NEW t \in Threads, Descend(t)
    PROVE  IInv'
  <1>1. PICK own, th : OneInv(own, t, th)
    BY InvOfOne
  <1>2. PICK c : c = th.child
    OBVIOUS
  <1>3. /\ TypeOK /\ failed = FALSE /\ th = thread[t] /\ th \in Standing /\ Stands(th, own)
        /\ pages' = pages /\ root' = root /\ failed' = failed /\ th.pc = "inner"
        /\ ~(th.op = "insert" /\ Unsafe(pages[c]))
        /\ Goes(t, "child", c, ChildFor(pages[c], th.key))
    BY <1>1, <1>2 DEF OneInv, Descend
  <1>4. /\ root # Nothing /\ th.key \in Keys /\ th.op # "none"
        /\ (th.op = "insert" => th.value \in Values)
        /\ (th.op = "erase" => th.value = Nothing)
        /\ Below(th, own) /\ ~IsLeaf(pages[c])
    BY <1>2, <1>3 DEF Stands
  <1>5. Tree(pages, own, root) /\ own \in Seq(SUBSET Keys)
    BY <1>1, <1>4 DEF OneInv
  <1>6. c \in DOMAIN own /\ c \in Nat /\ th.key \in own[c]
    BY <1>2, <1>4, <1>5, ChildBelow
  <1>7. ChildFor(pages[c], th.key) \in Nat
    <2>1. PICK n \in Nat : DOMAIN own = 1..n
      BY <1>5
    <2>2. ChildFor(pages[c], th.key) \in 1..n
      BY <1>4, <1>5, <1>6, <2>1, TreeChild
    <2>3. QED
      BY <2>2
  <1>8. PICK th2 \in Standing :
           /\ thread' = [thread EXCEPT ![t] = th2]
           /\ th2.pc = "child" /\ th2.parent = c /\ th2.child = ChildFor(pages[c], th.key)
           /\ th2.op = th.op /\ th2.key = th.key /\ th2.value = th.value
    <2>1. PICK th2 \in Standing : Gone(th, th2, "child", c, ChildFor(pages[c], th.key))
      BY <1>3, <1>6, <1>7, Going
    <2>2. QED
      BY <1>3, <1>6, <1>7, <2>1 DEF Gone, Goes, TypeOK
  <1>9. Below(th2, own) /\ Safe(th2, c)
    BY <1>3, <1>4, <1>6, <1>8 DEF Below, Safe
  <1>10. Stands(th2, own)
    BY <1>4, <1>8, <1>9 DEF Stands
  <1>11. QED
    BY <1>1, <1>3, <1>8, <1>10, Quiet

(* Arriving at a leaf preserves the invariant.                               *)
LEMMA ArriveStep ==
    ASSUME OneThread, IInv, NEW t \in Threads, Arrive(t)
    PROVE  IInv'
  <1>1. PICK own, th : OneInv(own, t, th)
    BY InvOfOne
  <1>2. PICK p, c : p = th.parent /\ c = th.child
    OBVIOUS
  <1>3. /\ TypeOK /\ failed = FALSE /\ th = thread[t] /\ th \in Standing /\ Stands(th, own)
        /\ pages' = pages /\ root' = root /\ failed' = failed /\ th.pc = "arrived"
        /\ Goes(t, "leaf", p, c)
    BY <1>1, <1>2 DEF OneInv, Arrive
  <1>4. /\ root # Nothing /\ th.key \in Keys /\ th.op # "none"
        /\ (th.op = "insert" => th.value \in Values)
        /\ (th.op = "erase" => th.value = Nothing)
        /\ Below(th, own) /\ Safe(th, p) /\ IsLeaf(pages[c])
    BY <1>2, <1>3 DEF Stands
  <1>5. Tree(pages, own, root) /\ own \in Seq(SUBSET Keys)
    BY <1>1, <1>4 DEF OneInv
  <1>6. p \in Nat /\ c \in DOMAIN own /\ c \in Nat /\ th.key \in own[c] /\ c # p
    BY <1>2, <1>4, <1>5, ChildBelow
  <1>7. PICK th2 \in Standing :
           /\ thread' = [thread EXCEPT ![t] = th2]
           /\ th2.pc = "leaf" /\ th2.parent = p /\ th2.child = c
           /\ th2.op = th.op /\ th2.key = th.key /\ th2.value = th.value
    <2>1. PICK th2 \in Standing : Gone(th, th2, "leaf", p, c)
      BY <1>3, <1>6, Going
    <2>2. QED
      BY <1>3, <1>6, <2>1 DEF Gone, Goes, TypeOK
  <1>8. Below(th2, own) /\ Safe(th2, p)
    BY <1>2, <1>4, <1>7 DEF Below, Safe
  <1>9. AtLeaf(th2, own)
    BY <1>4, <1>6, <1>7, <1>8 DEF AtLeaf
  <1>10. Stands(th2, own)
    BY <1>4, <1>7, <1>9 DEF Stands
  <1>11. QED
    BY <1>1, <1>3, <1>7, <1>10, Quiet

(* The answer of a lookup preserves the invariant: it changes no page.       *)
LEMMA LookupLeafStep ==
    ASSUME OneThread, IInv, NEW t \in Threads, LookupLeaf(t)
    PROVE  IInv'
  <1>1. PICK own, th : OneInv(own, t, th)
    BY InvOfOne
  <1>2. /\ pages' = pages /\ root' = root /\ failed' = FALSE /\ th.pc = "leaf"
        /\ thread' = [thread EXCEPT ![t] = Idle]
    BY <1>1 DEF OneInv, LookupLeaf, Returns
  <1>3. Idle.pc # "split"
    BY DEF Idle
  <1>4. QED
    BY <1>1, <1>2, <1>3, IdleStands, Quiet

------------------------------------------------------------------------------
(* What the leaves store: all of them, those in P, those outside P.          *)
Stored(pg, x, v) == \E p \in DOMAIN pg : IsLeaf(pg[p]) /\ Holds(pg[p], x, v)

StoredIn(pg, P, x, v) == \E p \in DOMAIN pg : p \in P /\ IsLeaf(pg[p]) /\ Holds(pg[p], x, v)

StoredOut(pg, P, x, v) == \E p \in DOMAIN pg : p \notin P /\ IsLeaf(pg[p]) /\ Holds(pg[p], x, v)

(* The leaves outside P are the same.                                        *)
LeavesBut(pg, pg2, P) ==
    /\ \A p \in DOMAIN pg : p \notin P /\ IsLeaf(pg[p]) => p \in DOMAIN pg2 /\ pg2[p] = pg[p]
    /\ \A p \in DOMAIN pg2 : p \notin P /\ IsLeaf(pg2[p]) => p \in DOMAIN pg /\ pg2[p] = pg[p]

(* What is stored stays; has key with value now; has key no more.            *)
StoredSame(pg, pg2) == \A x, v : Stored(pg2, x, v) <=> Stored(pg, x, v)

StoredWith(pg, pg2, key, value) ==
    \A x, v : Stored(pg2, x, v) <=> IF x = key THEN v = value ELSE Stored(pg, x, v)

StoredWithout(pg, pg2, key) == \A x, v : Stored(pg2, x, v) <=> x # key /\ Stored(pg, x, v)

(* What the leaves store is what those in P and those outside P store, and a *)
(* step that changes only leaves in P leaves the others' share.              *)
LEMMA StoredParts ==
    ASSUME NEW pg, NEW pg2, NEW P, LeavesBut(pg, pg2, P), NEW x, NEW v
    PROVE  /\ Stored(pg, x, v) <=> StoredIn(pg, P, x, v) \/ StoredOut(pg, P, x, v)
           /\ Stored(pg2, x, v) <=> StoredIn(pg2, P, x, v) \/ StoredOut(pg, P, x, v)
  <1>1. Stored(pg, x, v) <=> StoredIn(pg, P, x, v) \/ StoredOut(pg, P, x, v)
    BY DEF Stored, StoredIn, StoredOut
  <1>2. Stored(pg2, x, v) <=> StoredIn(pg2, P, x, v) \/ StoredOut(pg2, P, x, v)
    BY DEF Stored, StoredIn, StoredOut
  <1>3. StoredOut(pg2, P, x, v) <=> StoredOut(pg, P, x, v)
    BY DEF StoredOut, LeavesBut
  <1>4. QED
    BY <1>1, <1>2, <1>3

(* If no other leaf has the key, the change of the leaves in P decides.      *)
LEMMA StoredSameBy ==
    ASSUME NEW pg, NEW pg2, NEW P, LeavesBut(pg, pg2, P),
           \A x, v : StoredIn(pg2, P, x, v) <=> StoredIn(pg, P, x, v)
    PROVE  StoredSame(pg, pg2)
  <1> SUFFICES ASSUME NEW x, NEW v PROVE Stored(pg2, x, v) <=> Stored(pg, x, v)
    BY DEF StoredSame
  <1>1. QED
    BY StoredParts

(* The leaves store key with value, and all else as before, if the ones in P *)
(* do and no other holds key.                                                *)
LEMMA StoredWithBy ==
    ASSUME NEW pg, NEW pg2, NEW P, LeavesBut(pg, pg2, P), NEW key, NEW value,
           \A x, v : StoredIn(pg2, P, x, v) <=> IF x = key THEN v = value
                                                ELSE StoredIn(pg, P, x, v),
           \A v : ~StoredOut(pg, P, key, v)
    PROVE  StoredWith(pg, pg2, key, value)
  <1> SUFFICES ASSUME NEW x, NEW v
               PROVE  Stored(pg2, x, v) <=> IF x = key THEN v = value ELSE Stored(pg, x, v)
    BY DEF StoredWith
  <1>1. /\ Stored(pg, x, v) <=> StoredIn(pg, P, x, v) \/ StoredOut(pg, P, x, v)
        /\ Stored(pg2, x, v) <=> StoredIn(pg2, P, x, v) \/ StoredOut(pg, P, x, v)
    BY StoredParts
  <1>2. QED
    BY <1>1

(* The leaves no longer store key, and all else as before, if the ones in P  *)
(* do and no other holds key.                                                *)
LEMMA StoredWithoutBy ==
    ASSUME NEW pg, NEW pg2, NEW P, LeavesBut(pg, pg2, P), NEW key,
           \A x, v : StoredIn(pg2, P, x, v) <=> x # key /\ StoredIn(pg, P, x, v),
           \A v : ~StoredOut(pg, P, key, v)
    PROVE  StoredWithout(pg, pg2, key)
  <1> SUFFICES ASSUME NEW x, NEW v PROVE Stored(pg2, x, v) <=> x # key /\ Stored(pg, x, v)
    BY DEF StoredWithout
  <1>1. /\ Stored(pg, x, v) <=> StoredIn(pg, P, x, v) \/ StoredOut(pg, P, x, v)
        /\ Stored(pg2, x, v) <=> StoredIn(pg2, P, x, v) \/ StoredOut(pg, P, x, v)
    BY StoredParts
  <1>2. QED
    BY <1>1

(* A step that changes no leaf leaves what is stored.                        *)
LEMMA SameLeaves ==
    ASSUME NEW pg, NEW pg2, LeavesBut(pg, pg2, {})
    PROVE  StoredSame(pg, pg2)
  <1>1. \A x, v : ~StoredIn(pg, {}, x, v) /\ ~StoredIn(pg2, {}, x, v)
    BY DEF StoredIn
  <1>2. QED
    BY <1>1, StoredSameBy

(* What two leaves store is what one or the other holds.                     *)
LEMMA StoredInTwo ==
    ASSUME NEW pg, NEW c \in DOMAIN pg, NEW b \in DOMAIN pg, IsLeaf(pg[c]), IsLeaf(pg[b]),
           NEW x, NEW v
    PROVE  StoredIn(pg, {c, b}, x, v) <=> Holds(pg[c], x, v) \/ Holds(pg[b], x, v)
  BY DEF StoredIn

(* No leaf of the tree but the one it belongs to has a key.                  *)
LEMMA NotElsewhere ==
    ASSUME NEW pg, NEW own, NEW top, Tree(pg, own, top), NEW n \in Nat, DOMAIN own = 1..n,
           NEW c \in 1..n, IsLeaf(pg[c]), NEW key \in own[c],
           NEW p \in 1..n, p # c, IsLeaf(pg[p]), NEW v
    PROVE  ~Holds(pg[p], key, v)
  <1> SUFFICES ASSUME Holds(pg[p], key, v) PROVE FALSE
    OBVIOUS
  <1>1. PICK i \in 1..Count(pg[p]) : pg[p].keys[i] = key
    BY DEF Holds
  <1>2. NodeFor(pg[p], own[p])
    BY TreePages
  <1>3. key \in own[p]
    BY <1>1, <1>2 DEF NodeFor, Valid
  <1>4. \A q, r \in 1..n : q # r /\ pg[q].level = pg[r].level => own[q] \cap own[r] = {}
    BY TreePages, SMTT(30)
  <1>5. own[p] \cap own[c] = {}
    BY <1>4 DEF IsLeaf
  <1>6. QED
    BY <1>3, <1>5

------------------------------------------------------------------------------
(* The m pages pg with x for the page c, or with x behind them.              *)
Changed(pg2, pg, m, c, x) ==
    /\ pg2 \in Seq(Nodes) /\ Len(pg2) = m /\ pg2[c] = x
    /\ \A q \in 1..m : q # c => pg2[q] = pg[q]

Extended(pg2, pg, m, x) ==
    /\ pg2 \in Seq(Nodes) /\ Len(pg2) = m + 1 /\ pg2[m + 1] = x
    /\ \A q \in 1..m : pg2[q] = pg[q]

(* Changing a page leaves the others.                                        *)
LEMMA PagesExcept ==
    ASSUME NEW pg \in Seq(Nodes), NEW m \in Nat, m = Len(pg), NEW c \in 1..m, NEW x \in Nodes
    PROVE  Changed([pg EXCEPT ![c] = x], pg, m, c, x)
  <1>1. Len(pg) \in Nat /\ DOMAIN pg = 1..m
    OBVIOUS
  <1>2. [pg EXCEPT ![c] = x] \in Seq(Nodes) /\ Len([pg EXCEPT ![c] = x]) = m
    BY <1>1
  <1>3. QED
    BY <1>1, <1>2 DEF Changed

(* A new page at the end of the segment leaves the others.                   *)
LEMMA PagesAppend ==
    ASSUME NEW pg \in Seq(Nodes), NEW m \in Nat, m = Len(pg), NEW x \in Nodes
    PROVE  Extended(Append(pg, x), pg, m, x)
  <1>1. Append(pg, x) \in Seq(Nodes) /\ Len(Append(pg, x)) = m + 1 /\ Append(pg, x)[m + 1] = x
    OBVIOUS
  <1>2. \A q \in 1..m : Append(pg, x)[q] = pg[q]
    OBVIOUS
  <1>3. QED
    BY <1>1, <1>2 DEF Extended

(* The child that has the key is the one it is led to.                       *)
LEMMA ChildIs ==
    ASSUME NEW pg, NEW own, NEW top, Tree(pg, own, top), NEW n \in Nat, DOMAIN own = 1..n,
           NEW p \in 1..n, ~IsLeaf(pg[p]), NEW key \in own[p],
           NEW q \in 1..n, key \in own[q], pg[q].level = pg[p].level - 1
    PROVE  q = ChildFor(pg[p], key)
  <1> DEFINE c == ChildFor(pg[p], key)
  <1>1. c \in 1..n /\ key \in own[c] /\ pg[c].level = pg[p].level - 1
    BY TreeChild
  <1> HIDE DEF c
  <1>2. q # c /\ pg[q].level = pg[c].level => own[q] \cap own[c] = {}
    BY <1>1, TreePages
  <1>3. q = c
    BY <1>1, <1>2
  <1>4. QED
    BY <1>3 DEF c

(* The first insert, which makes a leaf with its key the root, preserves the *)
(* invariant and stores that key only.                                       *)
LEMMA CreateRootStep ==
    ASSUME OneThread, IInv, NEW t \in Threads, CreateRoot(t)
    PROVE  IInv' /\ StoredWith(pages, pages', thread[t].key, thread[t].value)
  <1>1. PICK own, th : OneInv(own, t, th)
    BY InvOfOne
  <1>2. /\ TypeOK /\ failed = FALSE /\ th = thread[t] /\ Stands(th, own)
        /\ failed' = failed /\ th.pc = "empty"
        /\ thread' = [thread EXCEPT ![t] = Idle]
    BY <1>1 DEF OneInv, CreateRoot, Returns
  <1>3. root = Nothing /\ th.op = "insert" /\ th.key \in Keys /\ th.value \in Values
    BY <1>2 DEF Stands
  <1>4. pages = <<>>
    BY <1>1, <1>3 DEF OneInv
  <1>5. PICK x : x = LeafInsert(NewNode(0), th.key, th.value)
    OBVIOUS
  <1>6. pages' = <<x>> /\ root' = 1
    BY <1>2, <1>4, <1>5 DEF CreateRoot, NextPage
  <1>7. /\ NodeFor(NewNode(0), Keys) /\ IsLeaf(NewNode(0)) /\ Count(NewNode(0)) = 0
    <2>1. NewNode(0) = [level |-> 0, keys |-> <<>>, entries |-> <<>>]
      BY DEF NewNode
    <2>2. /\ IsLeaf(NewNode(0)) /\ Count(NewNode(0)) = 0 /\ Valid(NewNode(0)) = 0
          /\ Len(NewNode(0).entries) = 0
      BY <2>1 DEF IsLeaf, Count, Valid
    <2>3. NewNode(0) \in Nodes
      <3>1. <<>> \in Seq(Keys) /\ <<>> \in Seq(Values \cup Nat) /\ 0 \in Nat
        OBVIOUS
      <3>2. PICK e : e = <<>> /\ e \in Seq(Keys) /\ e \in Seq(Values \cup Nat)
        BY <3>1
      <3>3. [level |-> 0, keys |-> e, entries |-> e] \in Nodes
        BY <3>1, <3>2 DEF Nodes
      <3>4. QED
        BY <2>1, <3>2, <3>3
    <2>4. QED
      BY <2>2, <2>3, CapacityAssumption DEF NodeFor, Increasing
  <1>8. /\ NodeFor(x, Keys) /\ IsLeaf(x)
        /\ \A k, v : Holds(x, k, v) <=> IF k = th.key THEN v = th.value
                                        ELSE Holds(NewNode(0), k, v)
    <2>1. Count(NewNode(0)) < LeafCapacity /\ Keys \in SUBSET Keys
      BY <1>7, CapacityAssumption
    <2>2. LeafWith(LeafInsert(NewNode(0), th.key, th.value), NewNode(0), Keys, th.key, th.value)
      BY <1>3, <1>7, <2>1, LeafInsertNode
    <2>3. QED
      BY <1>5, <2>2 DEF LeafWith
  <1>9. x \in Nodes /\ <<x>> \in Seq(Nodes) /\ Len(<<x>>) = 1 /\ <<x>>[1] = x
    BY <1>8 DEF NodeFor
  <1>10. Tree(<<x>>, <<Keys>>, 1)
    <2>1. Keys # {}
      BY <1>3
    <2>2. QED
      BY <1>8, <1>9, <2>1, TreeStart
  <1>11. <<Keys>> \in Seq(SUBSET Keys) /\ Len(<<Keys>>) = 1
    OBVIOUS
  <1>12. Stands(Idle, <<Keys>>)'
    BY DEF Idle, Stands
  <1>13. Idle.pc # "split" /\ root' # Nothing
    BY <1>6, BTreeAssumption DEF Idle
  <1>14. /\ pages' \in Seq(Nodes) /\ root' \in Nat \cup {Nothing} /\ Tree(pages', <<Keys>>, root')
         /\ Len(pages') = 1
    BY <1>6, <1>9, <1>10
  <1>15. IInv'
    BY <1>2, <1>11, <1>12, <1>13, <1>14, IdleStands, OneOfInv
  <1>16. ASSUME NEW k, NEW v
         PROVE  Stored(pages', k, v) <=> IF k = th.key THEN v = th.value
                                         ELSE Stored(pages, k, v)
    <2>1. ~Stored(pages, k, v)
      BY <1>4 DEF Stored
    <2>2. ~Holds(NewNode(0), k, v)
      BY <1>7 DEF Holds
    <2>3. Stored(pages', k, v) <=> Holds(x, k, v)
      <3>1. DOMAIN pages' = {1} /\ pages'[1] = x
        BY <1>6
      <3>2. QED
        BY <1>8, <3>1 DEF Stored
    <2>4. QED
      BY <1>8, <2>1, <2>2, <2>3
  <1>17. QED
    BY <1>2, <1>15, <1>16 DEF StoredWith

(* What holds at a leaf.                                                     *)
AtLeafOf(own, th, n, c) ==
    /\ n \in Nat /\ c \in 1..n /\ n = Len(pages) /\ n = Len(own) /\ DOMAIN own = 1..n
    /\ c = th.child /\ own[c] \in SUBSET Keys /\ pages \in Seq(Nodes)
    /\ root \in Nat /\ root # Nothing /\ Tree(pages, own, root)
    /\ AtLeaf(th, own) /\ IsLeaf(pages[c]) /\ NodeFor(pages[c], own[c])
    /\ th.key \in own[c] /\ (th.op = "insert" => th.value \in Values)

(* What holds when a thread is at its leaf.                                  *)
LEMMA OnLeaf ==
    ASSUME NEW t \in Threads, NEW own, NEW th, OneInv(own, t, th), th.pc = "leaf"
    PROVE  \E n, c : AtLeafOf(own, th, n, c)
  <1>1. /\ root # Nothing /\ root \in Nat /\ Tree(pages, own, root) /\ own \in Seq(SUBSET Keys)
        /\ Len(own) = Len(pages) /\ pages \in Seq(Nodes) /\ Stands(th, own)
    BY DEF OneInv, TypeOK, Stands
  <1>2. AtLeaf(th, own) /\ (th.op = "insert" => th.value \in Values)
    BY <1>1 DEF Stands
  <1>3. th.child \in DOMAIN own /\ IsLeaf(pages[th.child]) /\ th.key \in own[th.child]
    BY <1>2 DEF AtLeaf
  <1>4. NodeFor(pages[th.child], own[th.child])
    BY <1>1, <1>3 DEF Tree
  <1>5. PICK n \in Nat : n = Len(own) /\ DOMAIN own = 1..n
    BY <1>1
  <1>6. th.child \in 1..n /\ own[th.child] \in SUBSET Keys /\ n = Len(pages)
    BY <1>1, <1>3, <1>5
  <1>7. QED
    BY <1>1, <1>2, <1>3, <1>4, <1>5, <1>6 DEF AtLeafOf

(* The leaf is changed, and the thread is done.                              *)
LEMMA LeafReplaced ==
    ASSUME OneThread, NEW t \in Threads, NEW own, NEW th, OneInv(own, t, th), th.pc = "leaf",
           NEW x, NodeFor(x, own[th.child]), IsLeaf(x), pages' = [pages EXCEPT ![th.child] = x],
           thread' = [thread EXCEPT ![t] = Idle], root' = root, failed' = failed
    PROVE  IInv'
  <1>1. PICK n, c : /\ n \in Nat /\ c \in 1..n
                  /\ n = Len(pages) /\ n = Len(own) /\ DOMAIN own = 1..n /\ c = th.child
                  /\ own[c] \in SUBSET Keys /\ pages \in Seq(Nodes)
                  /\ root \in Nat /\ root # Nothing /\ Tree(pages, own, root)
                  /\ IsLeaf(pages[c])
    <2>1. PICK n, c : AtLeafOf(own, th, n, c)
      BY OnLeaf
    <2>2. QED
      BY <2>1 DEF AtLeafOf
  <1>2. x \in Nodes /\ NodeFor(x, own[c])
    BY <1>1 DEF NodeFor
  <1>3. Changed(pages', pages, n, c, x)
    BY <1>1, <1>2, PagesExcept
  <1>4. pages' \in Seq(Nodes) /\ Len(pages') = n /\ pages'[c] = x
        /\ \A q \in DOMAIN own : q # c => pages'[q] = pages[q]
    BY <1>1, <1>3 DEF Changed
  <1>5. Tree(pages', own, root)
    <2>1. c \in DOMAIN own /\ Len(pages') >= Len(own) /\ IsLeaf(pages'[c])
          /\ NodeFor(pages'[c], own[c])
      BY <1>1, <1>2, <1>4
    <2>2. QED
      BY <1>1, <1>4, <2>1, TreeReplace
  <1>6. Stands(Idle, own)'
    BY DEF Idle, Stands
  <1>7. TypeOK /\ failed' = FALSE /\ own \in Seq(SUBSET Keys) /\ Idle.pc # "split"
    BY DEF OneInv, Idle
  <1>8. QED
    BY <1>1, <1>4, <1>5, <1>6, <1>7, IdleStands, OneOfInv

(* The leaf c is x now, and only there key may be stored.                    *)
LeafSwap(pg, pg2, c, x, key) ==
    /\ LeavesBut(pg, pg2, {c})
    /\ \A k, v : /\ StoredIn(pg2, {c}, k, v) <=> Holds(x, k, v)
                 /\ StoredIn(pg, {c}, k, v) <=> Holds(pg[c], k, v)
    /\ \A v : ~StoredOut(pg, {c}, key, v)

(* Changing the leaf that a key belongs to changes what is stored in this    *)
(* leaf, and no other leaf holds the key.                                    *)
LEMMA LeafSwapped ==
    ASSUME NEW t \in Threads, NEW own, NEW th, OneInv(own, t, th), th.pc = "leaf",
           NEW x \in Nodes, IsLeaf(x), NEW pg2, pg2 = [pages EXCEPT ![th.child] = x]
    PROVE  LeafSwap(pages, pg2, th.child, x, th.key)
  <1>1. PICK n, c : /\ n \in Nat /\ c \in 1..n
                    /\ n = Len(pages) /\ DOMAIN own = 1..n /\ c = th.child
                    /\ pages \in Seq(Nodes) /\ Tree(pages, own, root)
                    /\ IsLeaf(pages[c]) /\ th.key \in own[c]
    <2>1. PICK n, c : AtLeafOf(own, th, n, c)
      BY OnLeaf
    <2>2. QED
      BY <2>1 DEF AtLeafOf
  <1>2. Changed(pg2, pages, n, c, x)
    BY <1>1, PagesExcept
  <1>3. pg2 \in Seq(Nodes) /\ Len(pg2) = n /\ pg2[c] = x /\ \A q \in 1..n : q # c => pg2[q] = pages[q]
    BY <1>2 DEF Changed
  <1>4. DOMAIN pages = 1..n
    BY <1>1
  <1>5. DOMAIN pg2 = 1..n
    BY <1>1, <1>3
  <1>6. LeavesBut(pages, pg2, {c})
    BY <1>3, <1>4, <1>5 DEF LeavesBut
  <1>7. ASSUME NEW k, NEW v
        PROVE  /\ StoredIn(pg2, {c}, k, v) <=> Holds(x, k, v)
               /\ StoredIn(pages, {c}, k, v) <=> Holds(pages[c], k, v)
    BY <1>1, <1>3, <1>4, <1>5 DEF StoredIn
  <1>8. ASSUME NEW v, StoredOut(pages, {c}, th.key, v) PROVE FALSE
    <2>1. PICK p \in 1..n : p # c /\ IsLeaf(pages[p]) /\ Holds(pages[p], th.key, v)
      BY <1>4, <1>8 DEF StoredOut
    <2>2. QED
      BY <1>1, <2>1, NotElsewhere
  <1>9. LeafSwap(pages, pg2, c, x, th.key)
    BY <1>6, <1>7, <1>8 DEF LeafSwap
  <1>10. QED
    BY <1>1, <1>9

(* Erasing from the leaf preserves the invariant, and removes the key and    *)
(* nothing else.                                                             *)
LEMMA EraseLeafStep ==
    ASSUME OneThread, IInv, NEW t \in Threads, EraseLeaf(t)
    PROVE  IInv' /\ StoredWithout(pages, pages', thread[t].key)
  <1>1. PICK own, th : OneInv(own, t, th)
    BY InvOfOne
  <1>2. /\ th = thread[t] /\ failed' = failed /\ root' = root /\ th.pc = "leaf"
        /\ thread' = [thread EXCEPT ![t] = Idle]
        /\ pages' = [pages EXCEPT ![th.child] = LeafErase(pages[th.child], th.key)]
    BY <1>1 DEF OneInv, EraseLeaf, Returns
  <1>3. PICK n, c : /\ n \in Nat /\ c \in 1..n
                  /\ c = th.child /\ own[c] \in SUBSET Keys
                  /\ IsLeaf(pages[c]) /\ NodeFor(pages[c], own[c]) /\ th.key \in own[c]
    <2>1. PICK n, c : AtLeafOf(own, th, n, c)
      BY <1>1, <1>2, OnLeaf
    <2>2. QED
      BY <2>1 DEF AtLeafOf
  <1>4. LeafWithout(LeafErase(pages[c], th.key), pages[c], own[c], th.key)
    BY <1>3, LeafEraseNode
  <1>5. NodeFor(LeafErase(pages[c], th.key), own[c]) /\ IsLeaf(LeafErase(pages[c], th.key))
    BY <1>4 DEF LeafWithout
  <1>6. IInv'
    BY <1>1, <1>2, <1>3, <1>5, LeafReplaced
  <1>7. LeafSwap(pages, pages', c, LeafErase(pages[c], th.key), th.key)
    BY <1>1, <1>2, <1>3, <1>5, LeafSwapped DEF NodeFor
  <1>8. StoredWithout(pages, pages', th.key)
    BY <1>4, <1>7, StoredWithoutBy DEF LeafSwap, LeafWithout
  <1>9. QED
    BY <1>2, <1>6, <1>8

(* Inserting into a leaf with room preserves the invariant, and stores the   *)
(* key with its value and changes nothing else.                              *)
LEMMA InsertLeafStep ==
    ASSUME OneThread, IInv, NEW t \in Threads, InsertLeaf(t)
    PROVE  IInv' /\ StoredWith(pages, pages', thread[t].key, thread[t].value)
  <1>1. PICK own, th : OneInv(own, t, th)
    BY InvOfOne
  <1>2. /\ th = thread[t] /\ failed' = failed /\ root' = root /\ th.pc = "leaf"
        /\ th.op = "insert" /\ Count(pages[th.child]) < LeafCapacity
        /\ thread' = [thread EXCEPT ![t] = Idle]
        /\ pages' = [pages EXCEPT ![th.child] = LeafInsert(pages[th.child], th.key, th.value)]
    BY <1>1 DEF OneInv, InsertLeaf, Returns
  <1>3. PICK n, c : /\ n \in Nat /\ c \in 1..n
                  /\ c = th.child /\ own[c] \in SUBSET Keys
                  /\ IsLeaf(pages[c]) /\ NodeFor(pages[c], own[c]) /\ th.key \in own[c]
                  /\ th.value \in Values
    <2>1. PICK n, c : AtLeafOf(own, th, n, c)
      BY <1>1, <1>2, OnLeaf
    <2>2. QED
      BY <2>1, <1>2 DEF AtLeafOf
  <1>4. LeafWith(LeafInsert(pages[c], th.key, th.value), pages[c], own[c], th.key, th.value)
    BY <1>2, <1>3, LeafInsertNode
  <1>5. /\ NodeFor(LeafInsert(pages[c], th.key, th.value), own[c])
        /\ IsLeaf(LeafInsert(pages[c], th.key, th.value))
    BY <1>4 DEF LeafWith
  <1>6. IInv'
    BY <1>1, <1>2, <1>3, <1>5, LeafReplaced
  <1>7. LeafSwap(pages, pages', c, LeafInsert(pages[c], th.key, th.value), th.key)
    BY <1>1, <1>2, <1>3, <1>5, LeafSwapped DEF NodeFor
  <1>8. StoredWith(pages, pages', th.key, th.value)
    BY <1>4, <1>7, StoredWithBy DEF LeafSwap, LeafWith
  <1>9. QED
    BY <1>2, <1>6, <1>8

(* A leaf for some keys is a leaf for more.                                  *)
LEMMA LeafWiden ==
    ASSUME NEW low, NEW o, low \subseteq o, NEW node, IsLeaf(node), NodeFor(node, low)
    PROVE  NodeFor(node, o)
  BY DEF NodeFor

(* Splitting a full leaf preserves the invariant, with the new leaf not in   *)
(* the tree yet, and loses no key.                                           *)
LEMMA SplitLeafStep ==
    ASSUME OneThread, IInv, NEW t \in Threads, SplitLeaf(t)
    PROVE  IInv' /\ StoredSame(pages, pages')
  <1>1. PICK own, th : OneInv(own, t, th)
    BY InvOfOne
  <1>2. /\ th = thread[t] /\ th.pc = "leaf" /\ th.op = "insert"
        /\ th \in Standing /\ Stands(th, own) /\ TypeOK /\ failed = FALSE
    BY <1>1 DEF OneInv, SplitLeaf
  <1>3. PICK n, c : AtLeafOf(own, th, n, c)
    BY <1>1, <1>2, OnLeaf
  <1>4. /\ n \in Nat /\ c \in 1..n /\ n = Len(pages) /\ n = Len(own) /\ DOMAIN own = 1..n
        /\ c = th.child /\ own[c] \in SUBSET Keys /\ pages \in Seq(Nodes)
        /\ root \in Nat /\ root # Nothing /\ Tree(pages, own, root)
        /\ AtLeaf(th, own) /\ IsLeaf(pages[c]) /\ NodeFor(pages[c], own[c])
        /\ th.key \in own[c] /\ th.value \in Values
    BY <1>2, <1>3 DEF AtLeafOf
  <1> DEFINE left == SplitLeft(pages[c])
             right == SplitRight(pages[c])
             sep == Separator(pages[c])
             o == own[c]
             mid == [pages EXCEPT ![c] = left]
  <1>a. PICK th2 : th2 = [th EXCEPT !.pc = "split", !.buddy = n + 1, !.separator = sep]
    OBVIOUS
  <1>5. /\ Count(pages[c]) = LeafCapacity
        /\ pages' = Append(mid, right)
        /\ thread' = [thread EXCEPT ![t] = th2]
        /\ failed' = (failed \/ ~(Len(left.keys) < LeafCapacity))
        /\ root' = root
    BY <1>2, <1>4, <1>a DEF SplitLeaf, NextPage, Asserts
  <1>6. PICK k \in Nat : /\ k = KeptBySplit(pages[c]) /\ 1 <= k /\ k < Valid(pages[c])
                         /\ k < LeafCapacity /\ Count(pages[c]) - k < LeafCapacity
    BY <1>4, <1>5, LeafSplits
  <1>7. ChildrenFor(pages[c], o, pages, own)
    BY <1>4 DEF ChildrenFor
  <1>8. /\ Count(left) = k /\ Count(right) = Count(pages[c]) - k
        /\ Halves(pages[c], o, sep, left, right, pages, own)
    BY <1>4, <1>6, <1>7, SplitNode
  <1>9. Count(left) < LeafCapacity /\ Count(right) < LeafCapacity
    BY <1>6, <1>8
  <1> HIDE DEF left, right, sep
  <1>10. /\ sep \in {x \in o : x <= sep} /\ {x \in o : x > sep} # {}
         /\ left.level = pages[c].level /\ right.level = pages[c].level
         /\ NodeFor(left, {x \in o : x <= sep}) /\ NodeFor(right, {x \in o : x > sep})
    BY <1>8 DEF Halves
  <1>11. IsLeaf(left) /\ IsLeaf(right) /\ left \in Nodes /\ right \in Nodes
    BY <1>4, <1>10 DEF IsLeaf, NodeFor
  <1>12. NodeFor(left, o)
    BY <1>10, <1>11, LeafWiden
  <1>13. sep \in Nat
    <2>1. sep \in Keys
      BY <1>4, <1>10
    <2>2. QED
      BY <2>1, BTreeAssumption
  <1>14. Changed(mid, pages, n, c, left)
    BY <1>4, <1>11, PagesExcept
  <1> HIDE DEF mid
  <1>15. mid \in Seq(Nodes) /\ Len(mid) = n /\ mid[c] = left
         /\ \A q \in 1..n : q # c => mid[q] = pages[q]
    BY <1>14 DEF Changed
  <1>16. Extended(pages', mid, n, right)
    BY <1>4, <1>5, <1>11, <1>15, PagesAppend
  <1>17. /\ pages' \in Seq(Nodes) /\ Len(pages') = n + 1 /\ pages'[n + 1] = right
         /\ pages'[c] = left /\ \A q \in 1..n : q # c => pages'[q] = pages[q]
    BY <1>4, <1>15, <1>16 DEF Extended
  <1>18. Tree(pages', own, root)
    <2>1. c \in DOMAIN own /\ Len(pages') >= Len(own) /\ IsLeaf(pages'[c])
          /\ NodeFor(pages'[c], own[c])
      BY <1>4, <1>11, <1>12, <1>17
    <2>2. \A q \in DOMAIN own : q # c => pages'[q] = pages[q]
      BY <1>4, <1>17
    <2>3. QED
      BY <1>4, <2>1, <2>2, TreeReplace
  <1>19. /\ th2 \in Standing
         /\ th2.pc = "split" /\ th2.op = th.op /\ th2.key = th.key /\ th2.value = th.value
         /\ th2.parent = th.parent /\ th2.child = th.child
         /\ th2.buddy = n + 1 /\ th2.separator = sep
    <2>1. n + 1 \in Nat /\ n + 1 \in Nat \cup {Nothing}
      BY <1>4
    <2>2. th2 \in Standing
      BY <1>2, <1>a, <1>13, <2>1 DEF Standing
    <2>3. QED
      BY <1>2, <1>a, <2>2 DEF Standing
  <1>20. AtLeaf(th2, own)'
    <2>1. CASE th.parent = root /\ th.child = root
      BY <1>4, <1>5, <1>11, <1>17, <1>19, <2>1 DEF AtLeaf
    <2>2. CASE th.parent # th.child /\ Below(th, own) /\ Safe(th, th.parent)
      <3>1. th.parent \in 1..n /\ pages'[th.parent] = pages[th.parent]
        BY <1>4, <1>17, <2>2 DEF Below
      <3>2. Below(th2, own)' /\ Safe(th2, th2.parent)'
        BY <1>19, <2>2, <3>1 DEF Below, Safe
      <3>3. QED
        BY <1>4, <1>11, <1>17, <1>19, <2>2, <3>2 DEF AtLeaf
    <2>3. QED
      BY <1>4, <2>1, <2>2 DEF AtLeaf
  <1>21. HasSplit(th2, own)'
    <2>1. th2.child = c
      BY <1>4, <1>19
    <2>2. QED
      BY <1>2, <1>4, <1>9, <1>10, <1>11, <1>17, <1>19, <2>1 DEF HasSplit
  <1>22. Stands(th2, own)'
    <2>1. /\ th.key \in Keys /\ th.op = "insert" /\ th.value \in Values
      BY <1>2, <1>4
    <2>2. QED
      BY <1>4, <1>5, <1>19, <1>20, <1>21, <2>1 DEF Stands
  <1>23. failed' = FALSE
    <2>1. Len(left.keys) < LeafCapacity
      BY <1>9 DEF Count
    <2>2. QED
      BY <1>2, <1>5, <2>1
  <1>24. own \in Seq(SUBSET Keys) /\ Len(own) = Len(pages') - 1
    BY <1>1, <1>4, <1>17 DEF OneInv
  <1>25. thread' = [thread EXCEPT ![t] = th2]
    BY <1>5
  <1>26. IInv'
    BY <1>2, <1>4, <1>5, <1>17, <1>18, <1>19, <1>22, <1>23, <1>24, <1>25, OneOfInv
  <1>27. /\ DOMAIN pages = 1..n /\ DOMAIN pages' = 1..(n + 1) /\ c \in 1..(n + 1)
         /\ n + 1 \in 1..(n + 1) /\ n + 1 \notin 1..n
         /\ \A q \in 1..(n + 1) : q \in 1..n \/ q = n + 1
         /\ \A q \in 1..n : q \in 1..(n + 1)
    <2>1. n \in Nat /\ c \in 1..n /\ pages \in Seq(Nodes) /\ n = Len(pages)
      BY <1>4
    <2>2. pages' \in Seq(Nodes) /\ Len(pages') = n + 1
      BY <1>17
    <2>3. DOMAIN pages = 1..n /\ DOMAIN pages' = 1..(n + 1)
      BY <2>1, <2>2
    <2>4. /\ c \in 1..(n + 1) /\ n + 1 \in 1..(n + 1) /\ n + 1 \notin 1..n
          /\ \A q \in 1..(n + 1) : q \in 1..n \/ q = n + 1
          /\ \A q \in 1..n : q \in 1..(n + 1)
      BY <2>1
    <2>5. QED
      BY <2>3, <2>4
  <1>28. LeavesBut(pages, pages', {c, n + 1})
    BY <1>17, <1>27 DEF LeavesBut
  <1>29. ASSUME NEW x, NEW v
         PROVE  StoredIn(pages', {c, n + 1}, x, v) <=> StoredIn(pages, {c, n + 1}, x, v)
    <2>1. StoredIn(pages', {c, n + 1}, x, v) <=> Holds(left, x, v) \/ Holds(right, x, v)
      BY <1>11, <1>17, <1>27, StoredInTwo
    <2>2. StoredIn(pages, {c, n + 1}, x, v) <=> Holds(pages[c], x, v)
      BY <1>4, <1>27 DEF StoredIn
    <2>3. Holds(pages[c], x, v) <=> Holds(left, x, v) \/ Holds(right, x, v)
      BY <1>4, <1>6, LeafSplitHolds DEF left, right
    <2>4. QED
      BY <2>1, <2>2, <2>3
  <1>30. QED
    BY <1>26, <1>28, <1>29, StoredSameBy

(* What holds while the new leaf is not in the tree yet.                     *)
SplitLeafOf(own, th, n, c, low, high) ==
    /\ n \in Nat /\ c \in 1..n /\ Len(pages) = n + 1 /\ n = Len(own) /\ DOMAIN own = 1..n
    /\ c = th.child /\ own[c] \in SUBSET Keys /\ pages \in Seq(Nodes) /\ own \in Seq(SUBSET Keys)
    /\ root \in Nat /\ root # Nothing /\ Tree(pages, own, root)
    /\ AtLeaf(th, own) /\ IsLeaf(pages[c]) /\ IsLeaf(pages[n + 1])
    /\ th.key \in own[c] /\ th.op = "insert" /\ th.value \in Values
    /\ th.buddy = n + 1
    /\ low = {k \in own[c] : k <= th.separator} /\ high = {k \in own[c] : k > th.separator}
    /\ th.separator \in low /\ high # {}
    /\ NodeFor(pages[c], low) /\ NodeFor(pages[n + 1], high)
    /\ Count(pages[c]) < LeafCapacity /\ Count(pages[n + 1]) < LeafCapacity

(* What holds while the new leaf is not in the tree yet.                     *)
LEMMA OnSplitLeaf ==
    ASSUME NEW t \in Threads, NEW own, NEW th, OneInv(own, t, th), th.pc = "split"
    PROVE  \E n, c, low, high : SplitLeafOf(own, th, n, c, low, high)
  <1>1. /\ root # Nothing /\ root \in Nat /\ Tree(pages, own, root) /\ own \in Seq(SUBSET Keys)
        /\ Len(own) = Len(pages) - 1 /\ pages \in Seq(Nodes) /\ Stands(th, own)
    BY DEF OneInv, TypeOK, Stands
  <1>2. /\ AtLeaf(th, own) /\ HasSplit(th, own) /\ th.op = "insert" /\ th.value \in Values
    BY <1>1 DEF Stands, HasSplit
  <1>3. th.child \in DOMAIN own /\ IsLeaf(pages[th.child]) /\ th.key \in own[th.child]
    BY <1>2 DEF AtLeaf
  <1>4. PICK n \in Nat : n = Len(own) /\ DOMAIN own = 1..n
    BY <1>1
  <1>5. th.child \in 1..n /\ own[th.child] \in SUBSET Keys /\ Len(pages) = n + 1
    BY <1>1, <1>3, <1>4
  <1>6. PICK low, high : /\ low = {k \in own[th.child] : k <= th.separator}
                         /\ high = {k \in own[th.child] : k > th.separator}
    OBVIOUS
  <1>7. /\ th.buddy = n + 1 /\ th.separator \in low /\ high # {}
        /\ IsLeaf(pages[n + 1])
        /\ NodeFor(pages[th.child], low) /\ NodeFor(pages[n + 1], high)
        /\ Count(pages[th.child]) < LeafCapacity /\ Count(pages[n + 1]) < LeafCapacity
    BY <1>2, <1>4, <1>6 DEF HasSplit
  <1>8. SplitLeafOf(own, th, n, th.child, low, high)
    BY <1>1, <1>2, <1>3, <1>4, <1>5, <1>6, <1>7 DEF SplitLeafOf
  <1>9. QED
    BY <1>8

(* The key of th is in one of the halves of the page c, which divide it.     *)
Linked(pg2, pg, m, own, th, n, c) ==
    /\ pg2 \in Seq(Nodes) /\ Len(pg2) = m
    /\ Halves(pages[c], own[c], th.separator, pg2[c], pg2[n + 1], pages, own)
    /\ IsLeaf(pg2[c]) /\ IsLeaf(pg2[n + 1])
    /\ \A q \in 1..m : q # c /\ q # n + 1 => pg2[q] = pg[q]
    /\ \A x, v : Holds(pg2[c], x, v) \/ Holds(pg2[n + 1], x, v) <=>
                    IF x = th.key THEN v = th.value
                    ELSE Holds(pages[c], x, v) \/ Holds(pages[n + 1], x, v)

(* The key that is inserted goes into the half of the leaf that it belongs   *)
(* to: both halves stay leaves for their share of the keys.                  *)
LEMMA HalvesLinked ==
    ASSUME NEW t \in Threads, NEW own, NEW th, th = thread[t], NEW n, NEW c, NEW low, NEW high,
           SplitLeafOf(own, th, n, c, low, high),
           NEW pg \in Seq(Nodes), NEW m \in Nat, m = Len(pg), n + 1 <= m,
           pg[c] = pages[c], pg[n + 1] = pages[n + 1],
           NEW pg2, pg2 = InsertedInHalf(t, pg)
    PROVE  Linked(pg2, pg, m, own, th, n, c)
  <1>1. /\ n \in Nat /\ c \in 1..n /\ c = th.child /\ own[c] \in SUBSET Keys
        /\ IsLeaf(pages[c]) /\ IsLeaf(pages[n + 1])
        /\ th.key \in own[c] /\ th.value \in Values /\ th.buddy = n + 1
        /\ low = {k \in own[c] : k <= th.separator} /\ high = {k \in own[c] : k > th.separator}
        /\ th.separator \in low /\ high # {}
        /\ NodeFor(pages[c], low) /\ NodeFor(pages[n + 1], high)
        /\ Count(pages[c]) < LeafCapacity /\ Count(pages[n + 1]) < LeafCapacity
    BY DEF SplitLeafOf
  <1>2. c \in 1..m /\ n + 1 \in 1..m /\ c # n + 1
    BY <1>1
  <1>3. \A x \in own[c] : x \in Nat
    BY <1>1, BTreeAssumption
  <1>4. th.separator \in Nat /\ th.key \in Nat
    BY <1>1, <1>3
  <1>5. low \in SUBSET Keys /\ high \in SUBSET Keys
    BY <1>1
  <1> DEFINE add(node) == LeafInsert(node, th.key, th.value)
  <1>6. CASE th.separator < th.key
    <2>1. th.key \in high /\ th.key \notin low
      BY <1>1, <1>4, <1>6
    <2>2. pg2 = [pg EXCEPT ![n + 1] = add(pages[n + 1])]
      BY <1>1, <1>6 DEF InsertedInHalf
    <2>3. LeafWith(add(pages[n + 1]), pages[n + 1], high, th.key, th.value)
      BY <1>1, <1>5, <2>1, LeafInsertNode
    <2> HIDE DEF add
    <2>4. /\ NodeFor(add(pages[n + 1]), high) /\ IsLeaf(add(pages[n + 1]))
          /\ \A x, v : Holds(add(pages[n + 1]), x, v) <=>
                          IF x = th.key THEN v = th.value ELSE Holds(pages[n + 1], x, v)
      BY <2>3 DEF LeafWith
    <2>5. add(pages[n + 1]) \in Nodes
      BY <2>4 DEF NodeFor
    <2>6. Changed(pg2, pg, m, n + 1, add(pages[n + 1]))
      BY <1>2, <2>2, <2>5, PagesExcept
    <2>7. /\ pg2 \in Seq(Nodes) /\ Len(pg2) = m /\ pg2[n + 1] = add(pages[n + 1])
          /\ pg2[c] = pages[c] /\ \A q \in 1..m : q # n + 1 => pg2[q] = pg[q]
      BY <1>2, <2>6 DEF Changed
    <2>8. Halves(pages[c], own[c], th.separator, pg2[c], pg2[n + 1], pages, own)
      BY <1>1, <2>4, <2>7 DEF Halves, ChildrenFor, IsLeaf
    <2>9. \A v : ~Holds(pages[c], th.key, v)
      <3>1. \A v : Holds(pages[c], th.key, v) => th.key \in low
        BY <1>1, <1>4, <1>5, LeafLookup
      <3>2. QED
        BY <2>1, <3>1
    <2>10. \A x, v : Holds(pg2[c], x, v) \/ Holds(pg2[n + 1], x, v) <=>
                       IF x = th.key THEN v = th.value
                       ELSE Holds(pages[c], x, v) \/ Holds(pages[n + 1], x, v)
      BY <2>4, <2>7, <2>9
    <2>11. QED
      BY <1>1, <2>4, <2>7, <2>8, <2>10 DEF Linked
  <1>7. CASE ~(th.separator < th.key)
    <2>1. th.key \in low /\ th.key \notin high
      BY <1>1, <1>4, <1>7
    <2>2. pg2 = [pg EXCEPT ![c] = add(pages[c])]
      BY <1>1, <1>7 DEF InsertedInHalf
    <2>3. LeafWith(add(pages[c]), pages[c], low, th.key, th.value)
      BY <1>1, <1>5, <2>1, LeafInsertNode
    <2> HIDE DEF add
    <2>4. /\ NodeFor(add(pages[c]), low) /\ IsLeaf(add(pages[c]))
          /\ \A x, v : Holds(add(pages[c]), x, v) <=>
                          IF x = th.key THEN v = th.value ELSE Holds(pages[c], x, v)
      BY <2>3 DEF LeafWith
    <2>5. add(pages[c]) \in Nodes
      BY <2>4 DEF NodeFor
    <2>6. Changed(pg2, pg, m, c, add(pages[c]))
      BY <1>2, <2>2, <2>5, PagesExcept
    <2>7. /\ pg2 \in Seq(Nodes) /\ Len(pg2) = m /\ pg2[c] = add(pages[c])
          /\ pg2[n + 1] = pages[n + 1] /\ \A q \in 1..m : q # c => pg2[q] = pg[q]
      BY <1>2, <2>6 DEF Changed
    <2>8. Halves(pages[c], own[c], th.separator, pg2[c], pg2[n + 1], pages, own)
      BY <1>1, <2>4, <2>7 DEF Halves, ChildrenFor, IsLeaf
    <2>9. \A v : ~Holds(pages[n + 1], th.key, v)
      <3>1. \A v : Holds(pages[n + 1], th.key, v) => th.key \in high
        BY <1>1, <1>4, <1>5, LeafLookup
      <3>2. QED
        BY <2>1, <3>1
    <2>10. \A x, v : Holds(pg2[c], x, v) \/ Holds(pg2[n + 1], x, v) <=>
                       IF x = th.key THEN v = th.value
                       ELSE Holds(pages[c], x, v) \/ Holds(pages[n + 1], x, v)
      BY <2>4, <2>7, <2>9
    <2>11. QED
      BY <1>1, <2>4, <2>7, <2>8, <2>10 DEF Linked
  <1>8. QED
    BY <1>6, <1>7

(* When the new leaf is in the tree, the two store one key more.             *)
LEMMA LinkedStored ==
    ASSUME NEW own, NEW th, NEW n, NEW c, NEW low, NEW high,
           SplitLeafOf(own, th, n, c, low, high),
           NEW pg, NEW m \in Nat, n + 1 <= m, NEW pg2, Linked(pg2, pg, m, own, th, n, c),
           LeavesBut(pages, pg2, {c, n + 1})
    PROVE  StoredWith(pages, pg2, th.key, th.value)
  <1>1. /\ n \in Nat /\ c \in 1..n /\ Len(pages) = n + 1 /\ DOMAIN own = 1..n
        /\ pages \in Seq(Nodes) /\ Tree(pages, own, root)
        /\ IsLeaf(pages[c]) /\ IsLeaf(pages[n + 1]) /\ th.key \in own[c]
    BY DEF SplitLeafOf
  <1>2. /\ pg2 \in Seq(Nodes) /\ Len(pg2) = m /\ IsLeaf(pg2[c]) /\ IsLeaf(pg2[n + 1])
        /\ \A x, v : Holds(pg2[c], x, v) \/ Holds(pg2[n + 1], x, v) <=>
                        IF x = th.key THEN v = th.value
                        ELSE Holds(pages[c], x, v) \/ Holds(pages[n + 1], x, v)
    BY DEF Linked
  <1>3. /\ c \in 1..(n + 1) /\ n + 1 \in 1..(n + 1) /\ c \in 1..m /\ n + 1 \in 1..m
        /\ \A q \in 1..(n + 1) : q \in 1..n \/ q = n + 1
    BY <1>1
  <1>4. DOMAIN pages = 1..(n + 1) /\ DOMAIN pg2 = 1..m
    BY <1>1, <1>2
  <1>5. ASSUME NEW x, NEW v
        PROVE  StoredIn(pg2, {c, n + 1}, x, v) <=>
                  IF x = th.key THEN v = th.value ELSE StoredIn(pages, {c, n + 1}, x, v)
    <2>1. StoredIn(pg2, {c, n + 1}, x, v) <=> Holds(pg2[c], x, v) \/ Holds(pg2[n + 1], x, v)
      BY <1>2, <1>3, <1>4, StoredInTwo
    <2>2. StoredIn(pages, {c, n + 1}, x, v) <=>
             Holds(pages[c], x, v) \/ Holds(pages[n + 1], x, v)
      BY <1>1, <1>3, <1>4, StoredInTwo
    <2>3. QED
      BY <1>2, <2>1, <2>2
  <1>6. ASSUME NEW v, StoredOut(pages, {c, n + 1}, th.key, v) PROVE FALSE
    <2>1. PICK p \in 1..(n + 1) : /\ p \notin {c, n + 1} /\ IsLeaf(pages[p])
                                  /\ Holds(pages[p], th.key, v)
      BY <1>4, <1>6 DEF StoredOut
    <2>2. p \in 1..n /\ p # c
      BY <1>3, <2>1
    <2>3. QED
      BY <1>1, <2>1, <2>2, NotElsewhere
  <1>7. QED
    BY <1>5, <1>6, StoredWithBy

(* Putting the new leaf into its parent, or under a new root, preserves the  *)
(* invariant and stores the inserted key with its value.                     *)
LEMMA LinkLeafStep ==
    ASSUME OneThread, IInv, NEW t \in Threads, LinkLeaf(t)
    PROVE  IInv' /\ StoredWith(pages, pages', thread[t].key, thread[t].value)
  <1>1. PICK own, th : OneInv(own, t, th)
    BY InvOfOne
  <1>2. /\ th = thread[t] /\ th.pc = "split" /\ TypeOK /\ failed = FALSE
    BY <1>1 DEF OneInv, LinkLeaf
  <1>3. PICK n, c, low, high : SplitLeafOf(own, th, n, c, low, high)
    BY <1>1, <1>2, OnSplitLeaf
  <1>4. /\ n \in Nat /\ c \in 1..n /\ Len(pages) = n + 1 /\ DOMAIN own = 1..n
        /\ c = th.child /\ own[c] \in SUBSET Keys /\ pages \in Seq(Nodes) /\ own \in Seq(SUBSET Keys)
        /\ root \in Nat /\ root # Nothing /\ Tree(pages, own, root)
        /\ AtLeaf(th, own) /\ IsLeaf(pages[c]) /\ th.key \in own[c] /\ th.op = "insert"
        /\ th.buddy = n + 1
    BY <1>3 DEF SplitLeafOf
  <1>5. PICK p, sep : p = th.parent /\ sep = th.separator
    OBVIOUS
  <1>6. thread' = [thread EXCEPT ![t] = Idle] /\ Idle.pc # "split"
    BY DEF LinkLeaf, Returns, Idle
  <1>7. \A own2 : Stands(Idle, own2)'
    BY DEF Idle, Stands
  <1>8. sep \in Keys /\ sep \in own[c]
    BY <1>3, <1>4, <1>5 DEF SplitLeafOf
  <1>9. CASE p = c
    <2>1. root = c
      BY <1>4, <1>5, <1>9 DEF AtLeaf
    <2>2. PICK new : new = InitInsert(NewNode(1), sep, c, n + 1)
      OBVIOUS
    <2>3. PICK pg : pg = Append(pages, new)
      OBVIOUS
    <2>4. /\ pages' = InsertedInHalf(t, pg) /\ root' = n + 2
          /\ failed' = (failed \/ ~(root = c))
      BY <1>2, <1>4, <1>5, <1>9, <2>2, <2>3 DEF LinkLeaf, NextPage, Asserts
    <2>5. new \in Nodes
      <3>1. RootAbove(new, 1, sep, c, n + 1)
        BY <1>4, <1>8, <2>2, NewRoot
      <3>2. QED
        BY <3>1 DEF RootAbove, NodeFor
    <2>6. Extended(pg, pages, n + 1, new)
      BY <1>4, <2>3, <2>5, PagesAppend
    <2>7. /\ pg \in Seq(Nodes) /\ Len(pg) = n + 2 /\ pg[n + 2] = new
          /\ \A q \in 1..(n + 1) : pg[q] = pages[q]
      BY <1>4, <2>6 DEF Extended
    <2>8. Linked(pages', pg, n + 2, own, th, n, c)
      <3>1. pg[c] = pages[c] /\ pg[n + 1] = pages[n + 1] /\ n + 2 \in Nat /\ n + 1 <= n + 2
        BY <1>4, <2>7
      <3>2. QED
        BY <1>2, <1>3, <2>4, <2>7, <3>1, HalvesLinked
    <2>9. /\ pages' \in Seq(Nodes) /\ Len(pages') = n + 2
          /\ Halves(pages[c], own[c], sep, pages'[c], pages'[n + 1], pages, own)
          /\ \A q \in 1..(n + 2) : q # c /\ q # n + 1 => pages'[q] = pg[q]
      BY <1>5, <2>8 DEF Linked
    <2>10. pages'[n + 2] = new /\ \A q \in 1..n : q # c => pages'[q] = pages[q]
      <3>1. n + 2 \in 1..(n + 2) /\ n + 2 # c /\ n + 2 # n + 1
        BY <1>4
      <3>2. pages'[n + 2] = new
        BY <2>7, <2>9, <3>1
      <3>3. ASSUME NEW q \in 1..n, q # c PROVE pages'[q] = pages[q]
        <4>1. q \in 1..(n + 1) /\ q \in 1..(n + 2) /\ q # n + 1
          BY <1>4
        <4>2. QED
          BY <2>7, <2>9, <3>3, <4>1
      <3>4. QED
        BY <3>2, <3>3
    <2>11. PICK own2 : own2 = Divide(own, n, c, sep, 1)
      OBVIOUS
    <2>12. /\ own2 \in Seq(SUBSET Keys) /\ DOMAIN own2 = 1..(n + 2) /\ Len(own2) = n + 2
           /\ own2[c] = {x \in own[c] : x <= sep}
           /\ own2[n + 1] = {x \in own[c] : x > sep}
           /\ \A q \in 1..n : q # c => own2[q] = own[q]
           /\ own2[n + 2] = Keys
      <3>1. 1 \in {0, 1} /\ n + 1 + 1 = n + 2
        BY <1>4
      <3>2. Owns(own2, own, n, c, sep, 1)
        BY <1>4, <2>11, <3>1, DivideOwn
      <3>3. QED
        BY <1>4, <2>11, <3>1, <3>2 DEF Owns
    <2>13. DividesPage(pages, own, n, root, n + 2, sep, pages', own2)
      <3>1. ~(n + 2 \in 1..n)
        BY <1>4
      <3>2. QED
        BY <2>1, <2>9, <2>10, <2>12, <3>1 DEF DividesPage
    <2>14. pages'[n + 2] = InitInsert(NewNode(pages[root].level + 1), sep, root, n + 1)
      <3>1. pages[root].level + 1 = 1
        BY <1>4, <2>1 DEF IsLeaf
      <3>2. QED
        BY <2>1, <2>2, <2>10, <3>1
    <2>15. Tree(pages', own2, n + 2)
      BY <1>4, <2>9, <2>12, <2>13, <2>14, TreeSplitTop
    <2>16. failed' = FALSE
      BY <1>2, <2>1, <2>4
    <2>17. root' \in Nat /\ root' # Nothing
      BY <1>4, <2>4, BTreeAssumption
    <2>18. IInv'
      BY <1>2, <1>6, <1>7, <2>4, <2>9, <2>12, <2>15, <2>16, <2>17, IdleStands, OneOfInv
    <2>19. LeavesBut(pages, pages', {c, n + 1})
      <3>1. ~IsLeaf(new)
        <4>1. new.level = 1
          BY <2>2 DEF InitInsert, NewNode
        <4>2. QED
          BY <4>1 DEF IsLeaf
      <3>2. DOMAIN pages = 1..(n + 1)
        BY <1>4
      <3>3. DOMAIN pages' = 1..(n + 2)
        BY <1>4, <2>9
      <3>4. /\ \A q \in 1..(n + 2) : q \in 1..n \/ q = n + 1 \/ q = n + 2
            /\ \A q \in 1..(n + 1) : q \in 1..(n + 2) /\ (q \in 1..n \/ q = n + 1)
            /\ \A q \in 1..n : q \in 1..(n + 1)
        BY <1>4
      <3>5. QED
        BY <2>10, <3>1, <3>2, <3>3, <3>4 DEF LeavesBut
    <2>20. n + 2 \in Nat /\ n + 1 <= n + 2
      BY <1>4
    <2>21. StoredWith(pages, pages', th.key, th.value)
      BY <1>3, <2>8, <2>19, <2>20, LinkedStored
    <2>22. QED
      BY <1>2, <2>18, <2>21
  <1>10. CASE p # c
    <2>1. Below(th, own) /\ Safe(th, p)
      BY <1>4, <1>5, <1>10 DEF AtLeaf
    <2>2. /\ p \in 1..n /\ ~IsLeaf(pages[p]) /\ th.key \in own[p] /\ c = ChildFor(pages[p], th.key)
          /\ ~Unsafe(pages[p])
      BY <1>4, <1>5, <2>1 DEF Below, Safe
    <2>3. PICK i : /\ i \in 1..Count(pages[p]) /\ c = pages[p].entries[i]
                   /\ pages[c].level = pages[p].level - 1
      BY <1>4, <2>2, TreeChild
    <2>4. NodeFor(pages[p], own[p]) /\ own[p] \in SUBSET Keys
      BY <1>4, <2>2, TreePages
    <2>5. PICK new : new = InnerInsert(pages[p], sep, n + 1)
      OBVIOUS
    <2>6. PICK pg : pg = [pages EXCEPT ![p] = new]
      OBVIOUS
    <2>7. /\ pages' = InsertedInHalf(t, pg) /\ root' = root
          /\ failed' = (failed \/ ~(pages[p].level = 1 /\ InnerInsertAsserts(pages[p], sep, c)))
      BY <1>2, <1>4, <1>5, <1>10, <2>5, <2>6 DEF LinkLeaf, Asserts
    <2>8. new \in Nodes /\ new.level = pages[p].level
      <3>1. PICK m \in Nat : m = Count(pages[p]) /\ i \in 1..m
        BY <2>3, <2>4, KeysInOrder
      <3>2. own[c] = {k \in own[p] : Routes(pages[p], k, i)}
        <4>1. ChildrenFor(pages[p], own[p], pages, own)
          BY <1>4, <2>2, TreePages
        <4>2. QED
          BY <2>2, <2>3, <4>1 DEF ChildrenFor
      <3>3. Routes(pages[p], sep, i) /\ n + 1 \in Nat
        BY <1>4, <1>8, <3>2
      <3>4. Widened(new, pages[p], m, i, sep, n + 1)
        BY <1>8, <2>2, <2>4, <2>5, <3>1, <3>3, InnerInsertShape
      <3>5. QED
        BY <3>4 DEF Widened
    <2>9. Changed(pg, pages, n + 1, p, new)
      <3>1. p \in 1..(n + 1) /\ n + 1 \in Nat
        BY <1>4, <2>2
      <3>2. QED
        BY <1>4, <2>6, <2>8, <3>1, PagesExcept
    <2>10. /\ pg \in Seq(Nodes) /\ Len(pg) = n + 1 /\ pg[p] = new
           /\ \A q \in 1..(n + 1) : q # p => pg[q] = pages[q]
      BY <1>4, <2>9 DEF Changed
    <2>11. Linked(pages', pg, n + 1, own, th, n, c)
      <3>1. pg[c] = pages[c] /\ pg[n + 1] = pages[n + 1] /\ n + 1 \in Nat /\ n + 1 <= n + 1
        BY <1>4, <1>10, <2>2, <2>10
      <3>2. QED
        BY <1>2, <1>3, <2>7, <2>10, <3>1, HalvesLinked
    <2>12. /\ pages' \in Seq(Nodes) /\ Len(pages') = n + 1
           /\ Halves(pages[c], own[c], sep, pages'[c], pages'[n + 1], pages, own)
           /\ \A q \in 1..(n + 1) : q # c /\ q # n + 1 => pages'[q] = pg[q]
      BY <1>5, <2>11 DEF Linked
    <2>13. /\ pages'[p] = new
           /\ \A q \in 1..n : q # c /\ q # p => pages'[q] = pages[q]
      BY <1>4, <1>10, <2>2, <2>10, <2>12
    <2>14. PICK own2 : own2 = Divide(own, n, c, sep, 0)
      OBVIOUS
    <2>15. /\ own2 \in Seq(SUBSET Keys) /\ DOMAIN own2 = 1..(n + 1) /\ Len(own2) = n + 1
           /\ own2[c] = {x \in own[c] : x <= sep}
           /\ own2[n + 1] = {x \in own[c] : x > sep}
           /\ \A q \in 1..n : q # c => own2[q] = own[q]
      <3>1. 0 \in {0, 1} /\ n + 0 + 1 = n + 1
        BY <1>4
      <3>2. Owns(own2, own, n, c, sep, 0)
        BY <1>4, <2>14, <3>1, DivideOwn
      <3>3. QED
        BY <1>4, <2>14, <3>1, <3>2 DEF Owns
    <2>16. DividesPage(pages, own, n, c, p, sep, pages', own2)
      BY <2>8, <2>12, <2>13, <2>15 DEF DividesPage
    <2>17. Tree(pages', own2, root) /\ InnerInsertAsserts(pages[p], sep, c)
      <3>1. pages'[p] = InnerInsert(pages[p], sep, n + 1) /\ n + 1 <= Len(pages')
        BY <1>4, <2>5, <2>12, <2>13
      <3>2. QED
        BY <1>4, <2>2, <2>3, <2>15, <2>16, <3>1, TreeSplitBelow
    <2>18. pages[p].level = 1
      <3>1. pages[p].level \in Nat /\ pages[c].level = 0
        BY <1>4, <2>2, TreePages DEF IsLeaf
      <3>2. QED
        BY <2>3, <3>1
    <2>19. failed' = FALSE
      BY <1>2, <2>7, <2>17, <2>18
    <2>20. IInv'
      BY <1>2, <1>4, <1>6, <1>7, <2>7, <2>12, <2>15, <2>17, <2>19, IdleStands, OneOfInv
    <2>21. LeavesBut(pages, pages', {c, n + 1})
      <3>1. ~IsLeaf(new)
        BY <2>2, <2>8 DEF IsLeaf
      <3>2. DOMAIN pages = 1..(n + 1)
        BY <1>4
      <3>3. DOMAIN pages' = 1..(n + 1)
        BY <1>4, <2>12
      <3>4. \A q \in 1..(n + 1) : q \in 1..n \/ q = n + 1
        BY <1>4
      <3>5. QED
        BY <2>2, <2>13, <3>1, <3>2, <3>3, <3>4 DEF LeavesBut
    <2>22. n + 1 \in Nat /\ n + 1 <= n + 1
      BY <1>4
    <2>23. StoredWith(pages, pages', th.key, th.value)
      BY <1>3, <2>11, <2>21, <2>22, LinkedStored
    <2>24. QED
      BY <1>2, <2>20, <2>23
  <1>11. QED
    BY <1>9, <1>10

(* The keys o are divided at sep between c and the page behind the n pages.  *)
Halved(own2, o, n, c, sep) ==
    own2[c] = {x \in o : x <= sep} /\ own2[n + 1] = {x \in o : x > sep}

(* on is the one of them that owns key.                                      *)
OnHalf(on, key, own2, n, c) ==
    on \in 1..(n + 1) /\ key \in own2[on] /\ (on = c \/ on = n + 1)

(* Which half of a page a key goes on to.                                    *)
LEMMA HalfOf ==
    ASSUME NEW n \in Nat, NEW c \in 1..n, NEW o \in SUBSET Keys, NEW key \in o, NEW sep \in Keys,
           NEW own2, Halved(own2, o, n, c, sep),
           NEW on, on = IF sep < key THEN n + 1 ELSE c
    PROVE  OnHalf(on, key, own2, n, c)
  <1>1. sep \in Nat /\ key \in Nat
    BY BTreeAssumption
  <1>2. CASE sep < key
    <2>1. on = n + 1 /\ key \in own2[n + 1]
      BY <1>1, <1>2 DEF Halved
    <2>2. QED
      BY <2>1 DEF OnHalf
  <1>3. CASE ~(sep < key)
    <2>1. on = c /\ key \in own2[c]
      BY <1>1, <1>3 DEF Halved
    <2>2. c \in 1..(n + 1)
      OBVIOUS
    <2>3. QED
      BY <2>1, <2>2 DEF OnHalf
  <1>4. QED
    BY <1>2, <1>3

(* What two new pages at the end of the segment do to it.                    *)
ExtendedTwice(pg2, pg, m, x, y) ==
    /\ pg2 \in Seq(Nodes) /\ Len(pg2) = m + 2 /\ pg2[m + 1] = x /\ pg2[m + 2] = y
    /\ \A q \in 1..m : pg2[q] = pg[q]

(* Two new pages at the end of the segment leave the others.                 *)
LEMMA ConcatTwo ==
    ASSUME NEW pg \in Seq(Nodes), NEW m \in Nat, m = Len(pg), NEW x \in Nodes, NEW y \in Nodes
    PROVE  ExtendedTwice(pg \o <<x, y>>, pg, m, x, y)
  <1>1. PICK S : S = Nodes
    OBVIOUS
  <1>2. <<x, y>> \in Seq(S) /\ Len(<<x, y>>) = 2 /\ <<x, y>>[1] = x /\ <<x, y>>[2] = y
    BY <1>1
  <1>3. PICK two \in Seq(S) : two = <<x, y>> /\ Len(two) = 2 /\ two[1] = x /\ two[2] = y
    BY <1>2
  <1>4. pg \in Seq(S)
    BY <1>1
  <1>5. \A q \in 1..m : (pg \o two)[q] = pg[q]
    BY <1>3, <1>4
  <1>6. (pg \o two)[m + 1] = two[1]
    BY <1>3, <1>4
  <1>7. (pg \o two)[m + 2] = two[2]
    BY <1>3, <1>4
  <1>8. (pg \o two) \in Seq(S) /\ Len(pg \o two) = m + 2
    BY <1>3, <1>4
  <1>9. QED
    BY <1>1, <1>3, <1>5, <1>6, <1>7, <1>8 DEF ExtendedTwice

(* Splitting an inner root under a new one preserves the invariant and loses *)
(* no key.                                                                   *)
LEMMA SplitRootStep ==
    ASSUME OneThread, IInv, NEW t \in Threads, SplitRoot(t)
    PROVE  IInv' /\ StoredSame(pages, pages')
  <1>1. PICK own, th : OneInv(own, t, th)
    BY InvOfOne
  <1>2. PICK p : p = th.parent
    OBVIOUS
  <1>3. /\ th = thread[t] /\ th.pc = "inner root" /\ th.op = "insert" /\ Unsafe(pages[p])
        /\ th \in Standing /\ Stands(th, own) /\ TypeOK /\ failed = FALSE
    BY <1>1, <1>2 DEF OneInv, SplitRoot
  <1>4. /\ root # Nothing /\ root \in Nat /\ p = root /\ ~IsLeaf(pages[p])
        /\ th.key \in Keys /\ th.value \in Values
    BY <1>2, <1>3 DEF Stands, TypeOK
  <1>5. /\ Tree(pages, own, root) /\ own \in Seq(SUBSET Keys) /\ Len(own) = Len(pages)
        /\ pages \in Seq(Nodes)
    BY <1>1, <1>3, <1>4 DEF OneInv, TypeOK
  <1>6. PICK n \in Nat : n = Len(own) /\ n = Len(pages) /\ DOMAIN own = 1..n
    BY <1>5
  <1>7. /\ p \in 1..n /\ own[p] = Keys /\ NodeFor(pages[p], Keys) /\ pages[p].level \in Nat
        /\ ChildrenFor(pages[p], Keys, pages, own)
    <2>1. root \in 1..n /\ own[root] = Keys
      BY <1>5, <1>6, TreePages
    <2>2. /\ NodeFor(pages[root], own[root]) /\ pages[root].level \in Nat
          /\ ChildrenFor(pages[root], own[root], pages, own)
      BY <1>5, <1>6, <2>1, TreePages
    <2>3. QED
      BY <1>4, <2>1, <2>2
  <1> DEFINE node == pages[p]
  <1>8. PICK left, right, sep :
           left = SplitLeft(node) /\ right = SplitRight(node) /\ sep = Separator(node)
    OBVIOUS
  <1>9. Keys \in SUBSET Keys
    OBVIOUS
  <1>10. PICK k \in Nat : /\ k = KeptBySplit(node) /\ 2 <= k /\ k < Valid(node)
                          /\ k < InnerCapacity - 1 /\ Count(node) - k < InnerCapacity - 1
    BY <1>3, <1>4, <1>7, <1>9, InnerSplits
  <1>11. /\ Count(left) = k /\ Count(right) = Count(node) - k
         /\ Halves(node, Keys, sep, left, right, pages, own)
    <2>1. 1 <= k
      BY <1>10
    <2>2. QED
      BY <1>7, <1>8, <1>9, <1>10, <2>1, SplitNode
  <1>12. ~Unsafe(left) /\ ~Unsafe(right)
    <2>1. PICK a \in Nat, b \in Nat, m \in Nat : a = Count(left) /\ b = Count(right) /\ m = InnerCapacity
      <3>1. Count(left) \in Nat /\ Count(right) \in Nat
        BY <1>11, KeysInOrder DEF Halves
      <3>2. QED
        BY <3>1, CapacityAssumption
    <2>2. a < m - 1 /\ b < m - 1
      BY <1>10, <1>11, <2>1
    <2>3. QED
      BY <2>1, <2>2 DEF Unsafe
  <1>13. /\ sep \in Keys /\ left \in Nodes /\ right \in Nodes
         /\ left.level = node.level /\ right.level = node.level
    BY <1>11 DEF Halves, NodeFor
  <1>14. PICK new : new = InitInsert(NewNode(node.level + 1), sep, p, n + 1)
    OBVIOUS
  <1>15. PICK on : on = IF sep < th.key THEN n + 1 ELSE p
    OBVIOUS
  <1>16. PICK mid : mid = [pages EXCEPT ![p] = left]
    OBVIOUS
  <1>a. NextPage = n + 1 /\ n + 1 + 1 = n + 2
    BY <1>6 DEF NextPage
  <1>17. pages' = mid \o <<right, new>> /\ root' = n + 2
    BY <1>2, <1>3, <1>8, <1>14, <1>16, <1>a DEF SplitRoot
  <1>b. failed' = (failed \/ ~(root = p /\ SplitAsserts(node)))
    BY <1>2, <1>3 DEF SplitRoot, Asserts
  <1>c. Goes(t, "inner root", on, Nothing)
    BY <1>2, <1>3, <1>8, <1>15, <1>a DEF SplitRoot
  <1>18. new \in Nodes
    <2>1. node.level + 1 \in Nat /\ node.level + 1 > 0 /\ n + 1 \in Nat /\ p \in Nat
      BY <1>7
    <2>2. RootAbove(new, node.level + 1, sep, p, n + 1)
      BY <1>13, <1>14, <2>1, NewRoot
    <2>3. QED
      BY <2>2 DEF RootAbove, NodeFor
  <1>19. Changed(mid, pages, n, p, left)
    BY <1>5, <1>6, <1>7, <1>13, <1>16, PagesExcept
  <1>20. /\ mid \in Seq(Nodes) /\ Len(mid) = n /\ mid[p] = left
         /\ \A q \in 1..n : q # p => mid[q] = pages[q]
    BY <1>19 DEF Changed
  <1>21. /\ pages' \in Seq(Nodes) /\ Len(pages') = n + 2
         /\ pages'[n + 1] = right /\ pages'[n + 2] = new
         /\ \A q \in 1..n : pages'[q] = mid[q]
    <2>1. ExtendedTwice(mid \o <<right, new>>, mid, n, right, new)
      BY <1>6, <1>13, <1>18, <1>20, ConcatTwo
    <2>2. QED
      BY <1>17, <2>1 DEF ExtendedTwice
  <1>22. pages'[p] = left /\ \A q \in 1..n : q # p => pages'[q] = pages[q]
    BY <1>7, <1>20, <1>21
  <1>23. PICK own2 : own2 = Divide(own, n, p, sep, 1)
    OBVIOUS
  <1>24. /\ own2 \in Seq(SUBSET Keys) /\ DOMAIN own2 = 1..(n + 2) /\ Len(own2) = n + 2
         /\ own2[p] = {x \in own[p] : x <= sep}
         /\ own2[n + 1] = {x \in own[p] : x > sep}
         /\ \A q \in 1..n : q # p => own2[q] = own[q]
         /\ own2[n + 2] = Keys
    <2>1. 1 \in {0, 1} /\ n + 1 + 1 = n + 2
      BY <1>6
    <2>2. p \in 1..n
      BY <1>7
    <2>3. Owns(own2, own, n, p, sep, 1)
      BY <1>5, <1>6, <1>23, <2>1, <2>2, DivideOwn
    <2>4. QED
      BY <1>5, <1>6, <1>23, <2>1, <2>2, <2>3 DEF Owns
  <1>25. DividesPage(pages, own, n, root, n + 2, sep, pages', own2)
    <2>1. ~(n + 2 \in 1..n)
      BY <1>6
    <2>2. Halves(pages[p], own[p], sep, pages'[p], pages'[n + 1], pages, own)
      BY <1>7, <1>11, <1>21, <1>22
    <2>3. QED
      BY <1>4, <1>22, <1>24, <2>1, <2>2 DEF DividesPage
  <1>26. Tree(pages', own2, n + 2)
    <2>1. pages'[n + 2] = InitInsert(NewNode(pages[root].level + 1), sep, root, n + 1)
      BY <1>4, <1>14, <1>21
    <2>2. QED
      BY <1>5, <1>6, <1>21, <1>24, <1>25, <2>1, TreeSplitTop
  <1>27. on \in 1..(n + 1) /\ th.key \in own2[on] /\ (on = p \/ on = n + 1)
    <2>1. PICK o \in SUBSET Keys : o = own[p] /\ th.key \in o
      BY <1>4, <1>7
    <2>2. p \in 1..n /\ sep \in Keys
      BY <1>7, <1>13
    <2>3. Halved(own2, o, n, p, sep)
      BY <1>24, <2>1 DEF Halved
    <2>4. OnHalf(on, th.key, own2, n, p)
      BY <1>15, <2>1, <2>2, <2>3, HalfOf
    <2>5. QED
      BY <2>4 DEF OnHalf
  <1>28. /\ on \in DOMAIN own2 /\ on \in Nat /\ ~IsLeaf(pages'[on]) /\ ~Unsafe(pages'[on])
    <2>1. ~IsLeaf(left) /\ ~IsLeaf(right)
      BY <1>4, <1>13 DEF IsLeaf
    <2>2. QED
      BY <1>6, <1>12, <1>21, <1>22, <1>24, <1>27, <2>1
  <1>29. PICK th2 \in Standing :
            /\ thread' = [thread EXCEPT ![t] = th2]
            /\ th2.pc = "inner root" /\ th2.parent = on /\ th2.child = Nothing
            /\ th2.op = th.op /\ th2.key = th.key /\ th2.value = th.value
    <2>1. PICK th2 \in Standing : Gone(th, th2, "inner root", on, Nothing)
      BY <1>3, <1>28, Going
    <2>2. QED
      BY <1>3, <1>c, <2>1 DEF Gone, Goes, TypeOK
  <1>30. root' \in Nat /\ root' # Nothing
    BY <1>6, <1>17, BTreeAssumption
  <1>31. Stands(th2, own2)'
    BY <1>3, <1>4, <1>27, <1>28, <1>29, <1>30 DEF Stands
  <1>32. failed' = FALSE
    BY <1>3, <1>4, <1>8, <1>12, <1>b DEF SplitAsserts
  <1>33. th2.pc # "split"
    BY <1>29
  <1>34. IInv'
    BY <1>3, <1>17, <1>21, <1>24, <1>26, <1>29, <1>30, <1>31, <1>32, <1>33, OneOfInv
  <1>35. LeavesBut(pages, pages', {})
    <2>1. ~IsLeaf(left) /\ ~IsLeaf(right)
      BY <1>4, <1>13 DEF IsLeaf
    <2>2. ~IsLeaf(new)
      <3>1. new.level = node.level + 1
        BY <1>14 DEF InitInsert, NewNode
      <3>2. QED
        BY <1>7, <3>1 DEF IsLeaf
    <2>3. DOMAIN pages = 1..n /\ DOMAIN pages' = 1..(n + 2)
      BY <1>5, <1>6, <1>21
    <2>4. \A q \in 1..(n + 2) : q \in 1..n \/ q = n + 1 \/ q = n + 2
      BY <1>6
    <2>5. \A q \in 1..n : q \in 1..(n + 2)
      BY <1>6
    <2>6. QED
      BY <1>4, <1>21, <1>22, <2>1, <2>2, <2>3, <2>4, <2>5 DEF LeavesBut
  <1>36. QED
    BY <1>34, <1>35, SameLeaves

(* Splitting an inner child ahead of the insert preserves the invariant and  *)
(* loses no key.                                                             *)
LEMMA SplitChildStep ==
    ASSUME OneThread, IInv, NEW t \in Threads, SplitChild(t)
    PROVE  IInv' /\ StoredSame(pages, pages')
  <1>1. PICK own, th : OneInv(own, t, th)
    BY InvOfOne
  <1>2. PICK p, c : p = th.parent /\ c = th.child
    OBVIOUS
  <1>3. /\ th = thread[t] /\ th.pc = "inner" /\ th.op = "insert" /\ Unsafe(pages[c])
        /\ th \in Standing /\ Stands(th, own) /\ TypeOK /\ failed = FALSE
    BY <1>1, <1>2 DEF OneInv, SplitChild
  <1>4. /\ root # Nothing /\ root \in Nat /\ th.key \in Keys /\ th.value \in Values
        /\ Below(th, own) /\ ~IsLeaf(pages[c]) /\ ~Unsafe(pages[p])
    BY <1>2, <1>3 DEF Stands, Safe, TypeOK
  <1>5. /\ Tree(pages, own, root) /\ own \in Seq(SUBSET Keys) /\ Len(own) = Len(pages)
        /\ pages \in Seq(Nodes)
    BY <1>1, <1>3, <1>4 DEF OneInv, TypeOK
  <1>6. PICK n \in Nat : n = Len(own) /\ n = Len(pages) /\ DOMAIN own = 1..n
    BY <1>5
  <1>7. /\ p \in 1..n /\ ~IsLeaf(pages[p]) /\ th.key \in own[p]
        /\ c = ChildFor(pages[p], th.key)
    BY <1>2, <1>4, <1>6 DEF Below
  <1>8. PICK i : /\ i \in 1..Count(pages[p]) /\ c = pages[p].entries[i] /\ c \in 1..n
                 /\ th.key \in own[c] /\ pages[c].level = pages[p].level - 1
    BY <1>5, <1>6, <1>7, TreeChild
  <1>9. OnlyChild(pages, own, root, n, c, p, i)
    BY <1>5, <1>6, <1>7, <1>8, TreeParent
  <1>10. c # p
    BY <1>9 DEF OnlyChild
  <1>11. PICK o \in SUBSET Keys : /\ o = own[c] /\ NodeFor(pages[c], o)
                                  /\ pages[c].level \in Nat /\ pages[p].level \in Nat
                                  /\ ChildrenFor(pages[c], o, pages, own)
    <2>1. /\ own[c] \in SUBSET Keys /\ NodeFor(pages[c], own[c]) /\ pages[c].level \in Nat
          /\ ChildrenFor(pages[c], own[c], pages, own)
      BY <1>5, <1>6, <1>8, TreePages, SMTT(30)
    <2>2. pages[p].level \in Nat
      BY <1>5, <1>6, <1>7, TreePages
    <2>3. QED
      BY <2>1, <2>2
  <1>12. PICK op \in SUBSET Keys : /\ op = own[p] /\ NodeFor(pages[p], op)
                                   /\ ChildrenFor(pages[p], op, pages, own)
    BY <1>5, <1>6, <1>7, TreePages
  <1> DEFINE node == pages[c]
  <1>13. PICK left, right, sep :
            left = SplitLeft(node) /\ right = SplitRight(node) /\ sep = Separator(node)
    OBVIOUS
  <1>14. PICK k \in Nat : /\ k = KeptBySplit(node) /\ 2 <= k /\ k < Valid(node)
                          /\ k < InnerCapacity - 1 /\ Count(node) - k < InnerCapacity - 1
    BY <1>3, <1>4, <1>11, InnerSplits
  <1>15. /\ Count(left) = k /\ Count(right) = Count(node) - k
         /\ Halves(node, o, sep, left, right, pages, own)
    <2>1. 1 <= k
      BY <1>14
    <2>2. QED
      BY <1>11, <1>13, <1>14, <2>1, SplitNode
  <1>16. ~Unsafe(left) /\ ~Unsafe(right)
    <2>1. PICK a \in Nat, b \in Nat, m \in Nat : a = Count(left) /\ b = Count(right) /\ m = InnerCapacity
      <3>1. Count(left) \in Nat /\ Count(right) \in Nat
        BY <1>15, KeysInOrder DEF Halves
      <3>2. QED
        BY <3>1, CapacityAssumption
    <2>2. a < m - 1 /\ b < m - 1
      BY <1>14, <1>15, <2>1
    <2>3. QED
      BY <2>1, <2>2 DEF Unsafe
  <1>17. /\ sep \in o /\ sep \in Keys /\ left \in Nodes /\ right \in Nodes
         /\ left.level = node.level /\ right.level = node.level
    BY <1>15 DEF Halves, NodeFor
  <1>18. PICK new : new = InnerInsert(pages[p], sep, n + 1)
    OBVIOUS
  <1>19. new \in Nodes /\ new.level = pages[p].level
    <2>1. PICK m \in Nat : m = Count(pages[p]) /\ i \in 1..m
      BY <1>8, <1>12, KeysInOrder
    <2>2. own[c] = {x \in op : Routes(pages[p], x, i)}
      BY <1>7, <1>8, <1>12 DEF ChildrenFor
    <2>3. Routes(pages[p], sep, i) /\ n + 1 \in Nat
      BY <1>11, <1>17, <2>2
    <2>4. Widened(new, pages[p], m, i, sep, n + 1)
      BY <1>7, <1>12, <1>17, <1>18, <2>1, <2>3, InnerInsertShape
    <2>5. QED
      BY <2>4 DEF Widened
  <1>20. PICK on : on = IF sep < th.key THEN n + 1 ELSE c
    OBVIOUS
  <1>21. PICK low : low = [pages EXCEPT ![c] = left]
    OBVIOUS
  <1>22. /\ low \in Seq(Nodes) /\ Len(low) = n /\ low[c] = left
         /\ \A q \in 1..n : q # c => low[q] = pages[q]
    <2>1. Changed(low, pages, n, c, left)
      BY <1>5, <1>6, <1>8, <1>17, <1>21, PagesExcept
    <2>2. QED
      BY <2>1 DEF Changed
  <1>23. PICK mid : mid = [low EXCEPT ![p] = new]
    OBVIOUS
  <1>24. /\ mid \in Seq(Nodes) /\ Len(mid) = n /\ mid[p] = new
         /\ \A q \in 1..n : q # p => mid[q] = low[q]
    <2>1. Changed(mid, low, n, p, new)
      BY <1>6, <1>7, <1>19, <1>22, <1>23, PagesExcept
    <2>2. QED
      BY <2>1 DEF Changed
  <1>25. NextPage = n + 1
    BY <1>6 DEF NextPage
  <1>26. pages' = Append(mid, right) /\ root' = root
    <2>1. pages' = Append([pages EXCEPT ![c] = left,
                                        ![p] = InnerInsert(@, sep, n + 1)], right)
          /\ root' = root
      BY <1>2, <1>3, <1>13, <1>25 DEF SplitChild
    <2>2. low[p] = pages[p] /\ DOMAIN pages = 1..n /\ DOMAIN low = 1..n
      BY <1>5, <1>6, <1>7, <1>10, <1>22
    <2>3. [pages EXCEPT ![c] = left, ![p] = InnerInsert(@, sep, n + 1)]
            = [low EXCEPT ![p] = InnerInsert(low[p], sep, n + 1)]
      BY <1>10, <1>21, <2>2
    <2>4. QED
      BY <1>18, <1>23, <2>1, <2>2, <2>3
  <1>27. failed' = (failed \/ ~(SplitAsserts(node) /\ InnerInsertAsserts(pages[p], sep, c)))
    BY <1>2, <1>3, <1>13 DEF SplitChild, Asserts
  <1>28. Goes(t, "inner", p, on)
    BY <1>2, <1>3, <1>13, <1>20, <1>25 DEF SplitChild
  <1>29. Extended(pages', mid, n, right)
    BY <1>6, <1>17, <1>24, <1>26, PagesAppend
  <1>30. /\ pages' \in Seq(Nodes) /\ Len(pages') = n + 1 /\ pages'[n + 1] = right
         /\ pages'[c] = left /\ pages'[p] = new
         /\ \A q \in 1..n : q # c /\ q # p => pages'[q] = pages[q]
    BY <1>7, <1>8, <1>10, <1>22, <1>24, <1>29 DEF Extended
  <1>31. PICK own2 : own2 = Divide(own, n, c, sep, 0)
    OBVIOUS
  <1>32. /\ own2 \in Seq(SUBSET Keys) /\ DOMAIN own2 = 1..(n + 1) /\ Len(own2) = n + 1
         /\ own2[c] = {x \in own[c] : x <= sep}
         /\ own2[n + 1] = {x \in own[c] : x > sep}
         /\ \A q \in 1..n : q # c => own2[q] = own[q]
    <2>1. 0 \in {0, 1} /\ n + 0 + 1 = n + 1
      BY <1>6
    <2>2. Owns(own2, own, n, c, sep, 0)
      BY <1>5, <1>6, <1>8, <1>31, <2>1, DivideOwn
    <2>3. QED
      BY <1>5, <1>6, <1>31, <2>1, <2>2 DEF Owns
  <1>33. DividesPage(pages, own, n, c, p, sep, pages', own2)
    <2>1. Halves(pages[c], own[c], sep, pages'[c], pages'[n + 1], pages, own)
      BY <1>11, <1>15, <1>30
    <2>2. QED
      BY <1>19, <1>30, <1>32, <2>1 DEF DividesPage
  <1>34. Tree(pages', own2, root) /\ InnerInsertAsserts(pages[p], sep, c)
    <2>1. pages'[p] = InnerInsert(pages[p], sep, n + 1) /\ n + 1 <= Len(pages')
      BY <1>6, <1>18, <1>30
    <2>2. QED
      BY <1>4, <1>5, <1>6, <1>7, <1>8, <1>32, <1>33, <2>1, TreeSplitBelow
  <1>35. on \in 1..(n + 1) /\ th.key \in own2[on] /\ (on = c \/ on = n + 1)
    <2>1. PICK keys \in SUBSET Keys : keys = own[c] /\ th.key \in keys
      BY <1>8, <1>11
    <2>2. c \in 1..n /\ sep \in Keys
      BY <1>8, <1>11, <1>17
    <2>3. Halved(own2, keys, n, c, sep)
      BY <1>32, <2>1 DEF Halved
    <2>4. OnHalf(on, th.key, own2, n, c)
      BY <1>20, <2>1, <2>2, <2>3, HalfOf
    <2>5. QED
      BY <2>4 DEF OnHalf
  <1>36. /\ on \in Nat /\ ~IsLeaf(pages'[on]) /\ ~Unsafe(pages'[on])
         /\ pages'[on].level = pages[c].level
    <2>1. ~IsLeaf(left) /\ ~IsLeaf(right)
      BY <1>4, <1>17 DEF IsLeaf
    <2>2. QED
      BY <1>16, <1>17, <1>30, <1>35, <2>1
  <1>37. /\ p \in 1..(n + 1) /\ p \in Nat /\ ~IsLeaf(pages'[p]) /\ th.key \in own2[p]
         /\ pages'[p].level = pages[p].level
    BY <1>7, <1>10, <1>19, <1>30, <1>32 DEF IsLeaf
  <1>38. on = ChildFor(pages'[p], th.key)
    <2>1. pages'[on].level = pages'[p].level - 1
      BY <1>8, <1>36, <1>37
    <2>2. n + 1 \in Nat
      BY <1>6
    <2>3. QED
      BY <1>32, <1>34, <1>35, <1>37, <2>1, <2>2, ChildIs
  <1>39. PICK th2 \in Standing :
            /\ thread' = [thread EXCEPT ![t] = th2]
            /\ th2.pc = "inner" /\ th2.parent = p /\ th2.child = on
            /\ th2.op = th.op /\ th2.key = th.key /\ th2.value = th.value
    <2>1. PICK th2 \in Standing : Gone(th, th2, "inner", p, on)
      BY <1>3, <1>36, <1>37, Going
    <2>2. QED
      BY <1>3, <1>28, <2>1 DEF Gone, Goes, TypeOK
  <1>40. Below(th2, own2)' /\ Safe(th2, th2.child)'
    BY <1>32, <1>36, <1>37, <1>38, <1>39 DEF Below, Safe
  <1>41. Stands(th2, own2)'
    BY <1>3, <1>4, <1>26, <1>36, <1>39, <1>40 DEF Stands
  <1>42. failed' = FALSE
    BY <1>3, <1>13, <1>16, <1>27, <1>34 DEF SplitAsserts
  <1>43. th2.pc # "split" /\ root' \in Nat /\ root' # Nothing
    BY <1>4, <1>26, <1>39
  <1>44. IInv'
    BY <1>3, <1>26, <1>30, <1>32, <1>34, <1>39, <1>41, <1>42, <1>43, OneOfInv
  <1>45. LeavesBut(pages, pages', {})
    <2>1. ~IsLeaf(left) /\ ~IsLeaf(right)
      BY <1>4, <1>17 DEF IsLeaf
    <2>2. ~IsLeaf(new)
      BY <1>7, <1>19 DEF IsLeaf
    <2>3. DOMAIN pages = 1..n /\ DOMAIN pages' = 1..(n + 1)
      BY <1>5, <1>6, <1>30
    <2>4. \A q \in 1..(n + 1) : q \in 1..n \/ q = n + 1
      BY <1>6
    <2>5. \A q \in 1..n : q \in 1..(n + 1)
      BY <1>6
    <2>6. QED
      BY <1>4, <1>7, <1>30, <2>1, <2>2, <2>3, <2>4, <2>5 DEF LeavesBut
  <1>46. QED
    BY <1>44, <1>45, SameLeaves

------------------------------------------------------------------------------
(* The invariant holds of an empty tree and is kept by every step.           *)
LEMMA InvInitially ==
    ASSUME Init
    PROVE  IInv
  <1>1. PICK own : own = <<>>
    OBVIOUS
  <1>2. own \in Seq(SUBSET Keys)
    BY <1>1
  <1>3. pages \in Seq(Nodes)
    BY DEF Init
  <1>4. thread \in [Threads -> Standing] /\ \A t \in Threads : thread[t] = Idle
    BY IdleStands DEF Init
  <1>5. \A t \in Threads : Stands(thread[t], own)
    BY <1>4, IdleStands
  <1>6. TypeOK
    BY <1>3, <1>4 DEF TypeOK, Init
  <1>7. OwnInv(own)
    BY <1>1, <1>5 DEF OwnInv, Init
  <1>8. failed = FALSE
    BY DEF Init
  <1>9. QED
    BY <1>2, <1>6, <1>7, <1>8 DEF IInv

(* Every step of the one thread preserves the inductive invariant.           *)
LEMMA InvKept ==
    ASSUME OneThread, IInv, [Next]_vars
    PROVE  IInv'
  <1>1. CASE Next
    <2>1. PICK t \in Threads :
             \/ Step(t)
             \/ \E key \in Keys :
                   \/ Call(t, "lookup", key, Nothing)
                   \/ Call(t, "erase", key, Nothing)
                   \/ \E value \in Values : Call(t, "insert", key, value)
      BY <1>1 DEF Next
    <2>2. CASE Step(t)
      BY <2>2, CreateRootStep, FixRootStep, RefixRootStep, SplitRootStep, EnterRootStep,
         FixChildStep, SplitChildStep, DescendStep, ArriveStep, LookupLeafStep, EraseLeafStep,
         InsertLeafStep, SplitLeafStep, LinkLeafStep DEF Step
    <2>3. ASSUME NEW key \in Keys, \/ Call(t, "lookup", key, Nothing)
                                   \/ Call(t, "erase", key, Nothing)
                                   \/ \E value \in Values : Call(t, "insert", key, value)
          PROVE  IInv'
      BY <2>3, CallStep
    <2>4. QED
      BY <2>1, <2>2, <2>3
  <1>2. CASE UNCHANGED vars
    <2>1. pages' = pages /\ root' = root /\ thread' = thread /\ failed' = failed
      BY <1>2 DEF vars
    <2>2. PICK own \in Seq(SUBSET Keys) : OwnInv(own)
      BY DEF IInv
    <2>3. \A t \in Threads : Stands(thread[t], own)'
      <3> SUFFICES ASSUME NEW t \in Threads PROVE Stands(thread[t], own)'
        OBVIOUS
      <3>1. PICK th : th = thread[t]
        OBVIOUS
      <3>2. Stands(th, own)
        BY <2>2, <3>1 DEF OwnInv
      <3>3. Stands(th, own)'
        BY <2>1, <3>2 DEF Stands, Below, Safe, AtLeaf, HasSplit
      <3>4. thread'[t] = th
        BY <2>1, <3>1
      <3>5. QED
        BY <3>3, <3>4
    <2>4. OwnInv(own)'
      BY <2>1, <2>2, <2>3 DEF OwnInv, InTree, Settled
    <2>5. QED
      BY <2>1, <2>2, <2>4 DEF IInv, TypeOK
  <1>3. QED
    BY <1>1, <1>2

(* In every state of a B+-tree that one thread works on, the pages are a     *)
(* tree: each is an ordered node for the keys that belong to it, within its  *)
(* capacity, its separators send each key to one child, all leaves are on    *)
(* one level, and the thread is where its key belongs, with room above it    *)
(* for the separator of a split (BTree::lookup, erase and insert). No        *)
(* assertion of the code has failed.                                         *)
THEOREM Invariant == OneThread => (Spec => []IInv)
  <1> SUFFICES ASSUME OneThread PROVE Spec => []IInv
    OBVIOUS
  <1>1. Init => IInv
    BY InvInitially
  <1>2. IInv /\ [Next]_vars => IInv'
    BY InvKept
  <1>3. QED
    BY <1>1, <1>2, PTL DEF Spec

(* No assert in btree.h fails while one thread works on the tree: a node     *)
(* that a separator is put into has room for it, and a page is a leaf, or    *)
(* not, where the walk of BTree::insert says so.                             *)
THEOREM AssertionsHoldHolds == OneThread => (Spec => []AssertionsHold)
  <1>1. IInv => AssertionsHold
    BY DEF IInv, AssertionsHold
  <1>2. QED
    BY <1>1, Invariant, PTL

(* The invariant leaves no page outside the tree, and no key where the walk  *)
(* for it does not end.                                                      *)
LEMMA NothingStrandedOfInv ==
    ASSUME OneThread, IInv
    PROVE  NothingStranded
  <1> SUFFICES ASSUME Settled, NEW p \in Leaves, NEW i \in DOMAIN pages[p].keys
               PROVE  LeafFor(pages[p].keys[i]) = p
    BY DEF NothingStranded
  <1>1. PICK own \in Seq(SUBSET Keys) : OwnInv(own)
    BY DEF IInv
  <1>2. p \in DOMAIN pages /\ IsLeaf(pages[p]) /\ pages \in Seq(Nodes)
    BY DEF Leaves, IInv, TypeOK
  <1>3. root # Nothing
    BY <1>1, <1>2 DEF OwnInv
  <1>4. Tree(pages, own, root) /\ Len(own) = Len(pages)
    BY <1>1, <1>3 DEF OwnInv, InTree
  <1>5. PICK n \in Nat : n = Len(own) /\ DOMAIN own = 1..n /\ n = Len(pages)
    BY <1>4
  <1>6. p \in 1..n
    BY <1>2, <1>5
  <1>7. NodeFor(pages[p], own[p])
    BY <1>4, <1>5, <1>6, TreePages
  <1>8. pages[p].keys[i] \in own[p]
    <2>1. pages[p] \in Nodes
      BY <1>2
    <2>2. pages[p].keys \in Seq(Keys)
      BY <2>1 DEF Nodes
    <2>3. i \in 1..Valid(pages[p])
      BY <1>2, <2>2 DEF Valid, Count
    <2>4. QED
      BY <1>7, <2>3 DEF NodeFor
  <1>9. QED
    BY <1>2, <1>4, <1>5, <1>6, <1>8, WalkEnds

(* Splits in BTree::insert strand nothing while one thread works on the      *)
(* tree: whenever no insert is between a split and its separator, every page *)
(* hangs below the root and every key is in the leaf where the walk for it   *)
(* ends.                                                                     *)
THEOREM NothingStrandedHolds == OneThread => (Spec => []NothingStranded)
  <1> SUFFICES ASSUME OneThread PROVE Spec => []NothingStranded
    OBVIOUS
  <1>1. IInv => NothingStranded
    BY NothingStrandedOfInv
  <1>2. Spec => []IInv
    BY Invariant
  <1>3. QED
    BY <1>1, <1>2, PTL

(* Every page that exists, hung into the tree or not, is a node for keys.    *)
LEMMA EveryPage ==
    ASSUME OneThread, IInv, NEW p \in DOMAIN pages
    PROVE  \E o \in SUBSET Keys : NodeFor(pages[p], o)
  <1>1. PICK own \in Seq(SUBSET Keys) : OwnInv(own)
    BY DEF IInv
  <1>2. pages \in Seq(Nodes) /\ thread \in [Threads -> Standing]
    BY DEF IInv, TypeOK
  <1>3. root # Nothing
    BY <1>1, <1>2 DEF OwnInv
  <1>4. Tree(pages, own, root) /\ Len(own) = InTree
    BY <1>1, <1>3 DEF OwnInv
  <1>5. PICK n \in Nat : n = Len(own) /\ DOMAIN own = 1..n
    BY <1>4
  <1>6. CASE p \in 1..n
    <2>1. own[p] \in SUBSET Keys /\ NodeFor(pages[p], own[p])
      BY <1>4, <1>5, <1>6, TreePages
    <2>2. QED
      BY <2>1
  <1>7. CASE p \notin 1..n
    <2>1. p \in 1..Len(pages) /\ Len(pages) \in Nat
      BY <1>2
    <2>2. ~Settled /\ p = n + 1
      BY <1>4, <1>5, <1>7, <2>1 DEF InTree
    <2>3. PICK t \in Threads : thread[t].pc = "split"
      BY <2>2 DEF Settled
    <2>4. PICK th : th = thread[t] /\ th.pc = "split" /\ Stands(th, own)
      BY <1>1, <2>3 DEF OwnInv
    <2>5. HasSplit(th, own) /\ AtLeaf(th, own)
      BY <2>4 DEF Stands
    <2>6. NodeFor(pages[n + 1], {k \in own[th.child] : k > th.separator})
      BY <1>5, <2>5 DEF HasSplit
    <2>7. own[th.child] \in SUBSET Keys
      BY <2>5 DEF AtLeaf
    <2>8. QED
      BY <2>2, <2>6, <2>7
  <1>8. QED
    BY <1>6, <1>7

(* Binary search finds the lower bound in every page of a tree.              *)
LEMMA SearchOfInv ==
    ASSUME OneThread, IInv
    PROVE  SearchIsLowerBound
  <1> SUFFICES ASSUME NEW p \in DOMAIN pages, NEW key \in Keys, NEW node, node = pages[p],
                      NEW n, n = IF IsLeaf(node) THEN Count(node) ELSE Count(node) - 1,
                      NEW i, i = LowerBound(node.keys, n, key)
               PROVE  i \in 0..n /\ \A j \in 1..n : j <= i <=> node.keys[j] < key
    BY DEF SearchIsLowerBound
  <1>1. PICK o \in SUBSET Keys : NodeFor(node, o)
    BY EveryPage
  <1>2. n = Valid(node)
    BY DEF Valid
  <1>3. /\ n \in Nat /\ n <= Len(node.keys) /\ node.keys \in Seq(Keys)
    BY <1>1, <1>2, KeysInOrder
  <1>4. Increasing(node.keys, n)
    BY <1>1, <1>2 DEF NodeFor
  <1>5. Keys \subseteq Nat
    BY BTreeAssumption
  <1>6. node.keys \in Seq(Nat) /\ Ordered(node.keys, n)
    BY <1>3, <1>4, <1>5, IncreasingOrdered
  <1>7. Cut(node.keys, key, 0, n, i)
    BY <1>3, <1>5, <1>6, LowerBoundCuts
  <1>8. QED
    BY <1>3, <1>7 DEF Cut

(* The binary searches of InnerNode::lower_bound and LeafNode::lower_bound   *)
(* find the first key that is not less than the one looked for, in every     *)
(* node that one thread's splits, insertions and erasures can make.          *)
THEOREM SearchIsLowerBoundHolds == OneThread => (Spec => []SearchIsLowerBound)
  <1> SUFFICES ASSUME OneThread PROVE Spec => []SearchIsLowerBound
    OBVIOUS
  <1>1. IInv => SearchIsLowerBound
    BY SearchOfInv
  <1>2. Spec => []IInv
    BY Invariant
  <1>3. QED
    BY <1>1, <1>2, PTL

------------------------------------------------------------------------------
(***************************************************************************)
(* The tree is a map.  Two facts about its pages make it one: every leaf   *)
(* is a leaf for some keys, and no two of them hold the same key.          *)
(***************************************************************************)
MapOf(pg) ==
    [key \in Keys |->
        LET where == {p \in {q \in DOMAIN pg : IsLeaf(pg[q])} : key \in ToSet(pg[p].keys)}
        IN  IF where = {} THEN Nothing
            ELSE ValueIn(pg[CHOOSE p \in where : TRUE], key, Nothing)]

Sound(pg) ==
    /\ \A p \in DOMAIN pg : IsLeaf(pg[p]) => \E o \in SUBSET Keys : NodeFor(pg[p], o)
    /\ \A p, q \in DOMAIN pg : \A x, v, w :
          IsLeaf(pg[p]) /\ IsLeaf(pg[q]) /\ Holds(pg[p], x, v) /\ Holds(pg[q], x, w) => p = q

(* The map has the value that is stored, and none if none is.                *)
MapHas(pg, x) ==
    /\ \A v : Stored(pg, x, v) => MapOf(pg)[x] = v
    /\ (\A v : ~Stored(pg, x, v)) => MapOf(pg)[x] = Nothing

(* The map of sound pages has, for each key, the value stored under it, and  *)
(* nothing where none is stored.                                             *)
LEMMA MapOfStored ==
    ASSUME NEW pg, Sound(pg), NEW x \in Keys
    PROVE  MapHas(pg, x)
  <1> DEFINE where == {p \in {q \in DOMAIN pg : IsLeaf(pg[q])} : x \in ToSet(pg[p].keys)}
             at == CHOOSE p \in where : TRUE
  <1>1. MapOf(pg)[x] = IF where = {} THEN Nothing ELSE ValueIn(pg[at], x, Nothing)
    BY DEF MapOf
  <1>2. x \in Nat
    BY BTreeAssumption
  <1>3. ASSUME NEW p \in DOMAIN pg, IsLeaf(pg[p])
        PROVE  /\ \A v : Holds(pg[p], x, v) => ValueIn(pg[p], x, Nothing) = v
               /\ x \in ToSet(pg[p].keys) <=> \E v : Holds(pg[p], x, v)
    <2>1. PICK o \in SUBSET Keys : NodeFor(pg[p], o)
      BY <1>3 DEF Sound
    <2>2. QED
      BY <1>2, <1>3, <2>1, LeafLookup
  <1>4. ASSUME NEW v, Stored(pg, x, v) PROVE MapOf(pg)[x] = v
    <2>1. PICK p \in DOMAIN pg : IsLeaf(pg[p]) /\ Holds(pg[p], x, v)
      BY <1>4 DEF Stored
    <2>2. p \in where
      BY <1>3, <2>1
    <2>3. at \in where
      BY <2>2
    <2>4. at \in DOMAIN pg /\ IsLeaf(pg[at]) /\ x \in ToSet(pg[at].keys)
      BY <2>3
    <2> HIDE DEF at
    <2>5. PICK w : Holds(pg[at], x, w)
      BY <1>3, <2>4
    <2>6. at = p
      BY <2>1, <2>4, <2>5 DEF Sound
    <2>7. ValueIn(pg[p], x, Nothing) = v
      BY <1>3, <2>1
    <2>8. QED
      BY <1>1, <2>2, <2>6, <2>7
  <1>5. ASSUME \A v : ~Stored(pg, x, v) PROVE MapOf(pg)[x] = Nothing
    <2>1. ASSUME NEW p \in where PROVE FALSE
      <3>1. p \in DOMAIN pg /\ IsLeaf(pg[p]) /\ x \in ToSet(pg[p].keys)
        BY <2>1
      <3>2. PICK v : Holds(pg[p], x, v)
        BY <1>3, <3>1
      <3>3. QED
        BY <1>5, <3>1, <3>2 DEF Stored
    <2>2. where = {}
      BY <2>1
    <2>3. QED
      BY <1>1, <2>2
  <1>6. QED
    BY <1>4, <1>5 DEF MapHas

(* Pages that store the same are the same map.                               *)
LEMMA SameMap ==
    ASSUME NEW pg, NEW pg2, Sound(pg), Sound(pg2), StoredSame(pg, pg2)
    PROVE  MapOf(pg2) = MapOf(pg)
  <1>1. ASSUME NEW x \in Keys PROVE MapOf(pg2)[x] = MapOf(pg)[x]
    <2>1. MapHas(pg, x) /\ MapHas(pg2, x)
      BY MapOfStored
    <2>2. QED
      BY <2>1 DEF MapHas, StoredSame
  <1>2. QED
    BY <1>1 DEF MapOf

(* A value that comes under a key, in the place of what was there.           *)
LEMMA MapWith ==
    ASSUME NEW pg, NEW pg2, Sound(pg), Sound(pg2), NEW key \in Keys, NEW value,
           StoredWith(pg, pg2, key, value)
    PROVE  MapOf(pg2) = [MapOf(pg) EXCEPT ![key] = value]
  <1>1. ASSUME NEW x \in Keys
        PROVE  MapOf(pg2)[x] = IF x = key THEN value ELSE MapOf(pg)[x]
    <2>1. MapHas(pg, x) /\ MapHas(pg2, x)
      BY MapOfStored
    <2>2. CASE x = key
      <3>1. Stored(pg2, x, value)
        BY <2>2 DEF StoredWith
      <3>2. QED
        BY <2>1, <2>2, <3>1 DEF MapHas
    <2>3. CASE x # key
      BY <2>1, <2>3 DEF MapHas, StoredWith
    <2>4. QED
      BY <2>2, <2>3
  <1>2. /\ MapOf(pg) = [x \in Keys |-> MapOf(pg)[x]]
        /\ MapOf(pg2) = [x \in Keys |-> MapOf(pg2)[x]]
    BY DEF MapOf
  <1>3. QED
    BY <1>1, <1>2

(* A key that goes.                                                          *)
LEMMA MapWithout ==
    ASSUME NEW pg, NEW pg2, Sound(pg), Sound(pg2), NEW key \in Keys,
           StoredWithout(pg, pg2, key)
    PROVE  MapOf(pg2) = [MapOf(pg) EXCEPT ![key] = Nothing]
  <1>1. ASSUME NEW x \in Keys
        PROVE  MapOf(pg2)[x] = IF x = key THEN Nothing ELSE MapOf(pg)[x]
    <2>1. MapHas(pg, x) /\ MapHas(pg2, x)
      BY MapOfStored
    <2>2. CASE x = key
      BY <2>1, <2>2 DEF MapHas, StoredWithout
    <2>3. CASE x # key
      BY <2>1, <2>3 DEF MapHas, StoredWithout
    <2>4. QED
      BY <2>2, <2>3
  <1>2. /\ MapOf(pg) = [x \in Keys |-> MapOf(pg)[x]]
        /\ MapOf(pg2) = [x \in Keys |-> MapOf(pg2)[x]]
    BY DEF MapOf
  <1>3. QED
    BY <1>1, <1>2

(* Leaves for different keys hold different keys.                            *)
LEMMA SoundBy ==
    ASSUME NEW pg, NEW for,
           \A p \in DOMAIN pg : IsLeaf(pg[p]) => for[p] \in SUBSET Keys /\ NodeFor(pg[p], for[p]),
           \A p, q \in DOMAIN pg :
              IsLeaf(pg[p]) /\ IsLeaf(pg[q]) /\ p # q => for[p] \cap for[q] = {}
    PROVE  Sound(pg)
  <1>1. ASSUME NEW p \in DOMAIN pg, IsLeaf(pg[p]), NEW x, NEW v, Holds(pg[p], x, v)
        PROVE  x \in for[p]
    <2>1. PICK i \in 1..Count(pg[p]) : pg[p].keys[i] = x
      BY <1>1 DEF Holds
    <2>2. i \in 1..Valid(pg[p]) /\ NodeFor(pg[p], for[p])
      BY <1>1, <2>1 DEF Valid
    <2>3. QED
      BY <2>1, <2>2 DEF NodeFor
  <1>2. ASSUME NEW p \in DOMAIN pg, NEW q \in DOMAIN pg, NEW x, NEW v, NEW w,
               IsLeaf(pg[p]), IsLeaf(pg[q]), Holds(pg[p], x, v), Holds(pg[q], x, w)
        PROVE  p = q
    <2>1. x \in for[p] /\ x \in for[q]
      BY <1>1, <1>2
    <2>2. p # q => for[p] \cap for[q] = {}
      BY <1>2
    <2>3. QED
      BY <2>1, <2>2
  <1>3. \A p \in DOMAIN pg : IsLeaf(pg[p]) => \E o \in SUBSET Keys : NodeFor(pg[p], o)
    OBVIOUS
  <1>4. QED
    BY <1>2, <1>3 DEF Sound

(* The pages of a tree are sound, and so are those of a tree with a split    *)
(* leaf: the two halves have no key in common.                               *)
LEMMA SoundOfInv ==
    ASSUME OneThread, IInv
    PROVE  Sound(pages)
  <1>1. PICK own \in Seq(SUBSET Keys) : OwnInv(own)
    BY DEF IInv
  <1>2. pages \in Seq(Nodes) /\ DOMAIN pages = 1..Len(pages)
    BY DEF IInv, TypeOK
  <1>3. CASE root = Nothing
    <2>1. DOMAIN pages = {}
      BY <1>1, <1>3 DEF OwnInv
    <2>2. QED
      BY <2>1 DEF Sound
  <1>4. CASE root # Nothing /\ Settled
    <2>1. Tree(pages, own, root) /\ Len(own) = Len(pages)
      BY <1>1, <1>4 DEF OwnInv, InTree
    <2>a. PICK n \in Nat : n = Len(own) /\ DOMAIN own = 1..n
      OBVIOUS
    <2>2. DOMAIN own = 1..n /\ DOMAIN pages = 1..n
      BY <1>2, <2>1, <2>a
    <2>3. \A p \in 1..n : own[p] \in SUBSET Keys /\ NodeFor(pages[p], own[p])
      BY <2>1, <2>2, TreePages
    <2>4. \A p, q \in 1..n : IsLeaf(pages[p]) /\ IsLeaf(pages[q]) /\ p # q =>
             own[p] \cap own[q] = {}
      BY <2>1, <2>2, TreePages DEF IsLeaf
    <2>5. QED
      BY <2>2, <2>3, <2>4, SoundBy
  <1>5. CASE root # Nothing /\ ~Settled
    <2>1. PICK t \in Threads : thread[t].pc = "split"
      BY <1>5 DEF Settled
    <2>2. PICK own2, th : OneInv(own2, t, th)
      BY InvOfOne
    <2>3. th.pc = "split"
      BY <2>1, <2>2 DEF OneInv
    <2>4. PICK n, c, low, high : SplitLeafOf(own2, th, n, c, low, high)
      BY <2>2, <2>3, OnSplitLeaf
    <2>5. /\ n \in Nat /\ c \in 1..n /\ Len(pages) = n + 1 /\ DOMAIN own2 = 1..n
          /\ own2[c] \in SUBSET Keys /\ Tree(pages, own2, root) /\ IsLeaf(pages[c])
          /\ low = {k \in own2[c] : k <= th.separator}
          /\ high = {k \in own2[c] : k > th.separator}
          /\ th.separator \in low
          /\ NodeFor(pages[c], low) /\ NodeFor(pages[n + 1], high)
      BY <2>4 DEF SplitLeafOf
    <2>a. \A p \in 1..n : own2[p] \in SUBSET Keys /\ NodeFor(pages[p], own2[p])
      BY <2>5, TreePages
    <2>b. \A p, q \in 1..n : p # q /\ pages[p].level = pages[q].level =>
             own2[p] \cap own2[q] = {}
      BY <2>5, TreePages
    <2>6. /\ \A p \in 1..n : own2[p] \in SUBSET Keys /\ NodeFor(pages[p], own2[p])
          /\ \A p, q \in 1..n : IsLeaf(pages[p]) /\ IsLeaf(pages[q]) /\ p # q =>
               own2[p] \cap own2[q] = {}
      BY <2>a, <2>b DEF IsLeaf
    <2>7. low \subseteq own2[c] /\ high \subseteq own2[c] /\ low \cap high = {}
      <3>1. \A k \in own2[c] : k \in Nat
        BY <2>5, BTreeAssumption
      <3>2. QED
        BY <2>5, <3>1
    <2> DEFINE for == [p \in 1..(n + 1) |-> IF p = c THEN low
                                            ELSE IF p = n + 1 THEN high ELSE own2[p]]
    <2>8. for[c] = low /\ for[n + 1] = high /\ \A p \in 1..n : p # c => for[p] = own2[p]
      BY <2>5
    <2> HIDE DEF for
    <2>9. \A p \in 1..(n + 1) : p = n + 1 \/ p \in 1..n
      BY <2>5
    <2>10. ASSUME NEW p \in 1..(n + 1)
           PROVE  for[p] \in SUBSET Keys /\ NodeFor(pages[p], for[p])
      BY <2>5, <2>6, <2>7, <2>8, <2>9
    <2>11. ASSUME NEW p \in 1..(n + 1), NEW q \in 1..(n + 1), p # q,
                  IsLeaf(pages[p]), IsLeaf(pages[q])
           PROVE  for[p] \cap for[q] = {}
      <3>1. CASE p \in 1..n /\ q \in 1..n
        <4>1. own2[p] \cap own2[q] = {}
          BY <2>6, <2>11, <3>1
        <4>2. for[p] \subseteq own2[p] /\ for[q] \subseteq own2[q]
          BY <2>7, <2>8, <3>1
        <4>3. QED
          BY <4>1, <4>2
      <3>2. ASSUME NEW r \in 1..n, IsLeaf(pages[r]) PROVE for[r] \cap for[n + 1] = {}
        <4>1. CASE r = c
          BY <2>7, <2>8, <4>1
        <4>2. CASE r # c
          <5>1. own2[r] \cap own2[c] = {} /\ for[r] = own2[r]
            BY <2>5, <2>6, <2>8, <3>2, <4>2
          <5>2. QED
            BY <2>7, <2>8, <5>1
        <4>3. QED
          BY <4>1, <4>2
      <3>3. (p = n + 1 /\ q \in 1..n) \/ (q = n + 1 /\ p \in 1..n) \/ (p \in 1..n /\ q \in 1..n)
        BY <2>9, <2>11
      <3>4. QED
        BY <2>11, <3>1, <3>2, <3>3
    <2>12. DOMAIN pages = 1..(n + 1)
      BY <1>2, <2>5
    <2>13. QED
      BY <2>10, <2>11, <2>12, SoundBy
  <1>6. QED
    BY <1>3, <1>4, <1>5

(* The variables of KeyMap.                                                  *)
Calls == [u \in Threads |-> CallOf(u)]

MapVars == <<Contents, Calls, answer>>

(* A step that is one of the map's, or leaves what the map sees, implements  *)
(* the map.                                                                  *)
LEMMA StepOfMap ==
    ASSUME \/ Map!Next
           \/ Contents' = Contents /\ Calls' = Calls /\ answer' = answer
    PROVE  [Map!Next]_MapVars
  BY DEF MapVars

(* What the pages contain depends on the pages alone.                        *)
LEMMA ContentsIs == Contents = MapOf(pages) /\ Contents' = MapOf(pages')
  BY DEF Contents, MapOf, Leaves

(* A step within a call that leaves the map as it is implements a stutter of *)
(* the map.                                                                  *)
LEMMA CallGoesOn ==
    ASSUME TypeOK, NEW t \in Threads, NEW th, th = thread[t], NEW th2,
           thread' = [thread EXCEPT ![t] = th2], th.pc # "idle", th2.pc # "idle",
           th2.op = th.op, th2.key = th.key, th2.value = th.value, answer' = answer,
           MapOf(pages') = MapOf(pages)
    PROVE  [Map!Next]_MapVars
  <1>1. \A u \in Threads : thread'[u] = IF u = t THEN th2 ELSE thread[u]
    BY DEF TypeOK
  <1>2. ASSUME NEW u \in Threads PROVE CallOf(u)' = CallOf(u)
    BY <1>1 DEF CallOf
  <1>3. Calls' = Calls
    BY <1>2 DEF Calls
  <1>4. QED
    BY <1>3, ContentsIs, StepOfMap

(* A step that returns from its call and changes the map by it implements    *)
(* the return of that call.                                                  *)
LEMMA CallReturns ==
    ASSUME TypeOK, NEW t \in Threads, NEW th, th = thread[t],
           thread' = [thread EXCEPT ![t] = Idle], th.pc # "idle", th.op # "none",
           answer' = IF th.op = "lookup" THEN <<th.key, MapOf(pages)[th.key]>> ELSE answer,
           MapOf(pages') = IF th.op = "lookup" THEN MapOf(pages)
                           ELSE [MapOf(pages) EXCEPT ![th.key] = th.value]
    PROVE  [Map!Next]_MapVars
  <1>1. \A u \in Threads : thread'[u] = IF u = t THEN Idle ELSE thread[u]
    BY DEF TypeOK
  <1>2. CallOf(t)' = Map!NoCall
    BY <1>1 DEF CallOf, Map!NoCall, Idle
  <1>3. \A u \in Threads : u # t => CallOf(u)' = CallOf(u)
    BY <1>1 DEF CallOf
  <1>4. Calls' = [Calls EXCEPT ![t] = Map!NoCall]
    BY <1>2, <1>3 DEF Calls
  <1>5. Calls[t] = [op |-> th.op, key |-> th.key, value |-> th.value]
    BY DEF Calls, CallOf
  <1>6. Calls[t] # Map!NoCall
    BY <1>5 DEF Map!NoCall
  <1>7. /\ Calls[t] # Map!NoCall
        /\ Calls' = [Calls EXCEPT ![t] = Map!NoCall]
        /\ Contents' = IF Calls[t].op = "lookup" THEN Contents
                       ELSE [Contents EXCEPT ![Calls[t].key] = Calls[t].value]
        /\ answer' = IF Calls[t].op = "lookup" THEN <<Calls[t].key, Contents[Calls[t].key]>>
                     ELSE answer
    BY <1>4, <1>5, <1>6, ContentsIs
  <1>8. Map!Return(t)
    BY <1>7 DEF Calls, Map!Return
  <1>9. QED
    BY <1>8, StepOfMap DEF Map!Next

(* A call that is going on.                                                  *)
LEMMA CallStands ==
    ASSUME OneThread, IInv, NEW t \in Threads, NEW th, th = thread[t], th.pc # "idle"
    PROVE  /\ TypeOK /\ th \in Standing /\ th.key \in Keys /\ th.op # "none"
           /\ th.op = "erase" => th.value = Nothing
  <1>1. PICK own, th2 : OneInv(own, t, th2)
    BY InvOfOne
  <1>2. th2 = th /\ TypeOK /\ th \in Standing /\ Stands(th, own)
    BY <1>1 DEF OneInv
  <1>3. QED
    BY <1>2 DEF Stands

(* A step that only moves the thread on, in the same call, implements a      *)
(* stutter of the map.                                                       *)
LEMMA GoesOn ==
    ASSUME TypeOK, NEW t \in Threads, thread[t].pc # "idle",
           NEW pc, pc # "idle", NEW p, NEW c, Goes(t, pc, p, c), answer' = answer,
           MapOf(pages') = MapOf(pages)
    PROVE  [Map!Next]_MapVars
  <1>1. PICK th : th = thread[t]
    OBVIOUS
  <1>2. th \in Standing
    BY <1>1 DEF TypeOK
  <1>3. PICK th2 : th2 = [th EXCEPT !.pc = pc, !.parent = p, !.child = c]
    OBVIOUS
  <1>4. th2.pc = pc /\ th2.op = th.op /\ th2.key = th.key /\ th2.value = th.value
    BY <1>2, <1>3 DEF Standing
  <1>5. thread' = [thread EXCEPT ![t] = th2]
    BY <1>1, <1>3 DEF Goes, TypeOK
  <1>6. QED
    BY <1>1, <1>4, <1>5, CallGoesOn

(* What a lookup finds in its leaf is what the map has.                      *)
LEMMA LookupAnswers ==
    ASSUME OneThread, IInv, NEW t \in Threads, LookupLeaf(t), Sound(pages)
    PROVE  answer' = <<thread[t].key, MapOf(pages)[thread[t].key]>>
  <1>1. PICK own, th : OneInv(own, t, th)
    BY InvOfOne
  <1>2. PICK c : c = th.child
    OBVIOUS
  <1>3. /\ th = thread[t] /\ th.pc = "leaf"
        /\ answer' = <<th.key, ValueIn(pages[c], th.key, Nothing)>>
    BY <1>1, <1>2 DEF OneInv, LookupLeaf
  <1>4. PICK n \in Nat : /\ c \in 1..n /\ n = Len(pages) /\ pages \in Seq(Nodes)
                         /\ own[c] \in SUBSET Keys /\ IsLeaf(pages[c])
                         /\ NodeFor(pages[c], own[c]) /\ th.key \in own[c]
    <2>1. PICK n, d : AtLeafOf(own, th, n, d)
      BY <1>1, <1>3, OnLeaf
    <2>2. QED
      BY <1>2, <2>1 DEF AtLeafOf
  <1>5. pages[c] \in Nodes /\ pages = [pages EXCEPT ![c] = pages[c]]
    BY <1>4
  <1>6. LeafSwap(pages, pages, c, pages[c], th.key)
    BY <1>1, <1>2, <1>3, <1>4, <1>5, LeafSwapped
  <1>7. \A v : Stored(pages, th.key, v) <=> Holds(pages[c], th.key, v)
    <2>1. LeavesBut(pages, pages, {c})
      BY <1>6 DEF LeafSwap
    <2>2. \A v : Stored(pages, th.key, v) <=>
                    StoredIn(pages, {c}, th.key, v) \/ StoredOut(pages, {c}, th.key, v)
      BY <2>1, StoredParts
    <2>3. QED
      BY <1>6, <2>2 DEF LeafSwap
  <1>8. th.key \in Keys /\ th.key \in Nat
    BY <1>4, BTreeAssumption
  <1>9. MapHas(pages, th.key)
    BY <1>8, MapOfStored
  <1>10. /\ \A v : Holds(pages[c], th.key, v) => ValueIn(pages[c], th.key, Nothing) = v
         /\ (\A v : ~Holds(pages[c], th.key, v)) => ValueIn(pages[c], th.key, Nothing) = Nothing
    BY <1>4, <1>8, LeafLookup
  <1>11. ValueIn(pages[c], th.key, Nothing) = MapOf(pages)[th.key]
    BY <1>7, <1>9, <1>10 DEF MapHas
  <1>12. QED
    BY <1>3, <1>11

(* A call begins, or is answered at once.                                    *)
LEMMA CallOfMap ==
    ASSUME OneThread, IInv, NEW t \in Threads, NEW key \in Keys, NEW op, NEW value,
           \/ op \in {"lookup", "erase"} /\ value = Nothing
           \/ op = "insert" /\ value \in Values,
           Call(t, op, key, value)
    PROVE  [Map!Next]_MapVars
  <1>1. PICK own, th : OneInv(own, t, th)
    BY InvOfOne
  <1>2. TypeOK /\ th = thread[t] /\ th.pc = "idle" /\ pages' = pages
    BY <1>1 DEF OneInv, Call
  <1>3. Contents' = Contents
    BY <1>2, ContentsIs
  <1>4. Calls[t] = Map!NoCall
    BY <1>2 DEF Calls, CallOf, Map!NoCall
  <1>5. CASE root # Nothing \/ op = "insert"
    <2>1. PICK th2 : /\ thread' = [thread EXCEPT ![t] = th2]
                     /\ th2.pc # "idle" /\ th2.op = op /\ th2.key = key /\ th2.value = value
      <3>1. PICK th2 : th2 = [Idle EXCEPT !.op = op, !.key = key, !.value = value, !.parent = root,
                                          !.pc = IF root = Nothing THEN "empty" ELSE "root"]
        OBVIOUS
      <3>2. thread' = [thread EXCEPT ![t] = th2]
        BY <1>5, <3>1 DEF Call
      <3>3. th2.pc # "idle" /\ th2.op = op /\ th2.key = key /\ th2.value = value
        BY <3>1 DEF Idle
      <3>4. QED
        BY <3>2, <3>3
    <2>2. \A u \in Threads : thread'[u] = IF u = t THEN th2 ELSE thread[u]
      BY <1>2, <2>1 DEF TypeOK
    <2>3. CallOf(t)' = [op |-> op, key |-> key, value |-> value]
      BY <2>1, <2>2 DEF CallOf
    <2>4. \A u \in Threads : u # t => CallOf(u)' = CallOf(u)
      BY <2>2 DEF CallOf
    <2>5. Calls' = [Calls EXCEPT ![t] = [op |-> op, key |-> key, value |-> value]]
      BY <2>3, <2>4 DEF Calls
    <2>6. answer' = <<>>
      BY <1>5 DEF Call
    <2>7. Map!Call(t, op, key, value)
      BY <1>3, <1>4, <2>5, <2>6 DEF Calls, Map!Call
    <2>8. QED
      BY <2>7, StepOfMap DEF Map!Next
  <1>6. CASE ~(root # Nothing \/ op = "insert")
    <2>1. \A u \in Threads : thread'[u] = IF u = t THEN Idle ELSE thread[u]
      BY <1>2, <1>6 DEF TypeOK, Call
    <2>2. ASSUME NEW u \in Threads PROVE CallOf(u)' = CallOf(u)
      BY <1>2, <2>1 DEF CallOf, Idle
    <2>3. Calls' = Calls
      BY <2>2 DEF Calls
    <2>4. op \in {"lookup", "erase"}
      BY <1>6
    <2>5. answer' = IF op = "lookup" THEN <<key, Nothing>> ELSE <<>>
      BY <1>6 DEF Call
    <2>6. Contents[key] = Nothing
      <3>1. pages = <<>>
        BY <1>1, <1>6 DEF OneInv
      <3>2. MapOf(pages)[key] = Nothing
        BY <3>1 DEF MapOf
      <3>3. QED
        BY <3>2, ContentsIs
    <2>7. Map!ReturnAtOnce(t, op, key)
      BY <1>3, <1>4, <2>3, <2>5, <2>6 DEF Calls, Map!ReturnAtOnce
    <2>8. QED
      BY <2>4, <2>7, StepOfMap DEF Map!Next
  <1>7. QED
    BY <1>5, <1>6

(* Every step of the tree is a step of the map, or none.                     *)
LEMMA MapStep ==
    ASSUME OneThread, IInv, Sound(pages), Sound(pages'), [Next]_vars
    PROVE  [Map!Next]_MapVars
  <1>1. CASE UNCHANGED vars
    <2>1. pages' = pages /\ thread' = thread /\ answer' = answer
      BY <1>1 DEF vars
    <2>2. Calls' = Calls
      BY <2>1 DEF Calls, CallOf
    <2>3. QED
      BY <2>1, <2>2, ContentsIs, StepOfMap
  <1>2. ASSUME NEW t \in Threads, NEW key \in Keys,
               \/ Call(t, "lookup", key, Nothing)
               \/ Call(t, "erase", key, Nothing)
               \/ \E value \in Values : Call(t, "insert", key, value)
        PROVE  [Map!Next]_MapVars
    BY <1>2, CallOfMap
  <1>3. ASSUME NEW t \in Threads, Step(t)
        PROVE  [Map!Next]_MapVars
    <2>1. PICK th : th = thread[t]
      OBVIOUS
    <2>2. th.pc # "idle"
      BY <1>3, <2>1 DEF Step, CreateRoot, FixRoot, RefixRoot, SplitRoot, EnterRoot, FixChild,
                        SplitChild, Descend, Arrive, LookupLeaf, EraseLeaf, InsertLeaf, SplitLeaf,
                        LinkLeaf
    <2>3. /\ TypeOK /\ th \in Standing /\ th.key \in Keys /\ th.op # "none"
          /\ th.op = "erase" => th.value = Nothing
      BY <2>1, <2>2, CallStands
    <2>4. StoredSame(pages, pages') => MapOf(pages') = MapOf(pages)
      BY SameMap
    <2>5. StoredWith(pages, pages', th.key, th.value) =>
             MapOf(pages') = [MapOf(pages) EXCEPT ![th.key] = th.value]
      BY <2>3, MapWith
    <2>6. CASE CreateRoot(t) \/ InsertLeaf(t) \/ LinkLeaf(t)
      <3>1. StoredWith(pages, pages', th.key, th.value)
        BY <2>1, <2>6, CreateRootStep, InsertLeafStep, LinkLeafStep
      <3>2. th.op = "insert"
        <4>1. PICK own, th2 : OneInv(own, t, th2)
          BY InvOfOne
        <4>2. th2 = th /\ Stands(th, own)
          BY <2>1, <4>1 DEF OneInv
        <4>3. QED
          BY <2>1, <2>6, <4>2 DEF Stands, HasSplit, CreateRoot, InsertLeaf, LinkLeaf
      <3>3. thread' = [thread EXCEPT ![t] = Idle] /\ answer' = answer
        BY <2>6 DEF CreateRoot, InsertLeaf, LinkLeaf, Returns
      <3>4. QED
        BY <2>1, <2>2, <2>3, <2>5, <3>1, <3>2, <3>3, CallReturns
    <2>7. CASE EraseLeaf(t)
      <3>1. StoredWithout(pages, pages', th.key)
        BY <2>1, <2>7, EraseLeafStep
      <3>2. th.op = "erase" /\ thread' = [thread EXCEPT ![t] = Idle] /\ answer' = answer
        BY <2>1, <2>7 DEF EraseLeaf, Returns
      <3>3. MapOf(pages') = [MapOf(pages) EXCEPT ![th.key] = Nothing]
        BY <2>3, <3>1, MapWithout
      <3>4. QED
        BY <2>1, <2>2, <2>3, <3>2, <3>3, CallReturns
    <2>8. CASE LookupLeaf(t)
      <3>1. /\ th.op = "lookup" /\ thread' = [thread EXCEPT ![t] = Idle] /\ pages' = pages
        BY <2>1, <2>8 DEF LookupLeaf, Returns
      <3>2. answer' = <<th.key, MapOf(pages)[th.key]>>
        BY <2>1, <2>8, LookupAnswers
      <3>3. QED
        BY <2>1, <2>2, <2>3, <3>1, <3>2, CallReturns
    <2>9. CASE SplitLeaf(t)
      <3>1. MapOf(pages') = MapOf(pages)
        BY <2>4, <2>9, SplitLeafStep
      <3>2. PICK th2 : th2 = [th EXCEPT !.pc = "split", !.buddy = NextPage,
                                        !.separator = Separator(pages[th.child])]
        OBVIOUS
      <3>3. thread' = [thread EXCEPT ![t] = th2] /\ answer' = answer
        BY <2>1, <2>3, <2>9, <3>2 DEF SplitLeaf, TypeOK
      <3>4. th2.pc # "idle" /\ th2.op = th.op /\ th2.key = th.key /\ th2.value = th.value
        BY <2>3, <3>2 DEF Standing
      <3>5. QED
        BY <2>1, <2>2, <2>3, <3>1, <3>3, <3>4, CallGoesOn
    <2>10. CASE SplitRoot(t) \/ SplitChild(t)
      <3>1. MapOf(pages') = MapOf(pages) /\ answer' = answer
        BY <2>4, <2>10, SplitRootStep, SplitChildStep DEF SplitRoot, SplitChild
      <3>2. \E pc \in {"inner root", "inner"} : \E p, c : Goes(t, pc, p, c)
        BY <2>10 DEF SplitRoot, SplitChild
      <3>3. QED
        BY <2>1, <2>2, <2>3, <3>1, <3>2, GoesOn
    <2>11. CASE FixRoot(t) \/ RefixRoot(t) \/ EnterRoot(t) \/ FixChild(t) \/ Descend(t) \/ Arrive(t)
      <3>1. pages' = pages /\ answer' = answer
        BY <2>11 DEF FixRoot, RefixRoot, EnterRoot, FixChild, Descend, Arrive
      <3>2. \E pc \in {"leaf", "refix", "inner root", "child", "arrived", "inner"} :
               \E p, c : Goes(t, pc, p, c)
        BY <2>11 DEF FixRoot, RefixRoot, EnterRoot, FixChild, Descend, Arrive
      <3>3. QED
        BY <2>1, <2>2, <2>3, <3>1, <3>2, GoesOn
    <2>12. QED
      BY <1>3, <2>6, <2>7, <2>8, <2>9, <2>10, <2>11 DEF Step
  <1>4. QED
    BY <1>1, <1>2, <1>3 DEF Next

(* A new tree is an empty map, with no call running.                         *)
LEMMA MapInit ==
    ASSUME Init
    PROVE  Map!Init
  <1>1. pages = <<>> /\ answer = <<>> /\ \A t \in Threads : thread[t].pc = "idle"
    BY DEF Init, Idle
  <1>2. MapOf(pages) = [key \in Keys |-> Nothing]
    BY <1>1 DEF MapOf
  <1>3. \A t \in Threads : CallOf(t) = Map!NoCall
    BY <1>1 DEF CallOf, Map!NoCall
  <1>4. QED
    BY <1>1, <1>2, <1>3, ContentsIs DEF Map!Init

(* A B+-tree that one thread works on implements a map (KeyMap): every       *)
(* BTree::lookup returns the value that the last insert of its key stored,   *)
(* or none if there was none or the key was erased since, and each insert    *)
(* and erase changes the one key, at one step between its call and its       *)
(* return.                                                                   *)
THEOREM ImplementsMapHolds == OneThread => (Spec => ImplementsMap)
  <1> SUFFICES ASSUME OneThread PROVE Spec => ImplementsMap
    OBVIOUS
  <1>1. Init => Map!Init
    BY MapInit
  <1>2. IInv => Sound(pages)
    BY SoundOfInv
  <1>3. IInv /\ Sound(pages) /\ Sound(pages)' /\ [Next]_vars
          => [Map!Next]_<<Contents, [t \in Threads |-> CallOf(t)], answer>>
    <2> SUFFICES ASSUME IInv, Sound(pages), Sound(pages'), [Next]_vars
                 PROVE  [Map!Next]_<<Contents, [t \in Threads |-> CallOf(t)], answer>>
      OBVIOUS
    <2>1. [Map!Next]_MapVars
      BY MapStep
    <2>2. QED
      BY <2>1 DEF MapVars, Calls
  <1>4. Spec => []IInv
    BY Invariant
  <1>5. QED
    BY <1>1, <1>2, <1>3, <1>4, PTL DEF Spec, ImplementsMap, Map!Spec

------------------------------------------------------------------------------
(* What a thread has fixed, for any number of threads: a step of one of them *)
(* leaves the pages of the others alone.                                     *)
LEMMA HeldBy ==
    ASSUME HeldInv, NEW t \in Threads, NEW th2, IsThread(th2),
           thread' = [thread EXCEPT ![t] = th2],
           \A h \in held' : \/ h \in held /\ h.thread # t
                            \/ h.thread = t /\ h.page \in Fixed(th2)
    PROVE  HeldInv'
  <1>1. DOMAIN thread = Threads
    BY DEF HeldInv
  <1>2. \A u \in Threads : thread'[u] = IF u = t THEN th2 ELSE thread[u]
    BY <1>1
  <1>3. thread' = [u \in Threads |-> thread'[u]]
    BY <1>1, <1>2
  <1>4. \A u \in Threads : IsThread(thread'[u])
    BY <1>2 DEF HeldInv
  <1>5. ASSUME NEW h \in held' PROVE h.thread \in Threads /\ h.page \in Fixed(thread'[h.thread])
    <2>1. CASE h \in held /\ h.thread # t
      BY <1>2, <2>1 DEF HeldInv
    <2>2. CASE h.thread = t /\ h.page \in Fixed(th2)
      BY <1>2, <2>2
    <2>3. QED
      BY <2>1, <2>2
  <1>6. QED
    BY <1>3, <1>4, <1>5 DEF HeldInv

(* The thread goes on to pc, with parent p and child c.                      *)
Moved(th, th2, pc, p, c) ==
    /\ IsThread(th2) /\ th2 = [th EXCEPT !.pc = pc, !.parent = p, !.child = c]
    /\ th2.pc = pc /\ th2.parent = p /\ th2.child = c

(* A thread is a record of these fields.                                     *)
Fields(S) ==
    [pc : S, op : S, key : S, value : S, parent : S, child : S, buddy : S, separator : S]

(* A thread is a record of its fields, whatever values they have.            *)
LEMMA FieldsAre ==
    ASSUME NEW th, IsThread(th), NEW T
    PROVE  \E S : T \subseteq S /\ th \in Fields(S)
  <1>1. PICK a1, a2, a3, a4, a5, a6, a7, a8 :
           th = [pc |-> a1, op |-> a2, key |-> a3, value |-> a4, parent |-> a5, child |-> a6,
                 buddy |-> a7, separator |-> a8]
    BY DEF IsThread
  <1>2. PICK S : S = T \cup {a1, a2, a3, a4, a5, a6, a7, a8}
    OBVIOUS
  <1>3. th \in Fields(S)
    BY <1>1, <1>2 DEF Fields
  <1>4. QED
    BY <1>2, <1>3

(* A thread that goes on keeps its other fields.                             *)
LEMMA Moves ==
    ASSUME NEW th, IsThread(th), NEW pc, NEW p, NEW c
    PROVE  \E th2 : Moved(th, th2, pc, p, c)
  <1>1. PICK S : {pc, p, c} \subseteq S /\ th \in Fields(S)
    BY FieldsAre
  <1>2. PICK th2 : th2 = [th EXCEPT !.pc = pc, !.parent = p, !.child = c]
    OBVIOUS
  <1>3. pc \in S /\ p \in S /\ c \in S
    BY <1>1
  <1>4. th2 \in Fields(S) /\ th2.pc = pc /\ th2.parent = p /\ th2.child = c
    BY <1>1, <1>2, <1>3 DEF Fields
  <1>5. IsThread(th2)
    BY <1>4 DEF IsThread, Fields
  <1>6. QED
    BY <1>2, <1>4, <1>5 DEF Moved

(* What a thread that goes on to pc may have fixed.                          *)
FixedAt(pc, p, c) ==
    IF pc \in {"inner root", "child"} THEN {p}
    ELSE IF pc \in {"inner", "arrived", "leaf"} THEN {p, c} ELSE {}

(* A step that moves a thread on, and leaves it fixed no more than it may at *)
(* its new place, preserves the invariant about fixed pages.                 *)
LEMMA HeldGoes ==
    ASSUME HeldInv, NEW t \in Threads, NEW pc, NEW p, NEW c, Goes(t, pc, p, c),
           \A h \in held' : h.thread = t => h.page \in FixedAt(pc, p, c),
           \A h \in held' : h.thread # t => h \in held
    PROVE  HeldInv'
  <1>1. PICK th : th = thread[t] /\ IsThread(th)
    BY DEF HeldInv
  <1>2. PICK th2 : Moved(th, th2, pc, p, c)
    BY <1>1, Moves
  <1>3. thread' = [thread EXCEPT ![t] = th2]
    BY <1>1, <1>2 DEF Goes, Moved, HeldInv
  <1>4. \A h \in held' : h.thread = t => h.page \in Fixed(th2)
    BY <1>2 DEF Moved, Fixed, FixedAt
  <1>5. QED
    BY <1>2, <1>3, <1>4, HeldBy DEF Moved

(* A step that unfixes all that the thread has, at its end.                  *)
LEMMA HeldReturns ==
    ASSUME HeldInv, NEW t \in Threads, Returns(t),
           \A h \in held' : h \in held /\ h.thread # t
    PROVE  HeldInv'
  <1>1. IsThread(Idle)
    BY DEF Idle, IsThread
  <1>2. QED
    BY <1>1, HeldBy DEF Returns

(* What is left of the pages a thread had fixed.                             *)
LEMMA HeldAfter ==
    ASSUME HeldInv, NEW t \in Threads
    PROVE  /\ \A h \in held : h.thread = t => h.page \in Fixed(thread[t])
           /\ \A p, e : Fix(t, p, e) => \A h \in held' : h \in held \/ (h.thread = t /\ h.page = p)
           /\ \A ps : Unfix(t, ps) => \A h \in held' : h \in held /\ (h.thread = t => h.page \notin ps)
           /\ \A p, q : Keep(t, p, q) =>
                 \A h \in held' : \/ h \in held /\ (h.thread = t => h.page # q)
                                  \/ h.thread = t /\ h.page = p
  <1>1. \A h \in held : h.thread = t => h.page \in Fixed(thread[t])
    BY DEF HeldInv
  <1>2. ASSUME NEW p, NEW e, Fix(t, p, e), NEW h \in held'
        PROVE  h \in held \/ (h.thread = t /\ h.page = p)
    BY <1>2 DEF Fix
  <1>3. ASSUME NEW ps, Unfix(t, ps), NEW h \in held'
        PROVE  h \in held /\ (h.thread = t => h.page \notin ps)
    BY <1>3 DEF Unfix
  <1>4. ASSUME NEW p, NEW q, Keep(t, p, q), NEW h \in held'
        PROVE  \/ h \in held /\ (h.thread = t => h.page # q)
               \/ h.thread = t /\ h.page = p
    BY <1>4 DEF Keep
  <1>5. QED
    BY <1>1, <1>2, <1>3, <1>4

(* Every step of a call preserves the invariant about fixed pages, whatever  *)
(* the other threads do.                                                     *)
LEMMA HeldStep ==
    ASSUME HeldInv, NEW t \in Threads, Step(t)
    PROVE  HeldInv'
  <1>1. PICK th, p, c : th = thread[t] /\ p = th.parent /\ c = th.child
    OBVIOUS
  <1>2. \A h \in held : h.thread = t => h.page \in Fixed(th)
    BY <1>1, HeldAfter
  <1>3. ASSUME NEW q, NEW e, Fix(t, q, e), NEW h \in held'
        PROVE  h \in held \/ (h.thread = t /\ h.page = q)
    BY <1>3, HeldAfter
  <1>4. ASSUME NEW ps, Unfix(t, ps), NEW h \in held'
        PROVE  h \in held /\ (h.thread = t => h.page \notin ps)
    BY <1>4, HeldAfter
  <1>5. ASSUME NEW q, NEW r, Keep(t, q, r), NEW h \in held'
        PROVE  \/ h \in held /\ (h.thread = t => h.page # r)
               \/ h.thread = t /\ h.page = q
    BY <1>5, HeldAfter
  <1>6. CASE CreateRoot(t)
    <2>1. th.pc = "empty" /\ held' = held /\ Returns(t)
      BY <1>1, <1>6 DEF CreateRoot
    <2>2. \A h \in held : h.thread # t
      BY <1>2, <2>1 DEF Fixed
    <2>3. QED
      BY <2>1, <2>2, HeldReturns
  <1>7. CASE FixRoot(t)
    <2>1. th.pc = "root"
      BY <1>1, <1>7 DEF FixRoot
    <2>2. \A h \in held : h.thread # t
      BY <1>2, <2>1 DEF Fixed
    <2>3. CASE Goes(t, "refix", root, root) /\ held' = held
      <3>1. \A h \in held' : h.thread = t => h.page \in FixedAt("refix", root, root)
        BY <2>2, <2>3
      <3>2. \A h \in held' : h.thread # t => h \in held
        BY <2>3
      <3>3. QED
        BY <2>3, <3>1, <3>2, HeldGoes
    <2>4. ASSUME NEW e, Fix(t, p, e), NEW pc \in {"leaf", "inner root"}, NEW d, Goes(t, pc, p, d)
          PROVE  HeldInv'
      <3>1. \A h \in held' : h \in held \/ (h.thread = t /\ h.page = p)
        BY <1>3, <2>4
      <3>2. \A h \in held' : h.thread = t => h.page \in FixedAt(pc, p, d)
        BY <2>2, <3>1 DEF FixedAt
      <3>3. QED
        BY <2>2, <2>4, <3>1, <3>2, HeldGoes
    <2>5. QED
      BY <1>1, <1>7, <2>3, <2>4 DEF FixRoot
  <1>8. CASE RefixRoot(t)
    <2>1. th.pc = "refix" /\ Fix(t, p, TRUE) /\ Goes(t, "leaf", p, p)
      BY <1>1, <1>8 DEF RefixRoot
    <2>2. \A h \in held : h.thread # t
      BY <1>2, <2>1 DEF Fixed
    <2>3. \A h \in held' : h \in held \/ (h.thread = t /\ h.page = p)
      BY <1>3, <2>1
    <2>4. \A h \in held' : h.thread = t => h.page \in FixedAt("leaf", p, p)
      BY <2>2, <2>3 DEF FixedAt
    <2>5. QED
      BY <2>1, <2>2, <2>3, <2>4, HeldGoes
  <1>9. CASE SplitRoot(t)
    <2>1. PICK on, off : /\ {on, off} = {p, NextPage} /\ Keep(t, on, off)
                         /\ Goes(t, "inner root", on, Nothing)
      BY <1>1, <1>9 DEF SplitRoot
    <2>2. \A h \in held : h.thread = t => h.page = p
      BY <1>1, <1>2, <1>9 DEF SplitRoot, Fixed
    <2>3. \A h \in held' : \/ h \in held /\ (h.thread = t => h.page # off)
                           \/ h.thread = t /\ h.page = on
      BY <1>5, <2>1
    <2>4. \A h \in held' : h.thread = t => h.page = on
      BY <2>1, <2>2, <2>3
    <2>5. \A h \in held' : h.thread = t => h.page \in FixedAt("inner root", on, Nothing)
      BY <2>4 DEF FixedAt
    <2>6. QED
      BY <2>1, <2>3, <2>4, <2>5, HeldGoes
  <1>10. CASE EnterRoot(t)
    <2>1. th.pc = "inner root" /\ held' = held /\ Goes(t, "child", p, ChildFor(pages[p], th.key))
      BY <1>1, <1>10 DEF EnterRoot
    <2>2. \A h \in held : h.thread = t => h.page = p
      BY <1>1, <1>2, <2>1 DEF Fixed
    <2>3. \A h \in held' : h.thread = t => h.page \in FixedAt("child", p, ChildFor(pages[p], th.key))
      BY <2>1, <2>2 DEF FixedAt
    <2>4. QED
      BY <2>1, <2>3, HeldGoes
  <1>11. CASE FixChild(t)
    <2>a. /\ Fix(t, c, th.op = "insert" \/ (th.op = "erase" /\ pages[p].level = 1))
          /\ Goes(t, IF IsLeaf(pages[c]) THEN "arrived" ELSE "inner", p, c)
      BY <1>1, <1>11 DEF FixChild
    <2>1. PICK pc \in {"arrived", "inner"} : Goes(t, pc, p, c)
      BY <2>a
    <2>2. \A h \in held : h.thread = t => h.page = p
      BY <1>1, <1>2, <1>11 DEF FixChild, Fixed
    <2>3. \A h \in held' : h \in held \/ (h.thread = t /\ h.page = c)
      BY <2>a DEF Fix
    <2>4. \A h \in held' : h.thread = t => h.page \in FixedAt(pc, p, c)
      BY <2>1, <2>2, <2>3 DEF FixedAt
    <2>5. QED
      BY <2>1, <2>2, <2>3, <2>4, HeldGoes
  <1>12. CASE SplitChild(t)
    <2>1. PICK on, off : /\ {on, off} = {c, NextPage} /\ Keep(t, on, off)
                         /\ Goes(t, "inner", p, on)
      BY <1>1, <1>12 DEF SplitChild
    <2>2. \A h \in held : h.thread = t => h.page \in {p, c}
      BY <1>1, <1>2, <1>12 DEF SplitChild, Fixed
    <2>3. \A h \in held' : \/ h \in held /\ (h.thread = t => h.page # off)
                           \/ h.thread = t /\ h.page = on
      BY <1>5, <2>1
    <2>4. \A h \in held' : h.thread = t => h.page \in {p, on}
      BY <2>1, <2>2, <2>3
    <2>5. \A h \in held' : h.thread = t => h.page \in FixedAt("inner", p, on)
      BY <2>4 DEF FixedAt
    <2>6. QED
      BY <2>1, <2>3, <2>4, <2>5, HeldGoes
  <1>13. CASE Descend(t)
    <2>1. th.pc = "inner" /\ Unfix(t, {p}) /\ Goes(t, "child", c, ChildFor(pages[c], th.key))
      BY <1>1, <1>13 DEF Descend
    <2>2. \A h \in held : h.thread = t => h.page \in {p, c}
      BY <1>1, <1>2, <2>1 DEF Fixed
    <2>3. \A h \in held' : h \in held /\ (h.thread = t => h.page \notin {p})
      BY <1>4, <2>1
    <2>4. \A h \in held' : h.thread = t => h.page \in FixedAt("child", c, ChildFor(pages[c], th.key))
      BY <2>2, <2>3 DEF FixedAt
    <2>5. QED
      BY <2>1, <2>2, <2>3, <2>4, HeldGoes
  <1>14. CASE Arrive(t)
    <2>1. th.pc = "arrived" /\ Unfix(t, {p}) /\ Goes(t, "leaf", p, c)
      BY <1>1, <1>14 DEF Arrive
    <2>2. \A h \in held : h.thread = t => h.page \in {p, c}
      BY <1>1, <1>2, <2>1 DEF Fixed
    <2>3. \A h \in held' : h \in held /\ (h.thread = t => h.page \notin {p})
      BY <1>4, <2>1
    <2>4. \A h \in held' : h.thread = t => h.page \in FixedAt("leaf", p, c)
      BY <2>2, <2>3 DEF FixedAt
    <2>5. QED
      BY <2>1, <2>2, <2>3, <2>4, HeldGoes
  <1>15. CASE LookupLeaf(t) \/ EraseLeaf(t) \/ InsertLeaf(t)
    <2>1. th.pc = "leaf" /\ Unfix(t, {p, c}) /\ Returns(t)
      BY <1>1, <1>15 DEF LookupLeaf, EraseLeaf, InsertLeaf
    <2>2. \A h \in held : h.thread = t => h.page \in {p, c}
      BY <1>1, <1>2, <2>1 DEF Fixed
    <2>3. \A h \in held' : h \in held /\ (h.thread = t => h.page \notin {p, c})
      BY <1>4, <2>1
    <2>4. QED
      BY <2>1, <2>2, <2>3, HeldReturns
  <1>16. CASE SplitLeaf(t)
    <2>1. PICK th2 : th2 = [th EXCEPT !.pc = "split", !.buddy = NextPage,
                                      !.separator = Separator(pages[c])]
      OBVIOUS
    <2>a. IsThread(th)
      BY <1>1 DEF HeldInv
    <2>b. PICK T : T = {"split", NextPage, Separator(pages[c])}
      OBVIOUS
    <2>c. PICK S : T \subseteq S /\ th \in Fields(S)
      BY <2>a, FieldsAre
    <2>2. {"split", NextPage, Separator(pages[c])} \subseteq S /\ th \in Fields(S)
      BY <2>b, <2>c
    <2>3. "split" \in S /\ NextPage \in S /\ Separator(pages[c]) \in S
      BY <2>2
    <2>4. /\ th2 \in Fields(S) /\ th2.pc = "split" /\ th2.buddy = NextPage
          /\ th2.parent = p /\ th2.child = c
      BY <1>1, <2>1, <2>2, <2>3 DEF Fields
    <2>5. IsThread(th2)
      BY <2>4 DEF IsThread, Fields
    <2>6. thread' = [thread EXCEPT ![t] = th2] /\ Fix(t, NextPage, TRUE) /\ th.pc = "leaf"
      BY <1>1, <1>16, <2>1 DEF SplitLeaf, HeldInv
    <2>7. \A h \in held : h.thread = t => h.page \in {p, c}
      BY <1>1, <1>2, <2>6 DEF Fixed
    <2>8. \A h \in held' : h \in held \/ (h.thread = t /\ h.page = NextPage)
      BY <1>3, <2>6
    <2>9. Fixed(th2) = {p, c, NextPage}
      BY <2>4 DEF Fixed
    <2>10. \A h \in held' : \/ h \in held /\ h.thread # t
                            \/ h.thread = t /\ h.page \in Fixed(th2)
      BY <2>7, <2>8, <2>9
    <2>11. QED
      BY <2>5, <2>6, <2>10, HeldBy
  <1>17. CASE LinkLeaf(t)
    <2>1. th.pc = "split" /\ Unfix(t, {p, c, th.buddy}) /\ Returns(t)
      BY <1>1, <1>17 DEF LinkLeaf
    <2>2. \A h \in held : h.thread = t => h.page \in {p, c, th.buddy}
      BY <1>1, <1>2, <2>1 DEF Fixed
    <2>3. \A h \in held' : h \in held /\ (h.thread = t => h.page \notin {p, c, th.buddy})
      BY <1>4, <2>1
    <2>4. QED
      BY <2>1, <2>2, <2>3, HeldReturns
  <1>18. QED
    BY <1>6, <1>7, <1>8, <1>9, <1>10, <1>11, <1>12, <1>13, <1>14, <1>15, <1>16, <1>17 DEF Step

(* A call fixes nothing yet.                                                 *)
LEMMA HeldCall ==
    ASSUME HeldInv, NEW t \in Threads, NEW op, NEW key, NEW value, Call(t, op, key, value)
    PROVE  HeldInv'
  <1>1. thread[t].pc = "idle" /\ held' = held
    BY DEF Call
  <1>2. \A h \in held : h.thread # t
    BY <1>1 DEF HeldInv, Fixed
  <1>3. PICK th2 : thread' = [thread EXCEPT ![t] = th2] /\ IsThread(th2)
    <2>1. IsThread(Idle)
      BY DEF Idle, IsThread
    <2>2. PICK th3 : th3 = [Idle EXCEPT !.op = op, !.key = key, !.value = value, !.parent = root,
                                        !.pc = IF root = Nothing THEN "empty" ELSE "root"]
      OBVIOUS
    <2>3. IsThread(th3)
      BY <2>2 DEF Idle, IsThread
    <2>4. QED
      BY <2>1, <2>2, <2>3 DEF Call
  <1>4. QED
    BY <1>1, <1>2, <1>3, HeldBy

(* No call of BTree leaves a page fixed when it returns, however many        *)
(* threads work on the tree: what fix_page took is given back on every path  *)
(* of lookup, erase and insert.                                              *)
THEOREM NoPageStaysFixedHolds == Spec => []NoPageStaysFixed
  <1>1. Init => HeldInv
    <2>1. IsThread(Idle)
      BY DEF Idle, IsThread
    <2>2. QED
      BY <2>1 DEF Init, HeldInv
  <1>2. HeldInv /\ [Next]_vars => HeldInv'
    <2> SUFFICES ASSUME HeldInv, [Next]_vars PROVE HeldInv'
      OBVIOUS
    <2>1. CASE UNCHANGED vars
      BY <2>1 DEF vars, HeldInv
    <2>2. CASE Next
      BY <2>2, HeldStep, HeldCall DEF Next
    <2>3. QED
      BY <2>1, <2>2
  <1>3. HeldInv => NoPageStaysFixed
    BY DEF HeldInv, NoPageStaysFixed, Fixed
  <1>4. QED
    BY <1>1, <1>2, <1>3, PTL DEF Spec
==============================================================================
