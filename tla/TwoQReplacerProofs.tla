------------------------- MODULE TwoQReplacerProofs -------------------------
(***************************************************************************)
(* The 2Q replacer keeps table, lists and counters in agreement, chooses   *)
(* the victim that 2Q prescribes and implements Replacer: proved for any   *)
(* finite set of frames.                                                   *)
(***************************************************************************)
EXTENDS TwoQReplacer, ListLemmas

(***************************************************************************)
(* The inductive invariant.  Beside the marks it says what they have to do *)
(* with the pins of the pool, and that the lists are in the order of the   *)
(* calls of Unpin.                                                         *)
(***************************************************************************)
Cold == {f \in Frames : ht[f] = "COLD"}
Hot == {f \in Frames : ht[f] = "HOT"}

(* The frames that can be victimized are the idle ones of the pool. *)
PinsAreTrue ==
    \A f \in Frames : /\ f \in Cold \cup Hot <=> f \in taken /\ pins[f] = 0
                      /\ ht[f] # "NONE" => f \in taken

(* No two frames are in the same order in both lists. *)
Opposite(list, queue) ==
    \A e, f \in Frames : Before(list, e, f) => ~Before(queue, e, f)

HistoryIsTrue ==
    /\ IsInjective(unpinned)
    /\ ToSet(unpinned) = InTable(ht)
    /\ again = {f \in Frames : ht[f] \in {"HOT", "HOT_PINNED"}}
    /\ Opposite(fifo_list, unpinned) /\ Opposite(lru_list, unpinned)

IInv == TypeOK /\ MarksAreTrue /\ PinsAreTrue /\ HistoryIsTrue /\ failed = FALSE

(***************************************************************************)
(* Counting.                                                               *)
(***************************************************************************)

(* Sets of frames are finite. *)
LEMMA FramesFinite ==
    ASSUME NEW A \in SUBSET Frames
    PROVE  IsFiniteSet(A) /\ Cardinality(A) \in Nat /\ Cardinality(A) <= NumPages
           /\ (Cardinality(A) = NumPages => A = Frames)
  BY ReplacerAssumption, FS_Subset, FS_CardinalityType DEF NumPages

(* How many members two sets of frames have that differ in one frame. *)
LEMMA CountOthers ==
    ASSUME NEW A \in SUBSET Frames, NEW B \in SUBSET Frames, NEW f \in Frames,
           \A g \in Frames \ {f} : g \in A <=> g \in B
    PROVE  /\ Cardinality(A) \in Nat /\ Cardinality(B) \in Nat
           /\ (f \in A <=> f \in B) => Cardinality(B) = Cardinality(A)
           /\ f \notin A /\ f \in B => Cardinality(B) = Cardinality(A) + 1
           /\ f \in A /\ f \notin B => Cardinality(B) = Cardinality(A) - 1
  <1>1. IsFiniteSet(A) /\ IsFiniteSet(B)
    BY ReplacerAssumption, FS_Subset
  <1>2. (f \in A <=> f \in B) => A = B
    OBVIOUS
  <1>3. f \notin A /\ f \in B => B = A \cup {f}
    OBVIOUS
  <1>4. f \in A /\ f \notin B => B = A \ {f}
    OBVIOUS
  <1>5. QED
    BY <1>1, <1>2, <1>3, <1>4, FS_CardinalityType, FS_AddElement, FS_RemoveElement

(* Table and lists that hold the same frames have the same size. *)
LEMMA TableHasListSize ==
    ASSUME NEW table \in [Frames -> Hotness],
           NEW list1 \in Seq(Frames), NEW list2 \in Seq(Frames),
           IsInjective(list1), IsInjective(list2),
           ToSet(list1) = {f \in Frames : table[f] \in {"COLD", "COLD_PINNED"}},
           ToSet(list2) = {f \in Frames : table[f] \in {"HOT", "HOT_PINNED"}}
    PROVE  TableMatchesLists(table, list1, list2)
  <1>1. ToSet(list1) \cup ToSet(list2) = InTable(table) /\ ToSet(list1) \cap ToSet(list2) = {}
    BY DEF InTable, Hotness
  <1>2. /\ IsFiniteSet(ToSet(list1)) /\ Cardinality(ToSet(list1)) = Len(list1)
        /\ IsFiniteSet(ToSet(list2)) /\ Cardinality(ToSet(list2)) = Len(list2)
    BY DistinctCount
  <1>3. Cardinality(ToSet(list1) \cap ToSet(list2)) = 0
    BY <1>1, FS_EmptySet
  <1>4. Cardinality(ToSet(list1) \cup ToSet(list2)) =
           Cardinality(ToSet(list1)) + Cardinality(ToSet(list2))
             - Cardinality(ToSet(list1) \cap ToSet(list2))
    BY <1>2, FS_Union
  <1>5. Len(list1) \in Nat /\ Len(list2) \in Nat
    OBVIOUS
  <1>6. Cardinality(InTable(table)) = Len(list1) + Len(list2)
    <2>1. Cardinality(InTable(table)) = Cardinality(ToSet(list1) \cup ToSet(list2))
      BY <1>1
    <2>2. Cardinality(ToSet(list1) \cup ToSet(list2)) = Len(list1) + Len(list2) - 0
      BY <1>2, <1>3, <1>4
    <2>3. Len(list1) + Len(list2) - 0 = Len(list1) + Len(list2)
      BY <1>5
    <2>4. QED
      BY <2>1, <2>2, <2>3
  <1>7. Cardinality(InTable(table)) <= NumPages
    BY FramesFinite DEF InTable
  <1>8. QED
    BY <1>6, <1>7 DEF TableMatchesLists

(* An assertion of a method holds when its own condition does. *)
LEMMA AssertsPass ==
    ASSUME TypeOK, MarksAreTrue, failed = FALSE, TypeOK', MarksAreTrue',
           NEW condition, condition = TRUE, Asserts(condition)
    PROVE  failed' = FALSE
  <1>1. TableMatchesLists(ht, fifo_list, lru_list)
    BY TableHasListSize DEF TypeOK, MarksAreTrue, ListHolds
  <1>2. TableMatchesLists(ht', fifo_list', lru_list')
    BY TableHasListSize DEF TypeOK, MarksAreTrue, ListHolds
  <1>3. QED
    BY <1>1, <1>2 DEF Asserts

(* The counters are the sizes of these sets. *)
LEMMA CountersCount ==
    ASSUME MarksAreTrue
    PROVE  /\ fifo_size = Cardinality(Cold) /\ lru_size = Cardinality(Hot)
           /\ fifo_size = 0 <=> Cold = {}
           /\ lru_size = 0 <=> Hot = {}
           /\ fifo_size \in Nat /\ lru_size \in Nat
  <1>1. fifo_size = Cardinality(Cold) /\ lru_size = Cardinality(Hot)
    BY DEF MarksAreTrue, Cold, Hot
  <1>2. Cold \in SUBSET Frames /\ Hot \in SUBSET Frames
    BY DEF Cold, Hot
  <1>3. QED
    BY <1>1, <1>2, FramesFinite, FS_EmptySet

(***************************************************************************)
(* The frame that Victim finds.                                            *)
(***************************************************************************)

(* The loop stops at the last frame of the list that has the mark. *)
LEMMA ChosenIsLast ==
    ASSUME NEW list \in Seq(Frames), NEW hotness, NEW g \in ToSet(list), ht[g] = hotness
    PROVE  /\ Candidates(list, hotness) # {}
           /\ Chosen(list, hotness) \in ToSet(list)
           /\ ht[Chosen(list, hotness)] = hotness
           /\ \A e \in ToSet(list) : ht[e] = hotness =>
                 e = Chosen(list, hotness) \/ Before(list, e, Chosen(list, hotness))
  <1> DEFINE I == Candidates(list, hotness)
             m == Max(I)
  <1>1. /\ Len(list) \in Nat /\ DOMAIN list = 1..Len(list)
        /\ \A i : i \in I <=> i \in 1..Len(list) /\ ht[list[i]] = hotness
    BY DEF Candidates
  <1>2. PICK j \in 1..Len(list) : list[j] = g
    BY DEF ToSet
  <1>3. I # {} /\ Chosen(list, hotness) = list[m]
    BY <1>1, <1>2 DEF Chosen
  <1> HIDE DEF I
  <1>4. I \subseteq 0..Len(list)
    BY <1>1
  <1>5. m \in I /\ \A i \in I : i <= m
    BY <1>1, <1>3, <1>4, NatMaximum
  <1> HIDE DEF m
  <1>6. list[m] \in ToSet(list) /\ ht[list[m]] = hotness
    BY <1>1, <1>5 DEF ToSet
  <1>7. ASSUME NEW e \in ToSet(list), ht[e] = hotness
        PROVE  e = list[m] \/ Before(list, e, list[m])
    <2>1. PICK i \in 1..Len(list) : list[i] = e
      BY DEF ToSet
    <2>2. i \in I /\ i <= m /\ m \in 1..Len(list)
      BY <1>1, <1>5, <1>7, <2>1
    <2>3. i = m \/ i < m
      BY <1>1, <2>2
    <2>4. QED
      BY <1>1, <2>1, <2>2, <2>3 DEF Before
  <1>8. QED
    BY <1>3, <1>6, <1>7 DEF I

(* A frame that no frame of S was unpinned before is the oldest of S. *)
LEMMA OldestIs ==
    ASSUME unpinned \in Seq(Frames), NEW S, NEW f \in S, f \in ToSet(unpinned),
           \A e \in S : e = f \/ ~Before(unpinned, e, f)
    PROVE  Oldest(S) = f
  <1> DEFINE I == {i \in DOMAIN unpinned : unpinned[i] \in S}
             m == Min(I)
  <1>1. Len(unpinned) \in Nat /\ DOMAIN unpinned = 1..Len(unpinned)
    OBVIOUS
  <1>2. PICK i \in 1..Len(unpinned) : unpinned[i] = f
    BY DEF ToSet
  <1>3. i \in I /\ I \subseteq 1..Len(unpinned) /\ 1..Len(unpinned) \subseteq Nat
    BY <1>1, <1>2
  <1> HIDE DEF I
  <1>4. m \in I /\ m <= i
    BY <1>3, NatMinimum
  <1> HIDE DEF m
  <1>5. m \in 1..Len(unpinned) /\ unpinned[m] \in S
    BY <1>1, <1>4 DEF I
  <1>6. m = i \/ m < i
    BY <1>1, <1>2, <1>4, <1>5
  <1>7. unpinned[m] = f
    BY <1>1, <1>2, <1>5, <1>6 DEF Before
  <1>8. Oldest(S) = unpinned[m]
    BY DEF Oldest, I, m
  <1>9. QED
    BY <1>7, <1>8

(* What Victim finds in the FIFO list, and in the LRU list when that is empty. *)
LEMMA VictimFound ==
    ASSUME IInv, Victim
    PROVE  \/ Idle = {} /\ answer' = NoFrame /\ UNCHANGED <<replacerVars, pins>>
           \/ /\ fifo_size # 0
              /\ Candidates(fifo_list, "COLD") # {} /\ answer' = Chosen(fifo_list, "COLD")
              /\ answer' \in Cold
              /\ \A e \in Cold : e = answer' \/ Before(fifo_list, e, answer')
           \/ /\ fifo_size = 0 /\ Cold = {}
              /\ Candidates(lru_list, "HOT") # {} /\ answer' = Chosen(lru_list, "HOT")
              /\ answer' \in Hot
              /\ \A e \in Hot : e = answer' \/ Before(lru_list, e, answer')
  <1>1. /\ fifo_size = 0 <=> Cold = {}
        /\ lru_size = 0 <=> Hot = {}
        /\ fifo_size \in Nat /\ lru_size \in Nat
    BY CountersCount DEF IInv
  <1>2. Idle = Cold \cup Hot
    BY DEF IInv, PinsAreTrue, Idle, TypeOK, Cold, Hot
  <1>3. /\ fifo_list \in Seq(Frames) /\ lru_list \in Seq(Frames)
        /\ Cold \subseteq ToSet(fifo_list) /\ Hot \subseteq ToSet(lru_list)
        /\ ToSet(fifo_list) \subseteq Frames /\ ToSet(lru_list) \subseteq Frames
    BY DEF IInv, TypeOK, MarksAreTrue, ListHolds, Cold, Hot
  <1>4. CASE fifo_size + lru_size = 0 /\ answer' = NoFrame /\ UNCHANGED <<replacerVars, pins>>
    BY <1>1, <1>2, <1>4
  <1>5. CASE fifo_size # 0 /\ VictimOf(fifo_list, "COLD")
    <2>1. PICK g \in Cold : TRUE
      BY <1>1, <1>5
    <2>2. g \in ToSet(fifo_list) /\ ht[g] = "COLD"
      BY <1>3, <2>1 DEF Cold
    <2>3. /\ Candidates(fifo_list, "COLD") # {}
          /\ Chosen(fifo_list, "COLD") \in ToSet(fifo_list)
          /\ ht[Chosen(fifo_list, "COLD")] = "COLD"
          /\ \A e \in ToSet(fifo_list) : ht[e] = "COLD" =>
                e = Chosen(fifo_list, "COLD") \/ Before(fifo_list, e, Chosen(fifo_list, "COLD"))
      BY <1>3, <2>2, ChosenIsLast
    <2>4. answer' = Chosen(fifo_list, "COLD")
      BY <1>5 DEF VictimOf
    <2>5. QED
      BY <1>3, <1>5, <2>3, <2>4 DEF Cold
  <1>6. CASE fifo_size = 0 /\ lru_size # 0 /\ VictimOf(lru_list, "HOT")
    <2>1. PICK g \in Hot : TRUE
      BY <1>1, <1>6
    <2>2. g \in ToSet(lru_list) /\ ht[g] = "HOT"
      BY <1>3, <2>1 DEF Hot
    <2>3. /\ Candidates(lru_list, "HOT") # {}
          /\ Chosen(lru_list, "HOT") \in ToSet(lru_list)
          /\ ht[Chosen(lru_list, "HOT")] = "HOT"
          /\ \A e \in ToSet(lru_list) : ht[e] = "HOT" =>
                e = Chosen(lru_list, "HOT") \/ Before(lru_list, e, Chosen(lru_list, "HOT"))
      BY <1>3, <2>2, ChosenIsLast
    <2>4. answer' = Chosen(lru_list, "HOT")
      BY <1>6 DEF VictimOf
    <2>5. QED
      BY <1>1, <1>3, <1>6, <2>3, <2>4 DEF Hot
  <1>7. QED
    BY <1>4, <1>5, <1>6 DEF Victim

(***************************************************************************)
(* Victim, Pin and Unpin change the mark of one frame.                     *)
(***************************************************************************)

(* What that does to the number of cold and of hot frames. *)
LEMMA Recount ==
    ASSUME IInv, NEW f \in Frames, ht' \in [Frames -> Hotness],
           \A g \in Frames \ {f} : ht'[g] = ht[g]
    PROVE  /\ Cardinality(Cold') = fifo_size + (IF ht'[f] = "COLD" THEN 1 ELSE 0)
                                             - (IF ht[f] = "COLD" THEN 1 ELSE 0)
           /\ Cardinality(Hot') = lru_size + (IF ht'[f] = "HOT" THEN 1 ELSE 0)
                                           - (IF ht[f] = "HOT" THEN 1 ELSE 0)
           /\ Cardinality(Cold') \in Nat /\ Cardinality(Hot') \in Nat
  <1>1. fifo_size = Cardinality(Cold) /\ lru_size = Cardinality(Hot)
    BY CountersCount DEF IInv
  <1>2. /\ Cold \in SUBSET Frames /\ Cold' \in SUBSET Frames
        /\ Hot \in SUBSET Frames /\ Hot' \in SUBSET Frames
    BY DEF Cold, Hot
  <1>3. /\ \A g \in Frames : g \in Cold <=> ht[g] = "COLD"
        /\ \A g \in Frames : g \in Cold' <=> ht'[g] = "COLD"
        /\ \A g \in Frames : g \in Hot <=> ht[g] = "HOT"
        /\ \A g \in Frames : g \in Hot' <=> ht'[g] = "HOT"
    BY DEF Cold, Hot
  <1>4. /\ Cardinality(Cold) \in Nat /\ Cardinality(Cold') \in Nat
        /\ (f \in Cold <=> f \in Cold') => Cardinality(Cold') = Cardinality(Cold)
        /\ f \notin Cold /\ f \in Cold' => Cardinality(Cold') = Cardinality(Cold) + 1
        /\ f \in Cold /\ f \notin Cold' => Cardinality(Cold') = Cardinality(Cold) - 1
    BY <1>2, <1>3, CountOthers
  <1>5. /\ Cardinality(Hot) \in Nat /\ Cardinality(Hot') \in Nat
        /\ (f \in Hot <=> f \in Hot') => Cardinality(Hot') = Cardinality(Hot)
        /\ f \notin Hot /\ f \in Hot' => Cardinality(Hot') = Cardinality(Hot) + 1
        /\ f \in Hot /\ f \notin Hot' => Cardinality(Hot') = Cardinality(Hot) - 1
    BY <1>2, <1>3, CountOthers
  <1>6. QED
    BY <1>1, <1>3, <1>4, <1>5

(* The lists and the history, as they are without the frame f. *)
ListsBut(f, list1, list2, queue) ==
    /\ list1 \in Seq(Frames) /\ list2 \in Seq(Frames) /\ queue \in Seq(Frames)
    /\ IsInjective(list1) /\ IsInjective(list2) /\ IsInjective(queue)
    /\ ToSet(list1) = {g \in Frames \ {f} : ht[g] \in {"COLD", "COLD_PINNED"}}
    /\ ToSet(list2) = {g \in Frames \ {f} : ht[g] \in {"HOT", "HOT_PINNED"}}
    /\ ToSet(queue) = InTable(ht) \ {f}
    /\ Opposite(list1, queue) /\ Opposite(list2, queue)

(* To erase a frame from two lists in opposite order leaves them so. *)
LEMMA OppositeErased ==
    ASSUME NEW list \in Seq(Frames), NEW queue \in Seq(Frames), Opposite(list, queue), NEW f
    PROVE  Opposite(RemoveFirst(list, f), RemoveFirst(queue, f))
  <1> SUFFICES ASSUME NEW e \in Frames, NEW g \in Frames,
                      Before(RemoveFirst(list, f), e, g), Before(RemoveFirst(queue, f), e, g)
               PROVE  FALSE
    BY DEF Opposite
  <1>1. Before(list, e, g) /\ Before(queue, e, g)
    BY RemoveFirstOrder
  <1>2. QED
    BY <1>1 DEF Opposite

(* So does to queue a frame that is not in the list. *)
LEMMA OppositeQueued ==
    ASSUME NEW list \in Seq(Frames), NEW queue \in Seq(Frames), Opposite(list, queue),
           NEW f \in Frames, f \notin ToSet(list)
    PROVE  Opposite(list, Append(queue, f))
  <1> SUFFICES ASSUME NEW e \in Frames, NEW g \in Frames,
                      Before(list, e, g), Before(Append(queue, f), e, g)
               PROVE  FALSE
    BY DEF Opposite
  <1>1. g # f
    BY DEF Before, ToSet
  <1>2. Before(queue, e, g)
    BY <1>1, AppendOrder
  <1>3. QED
    BY <1>2 DEF Opposite

(* And to queue a frame that is put to the front of the list. *)
LEMMA OppositeAdded ==
    ASSUME NEW list \in Seq(Frames), NEW queue \in Seq(Frames), Opposite(list, queue),
           NEW f \in Frames, f \notin ToSet(list), f \notin ToSet(queue)
    PROVE  Opposite(Cons(f, list), Append(queue, f))
  <1> SUFFICES ASSUME NEW e \in Frames, NEW g \in Frames,
                      Before(Cons(f, list), e, g), Before(Append(queue, f), e, g)
               PROVE  FALSE
    BY DEF Opposite
  <1>1. Before(list, e, g) \/ (e = f /\ g \in ToSet(list))
    BY ConsOrder
  <1>2. Before(queue, e, g) \/ (g = f /\ e \in ToSet(queue))
    BY AppendOrder
  <1>3. Before(list, e, g) => g # f
    BY DEF Before, ToSet
  <1>4. Before(queue, e, g) => e # f
    BY DEF Before, ToSet
  <1>5. QED
    BY <1>1, <1>2, <1>3, <1>4 DEF Opposite

(* All methods that move a frame first erase it. *)
LEMMA ErasedEverywhere ==
    ASSUME IInv, NEW f \in Frames
    PROVE  ListsBut(f, RemoveFirst(fifo_list, f), RemoveFirst(lru_list, f),
                    RemoveFirst(unpinned, f))
  <1>1. /\ fifo_list \in Seq(Frames) /\ lru_list \in Seq(Frames) /\ unpinned \in Seq(Frames)
        /\ IsInjective(fifo_list) /\ IsInjective(lru_list) /\ IsInjective(unpinned)
        /\ ToSet(fifo_list) = {g \in Frames : ht[g] \in {"COLD", "COLD_PINNED"}}
        /\ ToSet(lru_list) = {g \in Frames : ht[g] \in {"HOT", "HOT_PINNED"}}
        /\ ToSet(unpinned) = InTable(ht)
        /\ Opposite(fifo_list, unpinned) /\ Opposite(lru_list, unpinned)
    BY DEF IInv, TypeOK, MarksAreTrue, ListHolds, HistoryIsTrue
  <1> DEFINE list1 == RemoveFirst(fifo_list, f)
             list2 == RemoveFirst(lru_list, f)
             queue == RemoveFirst(unpinned, f)
  <1>2. /\ list1 \in Seq(Frames) /\ IsInjective(list1) /\ ToSet(list1) = ToSet(fifo_list) \ {f}
        /\ list2 \in Seq(Frames) /\ IsInjective(list2) /\ ToSet(list2) = ToSet(lru_list) \ {f}
        /\ queue \in Seq(Frames) /\ IsInjective(queue) /\ ToSet(queue) = ToSet(unpinned) \ {f}
    BY <1>1, RemoveFirstElements
  <1>3. Opposite(list1, queue) /\ Opposite(list2, queue)
    BY <1>1, OppositeErased
  <1> HIDE DEF list1, list2, queue
  <1>4. ListsBut(f, list1, list2, queue)
    BY <1>1, <1>2, <1>3 DEF ListsBut
  <1>5. QED
    BY <1>4 DEF list1, list2, queue

(***************************************************************************)
(* The steps preserve the inductive invariant.                             *)
(***************************************************************************)

(* The marks stay true when the lists follow the table, and so do counters. *)
LEMMA MarksFollow ==
    ASSUME IInv, NEW f \in Frames, ht' \in [Frames -> Hotness],
           \A g \in Frames \ {f} : ht'[g] = ht[g],
           fifo_list' \in Seq(Frames), IsInjective(fifo_list'),
           ToSet(fifo_list') = {g \in Frames : ht'[g] \in {"COLD", "COLD_PINNED"}},
           lru_list' \in Seq(Frames), IsInjective(lru_list'),
           ToSet(lru_list') = {g \in Frames : ht'[g] \in {"HOT", "HOT_PINNED"}},
           fifo_size' = fifo_size + (IF ht'[f] = "COLD" THEN 1 ELSE 0)
                                  - (IF ht[f] = "COLD" THEN 1 ELSE 0),
           lru_size' = lru_size + (IF ht'[f] = "HOT" THEN 1 ELSE 0)
                                - (IF ht[f] = "HOT" THEN 1 ELSE 0)
    PROVE  MarksAreTrue' /\ fifo_size' \in Nat /\ lru_size' \in Nat
  <1>1. /\ fifo_size' = Cardinality(Cold') /\ lru_size' = Cardinality(Hot')
        /\ fifo_size' \in Nat /\ lru_size' \in Nat
    BY Recount
  <1>2. /\ fifo_size' = Cardinality({g \in Frames : ht'[g] = "COLD"})
        /\ lru_size' = Cardinality({g \in Frames : ht'[g] = "HOT"})
    BY <1>1 DEF Cold, Hot
  <1>3. QED
    BY <1>1, <1>2 DEF MarksAreTrue, ListHolds

(* Victim either finds nothing or erases its answer everywhere. *)
LEMMA VictimErases ==
    ASSUME IInv, Victim
    PROVE  \/ UNCHANGED <<replacerVars, taken, pins, history>>
           \/ /\ answer' \in Cold \cup Hot
              /\ ht' = [ht EXCEPT ![answer'] = "NONE"]
              /\ pins' = [pins EXCEPT ![answer'] = 1]
              /\ fifo_list' = RemoveFirst(fifo_list, answer')
              /\ lru_list' = RemoveFirst(lru_list, answer')
              /\ fifo_size' = fifo_size - (IF ht[answer'] = "COLD" THEN 1 ELSE 0)
              /\ lru_size' = lru_size - (IF ht[answer'] = "HOT" THEN 1 ELSE 0)
              /\ Asserts(TRUE)
  <1>1. /\ fifo_list \in Seq(Frames) /\ lru_list \in Seq(Frames) /\ unpinned \in Seq(Frames)
        /\ fifo_size \in Nat /\ lru_size \in Nat
        /\ ToSet(fifo_list) = {g \in Frames : ht[g] \in {"COLD", "COLD_PINNED"}}
        /\ ToSet(lru_list) = {g \in Frames : ht[g] \in {"HOT", "HOT_PINNED"}}
        /\ ToSet(unpinned) \subseteq Frames /\ again \subseteq Frames
    BY DEF IInv, TypeOK, MarksAreTrue, ListHolds, HistoryIsTrue, InTable
  <1>2. CASE Idle = {} /\ answer' = NoFrame /\ UNCHANGED <<replacerVars, pins>>
    <2>1. unpinned' = unpinned
      BY <1>1, <1>2, ReplacerAssumption, RemoveFirstAbsent DEF Victim
    <2>2. again' = again
      BY <1>1, <1>2, ReplacerAssumption DEF Victim
    <2>3. QED
      BY <1>2, <2>1, <2>2 DEF Victim, history
  <1>3. CASE fifo_size # 0 /\ Candidates(fifo_list, "COLD") # {} /\ answer' \in Cold
    <2>1. /\ VictimOf(fifo_list, "COLD") /\ fifo_list' = RemoveFirst(fifo_list, answer')
          /\ fifo_size' = fifo_size - 1 /\ UNCHANGED <<lru_list, lru_size>>
          /\ Asserts(Candidates(fifo_list, "COLD") # {})
      BY <1>1, <1>3 DEF Victim
    <2>2. ht[answer'] = "COLD" /\ answer' \in Frames /\ answer' \notin ToSet(lru_list)
      BY <1>1, <1>3 DEF Cold
    <2>3. lru_list' = RemoveFirst(lru_list, answer')
      BY <1>1, <2>1, <2>2, RemoveFirstAbsent
    <2>4. Asserts(TRUE)
      BY <1>3, <2>1 DEF Asserts
    <2>5. lru_size' = lru_size - 0
      BY <1>1, <2>1
    <2>6. QED
      BY <1>3, <2>1, <2>2, <2>3, <2>4, <2>5 DEF VictimOf
  <1>4. CASE fifo_size = 0 /\ Candidates(lru_list, "HOT") # {} /\ answer' \in Hot
    <2>1. answer' # NoFrame
      BY <1>4, ReplacerAssumption DEF Hot
    <2>2. /\ VictimOf(lru_list, "HOT") /\ lru_list' = RemoveFirst(lru_list, answer')
          /\ lru_size' = lru_size - 1 /\ UNCHANGED <<fifo_list, fifo_size>>
          /\ Asserts(Candidates(lru_list, "HOT") # {})
      BY <1>1, <1>4, <2>1 DEF Victim
    <2>3. ht[answer'] = "HOT" /\ answer' \in Frames /\ answer' \notin ToSet(fifo_list)
      BY <1>1, <1>4 DEF Hot
    <2>4. fifo_list' = RemoveFirst(fifo_list, answer')
      BY <1>1, <2>2, <2>3, RemoveFirstAbsent
    <2>5. Asserts(TRUE)
      BY <1>4, <2>2 DEF Asserts
    <2>6. fifo_size' = fifo_size - 0
      BY <1>1, <2>2
    <2>7. QED
      BY <1>4, <2>2, <2>3, <2>4, <2>5, <2>6 DEF VictimOf
  <1>5. QED
    BY <1>2, <1>3, <1>4, VictimFound

(* A frame that is given away is nowhere. *)
LEMMA VictimStep ==
    ASSUME IInv, Victim
    PROVE  IInv'
  <1>1. CASE UNCHANGED <<replacerVars, taken, pins, history>>
    BY <1>1 DEF replacerVars, history, IInv, TypeOK, MarksAreTrue, ListHolds, PinsAreTrue,
                HistoryIsTrue, Cold, Hot, InTable
  <1>2. CASE ~UNCHANGED <<replacerVars, taken, pins, history>>
    <2>0. PICK f : f = answer'
      OBVIOUS
    <2>1. /\ f \in Frames /\ ht[f] \in {"COLD", "HOT"}
          /\ ht' = [ht EXCEPT ![f] = "NONE"] /\ pins' = [pins EXCEPT ![f] = 1]
          /\ fifo_list' = RemoveFirst(fifo_list, f) /\ lru_list' = RemoveFirst(lru_list, f)
          /\ fifo_size' = fifo_size - (IF ht[f] = "COLD" THEN 1 ELSE 0)
          /\ lru_size' = lru_size - (IF ht[f] = "HOT" THEN 1 ELSE 0)
          /\ unpinned' = RemoveFirst(unpinned, f) /\ again' = again \ {f} /\ taken' = taken
          /\ Asserts(TRUE)
      BY <1>2, <2>0, VictimErases DEF Cold, Hot, Victim
    <2>2. ListsBut(f, fifo_list', lru_list', unpinned')
      BY <2>1, ErasedEverywhere
    <2>3. /\ ht' \in [Frames -> Hotness] /\ ht'[f] = "NONE"
          /\ \A g \in Frames \ {f} : ht'[g] = ht[g]
      BY <2>1 DEF IInv, TypeOK, Hotness
    <2>4. /\ pins' \in [Frames -> 0..MaxPins] /\ pins'[f] = 1
          /\ \A g \in Frames \ {f} : pins'[g] = pins[g]
      BY <2>1, ReplacerAssumption DEF IInv, TypeOK
    <2>5. MarksAreTrue' /\ fifo_size' \in Nat /\ lru_size' \in Nat
      <3>1. /\ ToSet(fifo_list') = {g \in Frames : ht'[g] \in {"COLD", "COLD_PINNED"}}
            /\ ToSet(lru_list') = {g \in Frames : ht'[g] \in {"HOT", "HOT_PINNED"}}
        BY <2>2, <2>3 DEF ListsBut
      <3>2. /\ fifo_size' = fifo_size + (IF ht'[f] = "COLD" THEN 1 ELSE 0)
                                      - (IF ht[f] = "COLD" THEN 1 ELSE 0)
            /\ lru_size' = lru_size + (IF ht'[f] = "HOT" THEN 1 ELSE 0)
                                    - (IF ht[f] = "HOT" THEN 1 ELSE 0)
        BY <2>1, <2>3 DEF IInv, TypeOK
      <3>3. QED
        BY <2>1, <2>2, <2>3, <3>1, <3>2, MarksFollow DEF ListsBut
    <2>6. PinsAreTrue'
      BY <2>1, <2>3, <2>4 DEF IInv, PinsAreTrue, Cold, Hot
    <2>7. HistoryIsTrue'
      <3>1. InTable(ht') = InTable(ht) \ {f}
        BY <2>1, <2>3 DEF InTable
      <3>2. again' = {g \in Frames : ht'[g] \in {"HOT", "HOT_PINNED"}}
        BY <2>1, <2>3 DEF IInv, HistoryIsTrue
      <3>3. QED
        BY <2>2, <3>1, <3>2 DEF ListsBut, HistoryIsTrue
    <2>8. failed' \in BOOLEAN
      BY <2>1 DEF Asserts
    <2>9. TypeOK'
      BY <2>1, <2>2, <2>3, <2>4, <2>5, <2>8 DEF IInv, TypeOK, ListsBut
    <2>10. failed' = FALSE
      BY <2>1, <2>5, <2>9, AssertsPass DEF IInv
    <2>11. QED
      BY <2>5, <2>6, <2>7, <2>9, <2>10 DEF IInv
  <1>3. QED
    BY <1>1, <1>2

(* The pool may take a frame or drop a pin without a word to the replacer. *)
LEMMA PoolStep ==
    ASSUME IInv, NEW f \in Frames, TakeFree(f) \/ DropPin(f)
    PROVE  IInv'
  <1>1. UNCHANGED <<fifo_list, lru_list, ht, fifo_size, lru_size, failed, unpinned, again>>
    BY DEF TakeFree, DropPin, replacerVars, history
  <1>2. taken' \subseteq Frames /\ taken \subseteq taken'
    BY DEF TakeFree, DropPin, IInv, TypeOK
  <1>3. pins' \in [Frames -> 0..MaxPins] /\ pins'[f] > 0
        /\ \A g \in Frames \ {f} : pins'[g] = pins[g]
    <2>1. pins \in [Frames -> 0..MaxPins] /\ MaxPins \in Nat /\ 1 \in 0..MaxPins
      BY ReplacerAssumption DEF IInv, TypeOK
    <2>2. CASE TakeFree(f)
      BY <2>1, <2>2 DEF TakeFree
    <2>3. CASE DropPin(f)
      <3>1. pins[f] - 1 \in 0..MaxPins /\ pins[f] - 1 > 0
        BY <2>1, <2>3 DEF DropPin
      <3>2. QED
        BY <2>1, <2>3, <3>1 DEF DropPin
    <2>4. QED
      BY <2>2, <2>3
  <1>4. f \notin Cold \cup Hot
    BY DEF TakeFree, DropPin, IInv, PinsAreTrue, TypeOK
  <1>5. MarksAreTrue' /\ HistoryIsTrue' /\ TypeOK'
    BY <1>1, <1>2, <1>3 DEF IInv, MarksAreTrue, ListHolds, HistoryIsTrue, InTable, TypeOK
  <1>6. PinsAreTrue'
    <2>1. Cold' = Cold /\ Hot' = Hot
      BY <1>1 DEF Cold, Hot
    <2>2. \A g \in Frames \ {f} : g \in taken' <=> g \in taken
      BY DEF TakeFree, DropPin
    <2>3. pins'[f] # 0
      BY <1>3
    <2>4. QED
      BY <1>1, <1>2, <1>3, <1>4, <2>1, <2>2, <2>3 DEF IInv, PinsAreTrue
  <1>7. QED
    BY <1>1, <1>5, <1>6 DEF IInv

(* A frame that is pinned keeps its place. *)
LEMMA PinStep ==
    ASSUME IInv, NEW f \in Frames, Pin(f)
    PROVE  IInv'
  <1>1. /\ f \in taken /\ ht' = [ht EXCEPT ![f] = Pinned(ht[f])]
        /\ UNCHANGED <<fifo_list, lru_list, taken, unpinned, again>> /\ Asserts(TRUE)
    BY DEF Pin, history
  <1>2. /\ Pinned(ht[f]) \in Hotness /\ Pinned(ht[f]) \notin {"COLD", "HOT"}
        /\ Pinned(ht[f]) \in {"COLD", "COLD_PINNED"} <=> ht[f] \in {"COLD", "COLD_PINNED"}
        /\ Pinned(ht[f]) \in {"HOT", "HOT_PINNED"} <=> ht[f] \in {"HOT", "HOT_PINNED"}
        /\ Pinned(ht[f]) = "NONE" <=> ht[f] = "NONE"
    BY DEF IInv, TypeOK, Hotness, Pinned
  <1>3. /\ ht' \in [Frames -> Hotness] /\ ht'[f] = Pinned(ht[f])
        /\ \A g \in Frames \ {f} : ht'[g] = ht[g]
    BY <1>1, <1>2 DEF IInv, TypeOK
  <1>4. /\ pins' \in [Frames -> 0..MaxPins] /\ pins'[f] # 0
        /\ \A g \in Frames \ {f} : pins'[g] = pins[g]
    <2>1. pins \in [Frames -> 0..MaxPins] /\ MaxPins \in Nat
      BY ReplacerAssumption DEF IInv, TypeOK
    <2>2. pins[f] + 1 \in 0..MaxPins /\ pins[f] + 1 # 0
      BY <2>1 DEF Pin
    <2>3. QED
      BY <2>1, <2>2 DEF Pin
  <1>5. /\ fifo_list \in Seq(Frames) /\ lru_list \in Seq(Frames)
        /\ IsInjective(fifo_list) /\ IsInjective(lru_list)
        /\ ToSet(fifo_list) = {g \in Frames : ht[g] \in {"COLD", "COLD_PINNED"}}
        /\ ToSet(lru_list) = {g \in Frames : ht[g] \in {"HOT", "HOT_PINNED"}}
        /\ fifo_size \in Nat /\ lru_size \in Nat
    BY DEF IInv, TypeOK, MarksAreTrue, ListHolds
  <1>6. MarksAreTrue' /\ fifo_size' \in Nat /\ lru_size' \in Nat
    <2>1. /\ {g \in Frames : ht'[g] \in {"COLD", "COLD_PINNED"}}
               = {g \in Frames : ht[g] \in {"COLD", "COLD_PINNED"}}
          /\ {g \in Frames : ht'[g] \in {"HOT", "HOT_PINNED"}}
               = {g \in Frames : ht[g] \in {"HOT", "HOT_PINNED"}}
      BY <1>2, <1>3
    <2>2. /\ fifo_size' = fifo_size + (IF ht'[f] = "COLD" THEN 1 ELSE 0)
                                    - (IF ht[f] = "COLD" THEN 1 ELSE 0)
          /\ lru_size' = lru_size + (IF ht'[f] = "HOT" THEN 1 ELSE 0)
                                  - (IF ht[f] = "HOT" THEN 1 ELSE 0)
      BY <1>2, <1>3, <1>5 DEF Pin
    <2>3. QED
      BY <1>1, <1>3, <1>5, <2>1, <2>2, MarksFollow
  <1>7. PinsAreTrue'
    BY <1>1, <1>2, <1>3, <1>4 DEF IInv, PinsAreTrue, Cold, Hot
  <1>8. HistoryIsTrue'
    <2>1. InTable(ht') = InTable(ht)
      BY <1>2, <1>3 DEF InTable
    <2>2. again' = {g \in Frames : ht'[g] \in {"HOT", "HOT_PINNED"}}
      BY <1>1, <1>2, <1>3 DEF IInv, HistoryIsTrue
    <2>3. QED
      BY <1>1, <2>1, <2>2 DEF IInv, HistoryIsTrue
  <1>9. failed' \in BOOLEAN
    BY <1>1 DEF Asserts
  <1>10. TypeOK'
    BY <1>1, <1>3, <1>4, <1>6, <1>9 DEF IInv, TypeOK
  <1>11. failed' = FALSE
    BY <1>1, <1>6, <1>10, AssertsPass DEF IInv
  <1>12. QED
    BY <1>6, <1>7, <1>8, <1>10, <1>11 DEF IInv

(* Unpin erases the frame and puts it to the front of the list for its mark. *)
LEMMA UnpinMoves ==
    ASSUME IInv, NEW f \in Frames, Unpin(f)
    PROVE  /\ \/ /\ ht[f] = "NONE" /\ ht' = [ht EXCEPT ![f] = "COLD"]
                 /\ fifo_list' = Cons(f, RemoveFirst(fifo_list, f))
                 /\ lru_list' = RemoveFirst(lru_list, f)
              \/ /\ ht[f] # "NONE" /\ ht' = [ht EXCEPT ![f] = "HOT"]
                 /\ fifo_list' = RemoveFirst(fifo_list, f)
                 /\ lru_list' = Cons(f, RemoveFirst(lru_list, f))
           /\ fifo_size' = fifo_size + (IF ht'[f] = "COLD" THEN 1 ELSE 0)
                                     - (IF ht[f] = "COLD" THEN 1 ELSE 0)
           /\ lru_size' = lru_size + (IF ht'[f] = "HOT" THEN 1 ELSE 0)
                                   - (IF ht[f] = "HOT" THEN 1 ELSE 0)
           /\ Asserts(TRUE)
  <1>1. /\ fifo_list \in Seq(Frames) /\ lru_list \in Seq(Frames)
        /\ ToSet(fifo_list) = {g \in Frames : ht[g] \in {"COLD", "COLD_PINNED"}}
        /\ ToSet(lru_list) = {g \in Frames : ht[g] \in {"HOT", "HOT_PINNED"}}
        /\ fifo_size \in Nat /\ lru_size \in Nat /\ ht \in [Frames -> Hotness]
    BY DEF IInv, TypeOK, MarksAreTrue, ListHolds
  <1>2. CASE UnpinNew(f)
    <2>1. ht[f] = "NONE" /\ ht' = [ht EXCEPT ![f] = "COLD"] /\ ht'[f] = "COLD"
      BY <1>1, <1>2 DEF UnpinNew
    <2>2. f \notin ToSet(fifo_list) /\ f \notin ToSet(lru_list)
      BY <1>1, <2>1
    <2>3. RemoveFirst(fifo_list, f) = fifo_list /\ RemoveFirst(lru_list, f) = lru_list
      BY <1>1, <2>2, RemoveFirstAbsent
    <2>4. Cardinality(InTable(ht)) < NumPages
      <3>1. InTable(ht) \in SUBSET Frames /\ f \notin InTable(ht)
        BY <2>1 DEF InTable
      <3>2. /\ Cardinality(InTable(ht)) <= NumPages /\ Cardinality(InTable(ht)) # NumPages
            /\ Cardinality(InTable(ht)) \in Nat
        BY <3>1, FramesFinite
      <3>3. NumPages \in Nat
        BY ReplacerAssumption, FS_CardinalityType DEF NumPages
      <3>4. QED
        BY <3>2, <3>3
    <2>5. Asserts(TRUE)
      BY <1>2, <2>4 DEF UnpinNew, Asserts
    <2>6. fifo_size' = fifo_size + 1 - 0 /\ lru_size' = lru_size + 0 - 0
      BY <1>1, <1>2 DEF UnpinNew
    <2>7. QED
      BY <1>2, <2>1, <2>3, <2>5, <2>6 DEF UnpinNew
  <1>3. CASE UnpinKnown(f)
    <2>1. ht[f] # "NONE" /\ ht' = [ht EXCEPT ![f] = "HOT"] /\ ht'[f] = "HOT"
      BY <1>1, <1>3 DEF UnpinKnown
    <2>2. fifo_size' = fifo_size + 0 - (IF ht[f] = "COLD" THEN 1 ELSE 0)
      BY <1>1, <1>3 DEF UnpinKnown
    <2>3. lru_size' = lru_size + 1 - (IF ht[f] = "HOT" THEN 1 ELSE 0)
      BY <1>1, <1>3 DEF UnpinKnown
    <2>4. QED
      BY <1>3, <2>1, <2>2, <2>3 DEF UnpinKnown
  <1>4. QED
    BY <1>2, <1>3 DEF Unpin

(* A frame that is unpinned is the latest in its list and in the history. *)
LEMMA UnpinStep ==
    ASSUME IInv, NEW f \in Frames, Unpin(f)
    PROVE  IInv'
  <1> DEFINE list1 == RemoveFirst(fifo_list, f)
             list2 == RemoveFirst(lru_list, f)
             queue == RemoveFirst(unpinned, f)
  <1>1. ListsBut(f, list1, list2, queue)
    BY ErasedEverywhere
  <1>2. unpinned' = Append(queue, f)
    BY DEF Unpin, Remembers
  <1>3. \/ /\ ht[f] = "NONE" /\ ht' = [ht EXCEPT ![f] = "COLD"]
           /\ fifo_list' = Cons(f, list1) /\ lru_list' = list2
        \/ /\ ht[f] # "NONE" /\ ht' = [ht EXCEPT ![f] = "HOT"]
           /\ fifo_list' = list1 /\ lru_list' = Cons(f, list2)
    BY UnpinMoves
  <1> HIDE DEF list1, list2, queue
  <1>4. /\ f \in taken /\ taken' = taken /\ pins' = [pins EXCEPT ![f] = 0]
        /\ again' = again \cup (ToSet(unpinned) \cap {f})
    BY DEF Unpin, Remembers
  <1>5. /\ ht' \in [Frames -> Hotness] /\ ht'[f] = IF ht[f] = "NONE" THEN "COLD" ELSE "HOT"
        /\ \A g \in Frames \ {f} : ht'[g] = ht[g]
    BY <1>3 DEF IInv, TypeOK, Hotness
  <1>6. /\ pins' \in [Frames -> 0..MaxPins] /\ pins'[f] = 0
        /\ \A g \in Frames \ {f} : pins'[g] = pins[g]
    BY <1>4, ReplacerAssumption DEF IInv, TypeOK
  <1>7. /\ queue \in Seq(Frames) /\ IsInjective(queue) /\ f \notin ToSet(queue)
        /\ list1 \in Seq(Frames) /\ IsInjective(list1) /\ f \notin ToSet(list1)
        /\ list2 \in Seq(Frames) /\ IsInjective(list2) /\ f \notin ToSet(list2)
        /\ Opposite(list1, queue) /\ Opposite(list2, queue)
    BY <1>1 DEF ListsBut
  <1>8. /\ unpinned' \in Seq(Frames) /\ IsInjective(unpinned')
        /\ ToSet(unpinned') = ToSet(queue) \cup {f}
    BY <1>2, <1>7, AppendElements
  <1>9. /\ fifo_list' \in Seq(Frames) /\ IsInjective(fifo_list')
        /\ ToSet(fifo_list') = {g \in Frames : ht'[g] \in {"COLD", "COLD_PINNED"}}
        /\ Opposite(fifo_list', unpinned')
    <2>1. CASE ht[f] = "NONE"
      <3>1. /\ fifo_list' = Cons(f, list1) /\ Cons(f, list1) \in Seq(Frames)
            /\ IsInjective(Cons(f, list1)) /\ ToSet(Cons(f, list1)) = ToSet(list1) \cup {f}
        BY <1>3, <1>7, <2>1, ConsElements
      <3>2. Opposite(fifo_list', unpinned')
        BY <1>2, <1>7, <3>1, OppositeAdded
      <3>3. ToSet(list1) \cup {f} = {g \in Frames : ht'[g] \in {"COLD", "COLD_PINNED"}}
        BY <1>1, <1>5, <2>1 DEF ListsBut
      <3>4. QED
        BY <3>1, <3>2, <3>3
    <2>2. CASE ht[f] # "NONE"
      <3>1. fifo_list' = list1
        BY <1>3, <2>2
      <3>2. Opposite(fifo_list', unpinned')
        BY <1>2, <1>7, <3>1, OppositeQueued
      <3>3. ToSet(list1) = {g \in Frames : ht'[g] \in {"COLD", "COLD_PINNED"}}
        BY <1>1, <1>5, <2>2 DEF ListsBut
      <3>4. QED
        BY <1>7, <3>1, <3>2, <3>3
    <2>3. QED
      BY <2>1, <2>2
  <1>10. /\ lru_list' \in Seq(Frames) /\ IsInjective(lru_list')
         /\ ToSet(lru_list') = {g \in Frames : ht'[g] \in {"HOT", "HOT_PINNED"}}
         /\ Opposite(lru_list', unpinned')
    <2>1. CASE ht[f] # "NONE"
      <3>1. /\ lru_list' = Cons(f, list2) /\ Cons(f, list2) \in Seq(Frames)
            /\ IsInjective(Cons(f, list2)) /\ ToSet(Cons(f, list2)) = ToSet(list2) \cup {f}
        BY <1>3, <1>7, <2>1, ConsElements
      <3>2. Opposite(lru_list', unpinned')
        BY <1>2, <1>7, <3>1, OppositeAdded
      <3>3. ToSet(list2) \cup {f} = {g \in Frames : ht'[g] \in {"HOT", "HOT_PINNED"}}
        BY <1>1, <1>5, <2>1 DEF ListsBut
      <3>4. QED
        BY <3>1, <3>2, <3>3
    <2>2. CASE ht[f] = "NONE"
      <3>1. lru_list' = list2
        BY <1>3, <2>2
      <3>2. Opposite(lru_list', unpinned')
        BY <1>2, <1>7, <3>1, OppositeQueued
      <3>3. ToSet(list2) = {g \in Frames : ht'[g] \in {"HOT", "HOT_PINNED"}}
        BY <1>1, <1>5, <2>2 DEF ListsBut
      <3>4. QED
        BY <1>7, <3>1, <3>2, <3>3
    <2>3. QED
      BY <2>1, <2>2
  <1>11. MarksAreTrue' /\ fifo_size' \in Nat /\ lru_size' \in Nat
    BY <1>5, <1>9, <1>10, UnpinMoves, MarksFollow
  <1>12. PinsAreTrue'
    BY <1>4, <1>5, <1>6 DEF IInv, PinsAreTrue, Cold, Hot
  <1>13. HistoryIsTrue'
    <2>1. InTable(ht') = ToSet(unpinned')
      BY <1>1, <1>5, <1>8 DEF InTable, ListsBut
    <2>2. f \in ToSet(unpinned) <=> ht[f] # "NONE"
      BY DEF IInv, HistoryIsTrue, InTable
    <2>3. again' = {g \in Frames : ht'[g] \in {"HOT", "HOT_PINNED"}}
      BY <1>4, <1>5, <2>2 DEF IInv, HistoryIsTrue
    <2>4. QED
      BY <1>8, <1>9, <1>10, <2>1, <2>3 DEF HistoryIsTrue
  <1>14. failed' \in BOOLEAN
    BY UnpinMoves DEF Asserts
  <1>15. TypeOK'
    BY <1>4, <1>5, <1>6, <1>8, <1>9, <1>10, <1>11, <1>14 DEF IInv, TypeOK
  <1>16. failed' = FALSE
    BY <1>11, <1>15, UnpinMoves, AssertsPass DEF IInv
  <1>17. QED
    BY <1>11, <1>12, <1>13, <1>15, <1>16 DEF IInv

(***************************************************************************)
(* The theorems.                                                           *)
(***************************************************************************)

(* The inductive invariant holds of a new replacer and an empty pool. *)
LEMMA InitInv ==
    ASSUME Init
    PROVE  IInv
  <1>1. /\ fifo_list = <<>> /\ lru_list = <<>> /\ unpinned = <<>>
        /\ fifo_size = 0 /\ lru_size = 0 /\ failed = FALSE
        /\ taken = {} /\ again = {}
        /\ ht = [f \in Frames |-> "NONE"] /\ pins = [f \in Frames |-> 0]
    BY DEF Init
  <1>2. TypeOK
    <2>1. pins \in [Frames -> 0..MaxPins] /\ ht \in [Frames -> Hotness]
      BY <1>1, ReplacerAssumption DEF Hotness
    <2>2. <<>> \in Seq(Frames)
      OBVIOUS
    <2>3. QED
      BY <1>1, <2>1, <2>2 DEF TypeOK
  <1>3. Cold = {} /\ Hot = {} /\ InTable(ht) = {}
    BY <1>1 DEF Cold, Hot, InTable
  <1>4. IsInjective(<<>>) /\ ToSet(<<>>) = {}
    BY DEF IsInjective, ToSet
  <1>5. MarksAreTrue
    <2>1. fifo_size = Cardinality(Cold) /\ lru_size = Cardinality(Hot)
      BY <1>1, <1>3, FS_EmptySet
    <2>2. /\ {f \in Frames : ht[f] \in {"COLD", "COLD_PINNED"}} = {}
          /\ {f \in Frames : ht[f] \in {"HOT", "HOT_PINNED"}} = {}
      BY <1>1
    <2>3. QED
      BY <1>1, <1>4, <2>1, <2>2 DEF MarksAreTrue, ListHolds, Cold, Hot
  <1>6. PinsAreTrue
    BY <1>1, <1>3 DEF PinsAreTrue
  <1>7. HistoryIsTrue
    <2>1. {f \in Frames : ht[f] \in {"HOT", "HOT_PINNED"}} = {}
      BY <1>1
    <2>2. Opposite(<<>>, <<>>)
      BY DEF Opposite, Before
    <2>3. QED
      BY <1>1, <1>3, <1>4, <2>1, <2>2 DEF HistoryIsTrue
  <1>8. QED
    BY <1>1, <1>2, <1>5, <1>6, <1>7 DEF IInv

(* The inductive invariant holds in every reachable state: for any finite    *)
(* set of frames and any order in which the pool calls the methods.          *)
THEOREM Invariant == Spec => []IInv
  <1>1. Init => IInv
    BY InitInv
  <1>2. IInv /\ [Next]_vars => IInv'
    <2>1. ASSUME IInv, Next PROVE IInv'
      <3>1. CASE Size
        BY <2>1, <3>1 DEF Size, replacerVars, history, IInv, TypeOK, MarksAreTrue, ListHolds,
                          PinsAreTrue, HistoryIsTrue, Cold, Hot, InTable
      <3>2. QED
        BY <2>1, <3>1, VictimStep, PoolStep, PinStep, UnpinStep DEF Next
    <2>2. ASSUME IInv, UNCHANGED vars PROVE IInv'
      BY <2>2 DEF vars, replacerVars, history, IInv, TypeOK, MarksAreTrue, ListHolds,
                  PinsAreTrue, HistoryIsTrue, Cold, Hot, InTable
    <2>3. QED
      BY <2>1, <2>2
  <1>3. QED
    BY <1>1, <1>2, PTL DEF Spec

(* No assertion of Victim, Pin and Unpin fails: the table is as large as the *)
(* lists together and not larger than num_pages, and the loop of Victim      *)
(* finds a frame in the list that it chose by its counter.                   *)
THEOREM AssertionsNeverFail == Spec => []AssertionsHold
  <1>1. IInv => AssertionsHold
    BY DEF IInv, AssertionsHold
  <1>2. QED
    BY <1>1, Invariant, PTL

(* Marks, lists and counters always tell the same.                           *)
THEOREM MarksAreTrueHolds == Spec => []MarksAreTrue
  <1>1. IInv => MarksAreTrue
    BY DEF IInv
  <1>2. QED
    BY <1>1, Invariant, PTL

(* Every victim is the one that 2Q prescribes: the idle frame that was       *)
(* unpinned first, of those unpinned once if there are any.                  *)
THEOREM VictimIsOldestHolds == Spec => VictimIsOldest
  <1>1. ASSUME IInv, Victim, answer' # NoFrame
        PROVE  answer' = Oldest(IF Idle \subseteq again THEN Idle ELSE Idle \ again)
    <2>1. Idle = Cold \cup Hot
      BY <1>1 DEF IInv, PinsAreTrue, Idle, TypeOK, Cold, Hot
    <2>2. Cold \cap again = {} /\ Hot \subseteq again
      BY <1>1 DEF IInv, HistoryIsTrue, Cold, Hot
    <2>3. /\ unpinned \in Seq(Frames) /\ Cold \subseteq ToSet(unpinned) /\ Hot \subseteq ToSet(unpinned)
          /\ Cold \subseteq Frames /\ Hot \subseteq Frames
          /\ Opposite(fifo_list, unpinned) /\ Opposite(lru_list, unpinned)
      BY <1>1 DEF IInv, TypeOK, HistoryIsTrue, InTable, Cold, Hot
    <2>4. PICK f : f = answer'
      OBVIOUS
    <2>5. CASE f \in Cold /\ \A e \in Cold : e = f \/ Before(fifo_list, e, f)
      <3>1. (IF Idle \subseteq again THEN Idle ELSE Idle \ again) = Cold
        BY <2>1, <2>2, <2>5
      <3>2. \A e \in Cold : e = f \/ ~Before(unpinned, e, f)
        BY <2>3, <2>5 DEF Opposite
      <3>3. Oldest(Cold) = f
        BY <2>3, <2>5, <3>2, OldestIs
      <3>4. QED
        BY <2>4, <3>1, <3>3
    <2>6. CASE Cold = {} /\ f \in Hot /\ \A e \in Hot : e = f \/ Before(lru_list, e, f)
      <3>1. (IF Idle \subseteq again THEN Idle ELSE Idle \ again) = Hot
        BY <2>1, <2>2, <2>6
      <3>2. \A e \in Hot : e = f \/ ~Before(unpinned, e, f)
        BY <2>3, <2>6 DEF Opposite
      <3>3. Oldest(Hot) = f
        BY <2>3, <2>6, <3>2, OldestIs
      <3>4. QED
        BY <2>4, <3>1, <3>3
    <2>7. QED
      BY <1>1, <2>4, <2>5, <2>6, VictimFound
  <1>2. IInv => [Victim /\ answer' # NoFrame =>
                   answer' = Oldest(IF Idle \subseteq again THEN Idle ELSE Idle \ again)]_vars
    BY <1>1
  <1>3. QED
    BY <1>2, Invariant, PTL DEF VictimIsOldest

(* The replacer implements its base class: Victim gives up an idle frame, or *)
(* none only when all are pinned, and Size counts the idle ones.             *)
THEOREM Refinement == Spec => ImplementsReplacer
  <1>1. Init => Abstract!Init
    BY DEF Init, Abstract!Init, Idle
  <1>2. ASSUME IInv, Next PROVE Abstract!Next
    <2>1. Idle = Cold \cup Hot
      BY <1>2 DEF IInv, PinsAreTrue, Idle, TypeOK, Cold, Hot
    <2>2. CASE Victim
      <3>1. CASE Idle = {} /\ answer' = NoFrame /\ UNCHANGED <<replacerVars, pins>>
        <4>1. UNCHANGED <<taken, pins>>
          BY <2>2, <3>1 DEF Victim
        <4>2. QED
          BY <3>1, <4>1 DEF Idle, Abstract!Next, Abstract!Victim
      <3>2. CASE answer' \in Cold \cup Hot
        <4>1. ht[answer'] # "NONE" /\ answer' \in Frames /\ ht \in [Frames -> Hotness]
          BY <1>2, <3>2 DEF Cold, Hot, IInv, TypeOK
        <4>2. ~UNCHANGED <<replacerVars, pins>>
          BY <2>2, <3>2, <4>1, ReplacerAssumption DEF Victim, VictimOf, replacerVars
        <4>3. pins' = [pins EXCEPT ![answer'] = 1]
          BY <1>2, <2>2, <4>2, VictimErases
        <4>4. pins \in [Frames -> 0..MaxPins] /\ taken' = taken /\ taken \subseteq Frames
          BY <1>2, <2>2 DEF Victim, IInv, TypeOK
        <4>5. PICK f \in Frames : f = answer'
          BY <4>1
        <4>6. pins'[f] = 1 /\ \A g \in Frames \ {f} : pins'[g] = pins[g]
          BY <4>3, <4>4, <4>5
        <4>7. Idle' = Idle \ {f}
          BY <4>4, <4>6 DEF Idle
        <4>8. QED
          BY <2>1, <3>2, <4>5, <4>7 DEF Abstract!Next, Abstract!Victim
      <3>3. QED
        BY <1>2, <2>2, <3>1, <3>2, VictimFound
    <2>3. CASE Size
      <3>1. /\ IsFiniteSet(Cold) /\ IsFiniteSet(Hot)
            /\ Cardinality(Cold) \in Nat /\ Cardinality(Hot) \in Nat
        BY FramesFinite DEF Cold, Hot
      <3>2. Cold \cap Hot = {} /\ Cardinality(Cold \cap Hot) = 0
        BY FS_EmptySet DEF Cold, Hot
      <3>3. Cardinality(Cold \cup Hot) = Cardinality(Cold) + Cardinality(Hot)
                                           - Cardinality(Cold \cap Hot)
        BY <3>1, FS_Union
      <3>4. Cardinality(Idle) = Cardinality(Cold) + Cardinality(Hot)
        BY <2>1, <3>1, <3>2, <3>3
      <3>5. answer' = Cardinality(Idle)
        BY <1>2, <2>3, <3>4, CountersCount DEF Size, IInv
      <3>6. Idle' = Idle
        BY <2>3 DEF Size, Idle
      <3>7. Abstract!Cardinality(Idle) = Cardinality(Idle)
        BY DEF Abstract!Cardinality, Cardinality
      <3>8. QED
        BY <3>5, <3>6, <3>7 DEF Abstract!Next, Abstract!Size
    <2>4. ASSUME NEW f \in Frames, TakeFree(f) \/ Pin(f) \/ DropPin(f) PROVE Abstract!Next
      <3>1. /\ pins'[f] # 0 /\ answer' = Silent
            /\ \A g \in Frames \ {f} : pins'[g] = pins[g] /\ (g \in taken' <=> g \in taken)
        <4>1. pins \in [Frames -> 0..MaxPins] /\ MaxPins \in Nat
          BY <1>2, ReplacerAssumption DEF IInv, TypeOK
        <4>2. CASE TakeFree(f)
          BY <4>1, <4>2 DEF TakeFree
        <4>3. CASE Pin(f)
          BY <4>1, <4>3 DEF Pin
        <4>4. CASE DropPin(f)
          BY <4>1, <4>4 DEF DropPin
        <4>5. QED
          BY <2>4, <4>2, <4>3, <4>4
      <3>2. taken \subseteq Frames /\ taken' \subseteq Frames
        BY <1>2, <2>4 DEF IInv, TypeOK, TakeFree, Pin, DropPin
      <3>3. Idle' = Idle \ {f}
        BY <3>1, <3>2 DEF Idle
      <3>4. QED
        BY <3>1, <3>3 DEF Abstract!Next, Abstract!Pin
    <2>5. ASSUME NEW f \in Frames, Unpin(f) PROVE Abstract!Next
      <3>1. f \in taken /\ taken' = taken /\ taken \subseteq Frames /\ answer' = Silent
        BY <1>2, <2>5 DEF Unpin, IInv, TypeOK
      <3>2. pins'[f] = 0 /\ \A g \in Frames \ {f} : pins'[g] = pins[g]
        BY <1>2, <2>5 DEF Unpin, IInv, TypeOK
      <3>3. Idle' = Idle \cup {f}
        BY <3>1, <3>2 DEF Idle
      <3>4. QED
        BY <3>1, <3>3 DEF Abstract!Next, Abstract!Unpin
    <2>6. QED
      BY <1>2, <2>2, <2>3, <2>4, <2>5 DEF Next
  <1>3. IInv /\ [Next]_vars => [Abstract!Next]_<<Idle, answer>>
    <2>1. UNCHANGED vars => UNCHANGED <<Idle, answer>>
      BY DEF vars, Idle
    <2>2. QED
      BY <1>2, <2>1
  <1>4. QED
    BY <1>1, <1>3, Invariant, PTL DEF Spec, ImplementsReplacer, Abstract!Spec
=============================================================================
