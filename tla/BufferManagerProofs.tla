------------------------- MODULE BufferManagerProofs --------------------------
(***************************************************************************)
(* Theorems about the buffer manager.  The sections of fix_page and        *)
(* evict_page under global_mutex have a few outcomes; every step preserves *)
(* the inductive invariant (BufferManagerInv), one lemma an action or an   *)
(* outcome of fix_page, and the safety properties follow from it.  For any *)
(* finite set of threads and any numbers of pages and slots.               *)
(***************************************************************************)
EXTENDS BufferManagerInv, ListLemmas

(* The victim is loaded and nobody uses it. *)
LEMMA VictimIsIdle ==
    ASSUME fifo \in Seq(Pages), lru \in Seq(Pages), NEW f,
           NEW v, v = FindPageToEvict(f), v # NoPage
    PROVE  v \in Pages /\ f[v].users = 0 /\ f[v].state = "LOADED"
  <1> DEFINE idle == {p \in Pages : f[p].users = 0 /\ f[p].state = "LOADED"}
             queue == fifo \o lru
             found == {i \in DOMAIN queue :
                         queue[i] \in idle /\ \A j \in 1..(i - 1) : queue[j] \notin idle}
  <1>1. v = IF found = {} THEN NoPage ELSE queue[CHOOSE i \in found : TRUE]
    BY DEF FindPageToEvict, FirstOf
  <1>2. found # {}
    BY <1>1
  <1>3. (CHOOSE i \in found : TRUE) \in found
    BY <1>2
  <1>4. v \in idle
    BY <1>1, <1>2, <1>3
  <1>5. QED
    BY <1>4

(***************************************************************************)
(* Users.  A thread uses a page if it holds its latch or is in a call for  *)
(* it that has counted.                                                    *)
(***************************************************************************)
Holds(t, p) == t \in frames[p].writers \/ t \in frames[p].readers

CallsFor(t, p) == pc[t] \notin {"idle", "lookup"} /\ call[t].page = p

(* A thread uses a page that it has latched, or that its call is about. *)
LEMMA UsesIff ==
    ASSUME NEW t \in Threads, NEW p \in Pages
    PROVE  Uses(t, p) <=> Holds(t, p) \/ CallsFor(t, p)
  BY DEF Uses, InUse, Fixed, Holds, CallsFor

Users(p) == {t \in Threads : Uses(t, p)}

(* Users(p) are finitely many. *)
LEMMA UsersFinite ==
    ASSUME NEW p
    PROVE  IsFiniteSet(Users(p)) /\ Cardinality(Users(p)) \in Nat
  <1>1. IsFiniteSet(Threads) /\ Users(p) \in SUBSET Threads
    BY BufferAssumption DEF Users
  <1>2. QED
    BY <1>1, FS_Subset, FS_CardinalityType

(* What num_users says about who uses the page. *)
LEMMA UsersCount ==
    ASSUME UsersExact, NEW p \in Pages
    PROVE  /\ frames[p].users \in Nat
           /\ \A t \in Threads : Uses(t, p) => frames[p].users > 0
           /\ frames[p].users <= 1 => \A t, u \in Threads : Uses(t, p) /\ Uses(u, p) => t = u
  <1>1. frames[p].users = Cardinality(Users(p))
    BY DEF UsersExact, Users
  <1>2. IsFiniteSet(Users(p)) /\ Cardinality(Users(p)) \in Nat
    BY UsersFinite
  <1>3. Cardinality(Users(p)) = 0 => Users(p) = {}
    BY <1>2, FS_EmptySet
  <1>4. Cardinality(Users(p)) = 1 => \E t : Users(p) = {t}
    BY <1>2, FS_Singleton
  <1>5. \A t \in Threads : Uses(t, p) => t \in Users(p)
    BY DEF Users
  <1>6. frames[p].users > 0 \/ frames[p].users = 0
    BY <1>1, <1>2
  <1>7. frames[p].users <= 1 => frames[p].users = 0 \/ frames[p].users = 1
    BY <1>1, <1>2
  <1>8. QED
    BY <1>1, <1>2, <1>3, <1>4, <1>5, <1>6, <1>7

(* How many members two sets of threads have that differ in one thread. *)
LEMMA CountOthers ==
    ASSUME NEW A \in SUBSET Threads, NEW B \in SUBSET Threads, NEW t \in Threads,
           \A u \in Threads \ {t} : u \in A <=> u \in B
    PROVE  /\ Cardinality(A) \in Nat /\ Cardinality(B) \in Nat
           /\ (t \in A <=> t \in B) => Cardinality(B) = Cardinality(A)
           /\ t \notin A /\ t \in B => Cardinality(B) = Cardinality(A) + 1
           /\ t \in A /\ t \notin B => Cardinality(B) = Cardinality(A) - 1
  <1>1. IsFiniteSet(A) /\ IsFiniteSet(B)
    BY BufferAssumption, FS_Subset
  <1>2. (t \in A <=> t \in B) => A = B
    OBVIOUS
  <1>3. t \notin A /\ t \in B => B = A \cup {t}
    OBVIOUS
  <1>4. t \in A /\ t \notin B => B = A \ {t}
    OBVIOUS
  <1>5. QED
    BY <1>1, <1>2, <1>3, <1>4, FS_CardinalityType, FS_AddElement, FS_RemoveElement

(***************************************************************************)
(* The outcomes of fix_page's sections under global_mutex, whether t comes *)
(* from the loop, from a wait or from an eviction.  Base(t) is the frames  *)
(* when t has a frame without memory for its page, and its last victim, if *)
(* that was fixed meanwhile, is an ordinary page again.                    *)
(***************************************************************************)
Base(t) ==
    [q \in Pages |->
        IF pc[t] # "written"
        THEN IF q = call[t].page THEN Created(t) ELSE frames[q]
        ELSE IF q = victim[t] /\ frames[q].state = "RELOADED"
             THEN [frames[q] EXCEPT !.state = "LOADED"]
             ELSE frames[q]]

Allocates(t) ==
    /\ pc[t] \in {"lookup", "recheck", "written"}
    /\ pc[t] # "written" => /\ frames[call[t].page].state \in Empty
                            /\ \A u \in Threads \ {t} : ~Uses(u, call[t].page)
    /\ UNCHANGED <<disk, clientVars>>

ReadInto(frame, s) == [frame EXCEPT !.state = "LOADING", !.slot = s]

ZeroedInto(frame, t, s) ==
    Unlatched([frame EXCEPT !.state = "LOADED", !.dirty = FALSE, !.slot = s], t)

LoadingFrame(t, s) == ReadInto(Base(t)[call[t].page], s)

LoadedFrame(t, s) == ZeroedInto(Base(t)[call[t].page], t, s)

DroppedFrame(t) == DroppedNew(Unlatched(Base(t)[call[t].page], t))

(* No page can be evicted. *)
Fails(t) ==
    /\ Allocates(t)
    /\ frames' = [Base(t) EXCEPT ![call[t].page] = DroppedFrame(t)]
    /\ pc' = [pc EXCEPT ![t] = "idle"]
    /\ call' = [call EXCEPT ![t] = NoCall]
    /\ victim' = [victim EXCEPT ![t] = NoPage]
    /\ copy' = [copy EXCEPT ![t] = Zero]
    /\ UNCHANGED <<fifo, lru, mem, size>>

(* A dirty page v is copied and about to be written out. *)
Writes(t, v) ==
    /\ Allocates(t)
    /\ v \in Pages \ {call[t].page}
    /\ Base(t)[v].users = 0 /\ Base(t)[v].state = "LOADED" /\ Base(t)[v].dirty
    /\ Cardinality(InMemory(frames)) = PageCount
    /\ frames' = [Base(t) EXCEPT ![v].state = "EVICTING"]
    /\ copy' = [copy EXCEPT ![t] = mem[Base(t)[v].slot]]
    /\ victim' = [victim EXCEPT ![t] = v]
    /\ pc' = [pc EXCEPT ![t] = "writing"]
    /\ UNCHANGED <<fifo, lru, mem, size, call>>

(* The frame gets slot s: a free one (v is NoPage), or the one of victim v. *)
Gets(t, v, s) ==
    /\ Allocates(t)
    /\ s \in Slots
    /\ \A q \in Pages \ {v} : frames[q].slot # s
    /\ \/ /\ v = NoPage
          /\ pc[t] # "written"
          /\ s = Cardinality(InMemory(frames)) /\ s < PageCount
          /\ \A q \in Pages \ {call[t].page} : frames[q].state # "NEW"
       \/ /\ v \in Pages \ {call[t].page}
          /\ frames[v].slot = s
          /\ frames[v].users = 0
          /\ \/ frames[v].state = "LOADED" /\ ~frames[v].dirty
             \/ frames[v].state = "EVICTING" /\ pc[t] = "written" /\ v = victim[t]
    /\ fifo' = Append(RemoveFirst(fifo, v), call[t].page)
    /\ lru' = RemoveFirst(lru, v)
    /\ victim' \in {victim, [victim EXCEPT ![t] = NoPage]}
    /\ copy' \in {copy, [copy EXCEPT ![t] = Zero]}
    /\ call' = call

OthersAfter(t, v, frame) ==
    [q \in Pages |-> IF q = call[t].page THEN frame ELSE IF q = v THEN Absent ELSE Base(t)[q]]

GetsZeroed(t, v, s) ==
    /\ Gets(t, v, s)
    /\ size < call[t].page
    /\ size' = call[t].page
    /\ mem' = [mem EXCEPT ![s] = Zero]
    /\ frames' = OthersAfter(t, v, LoadedFrame(t, s))
    /\ pc' = [pc EXCEPT ![t] = "latch"]

GetsLoading(t, v, s) ==
    /\ Gets(t, v, s)
    /\ size >= call[t].page
    /\ frames' = OthersAfter(t, v, LoadingFrame(t, s))
    /\ pc' = [pc EXCEPT ![t] = "reading"]
    /\ UNCHANGED <<size, mem>>

(* Somebody else is creating the frame. *)
Queues(t) ==
    /\ pc[t] \in {"lookup", "recheck"}
    /\ frames[call[t].page].state = "NEW"
    /\ frames' = IF pc[t] = "lookup" THEN [frames EXCEPT ![call[t].page].users = @ + 1]
                                     ELSE frames
    /\ pc' = [pc EXCEPT ![t] = "waitnew"]
    /\ UNCHANGED <<fifo, lru, mem, disk, size, call, copy, victim, clientVars>>

(* The page is in memory. *)
Touches(t) ==
    /\ pc[t] \in {"lookup", "recheck"}
    /\ frames[call[t].page].state \notin Empty
    /\ frames' = IF pc[t] = "lookup"
                 THEN [frames EXCEPT ![call[t].page].users = @ + 1,
                                     ![call[t].page].state = IF @ = "EVICTING" THEN "RELOADED" ELSE @]
                 ELSE frames
    /\ fifo' = RemoveFirst(fifo, call[t].page)
    /\ lru' = Append(RemoveFirst(lru, call[t].page), call[t].page)
    /\ pc' = [pc EXCEPT ![t] = "latch"]
    /\ UNCHANGED <<mem, disk, size, call, copy, victim, clientVars>>

(* The page that a thread at work is about. *)
LEMMA PageOf ==
    ASSUME IInv, NEW t \in Threads, pc[t] # "idle"
    PROVE  call[t].page \in Pages
  BY DEF IInv, CallsInv

(* The frame that t has made, or had made when it began to evict. *)
LEMMA BaseFrame ==
    ASSUME IInv, NEW t \in Threads, Allocates(t)
    PROVE  LET p == call[t].page
               b == Base(t)[p]
           IN  /\ p \in Pages
               /\ frames[p].slot = NoSlot /\ frames[p].state \in Empty
               /\ b \in FrameRecords
               /\ b.state = "NEW" /\ b.slot = NoSlot /\ b.users > 0
               /\ b.locked = TRUE /\ b.writers = {t} /\ b.readers = {}
  <1> DEFINE p == call[t].page
  <1>1. p \in Pages /\ frames[p] \in FrameRecords
    BY PageOf DEF Allocates, IInv, TypeOK
  <1>2. CASE pc[t] # "written"
    <2>1. Base(t)[p] = Created(t)
      BY <1>1, <1>2 DEF Base
    <2>2. frames[p].slot = NoSlot /\ frames[p].state \in Empty
      BY <1>1, <1>2 DEF Allocates, IInv, FramesInv, FrameInv
    <2>3. Absent \in FrameRecords /\ Absent.slot = NoSlot /\ Absent.readers = {}
      BY DEF Absent, FrameRecords, FrameStates
    <2>4. /\ Created(t) \in FrameRecords
          /\ Created(t).state = "NEW" /\ Created(t).users = 1 /\ Created(t).locked = TRUE
          /\ Created(t).writers = {t} /\ Created(t).slot = NoSlot /\ Created(t).readers = {}
      BY <2>3 DEF Created, FrameRecords, FrameStates
    <2>5. QED
      BY <1>1, <2>1, <2>2, <2>3, <2>4
  <1>3. CASE pc[t] = "written"
    <2>1. frames[p].state = "NEW" /\ t \in frames[p].writers
      BY <1>3 DEF IInv, CallsInv, Evicting
    <2>2. frames[p].users > 0 /\ frames[p].readers = {} /\ frames[p].slot = NoSlot
      BY <1>1, <2>1 DEF IInv, FramesInv, FrameInv, Empty
    <2>3. frames[p].locked = TRUE /\ frames[p].writers = {t}
      <3>1. frames[p].locked \in BOOLEAN /\ frames[p].writers \in SUBSET Threads
        BY <1>1 DEF FrameRecords
      <3>2. LatchOf(frames[p])
        BY <1>1 DEF IInv, LatchInv
      <3>3. QED
        BY <2>1, <3>1, <3>2 DEF LatchOf
    <2>4. Base(t)[p] = frames[p]
      BY <1>1, <1>3, <2>1 DEF Base
    <2>5. QED
      BY <1>1, <2>1, <2>2, <2>3, <2>4 DEF Empty
  <1>4. QED
    BY <1>2, <1>3

(* All other frames are as they were, but for the state of the old victim. *)
LEMMA BaseOthers ==
    ASSUME IInv, NEW t \in Threads, Allocates(t), NEW q \in Pages, q # call[t].page
    PROVE  /\ frames[q] \in FrameRecords
           /\ Base(t)[q] \in FrameRecords
           /\ \/ Base(t)[q] = frames[q]
              \/ /\ pc[t] = "written" /\ q = victim[t]
                 /\ frames[q].state = "RELOADED" /\ Base(t)[q].state = "LOADED"
                 /\ Base(t)[q].users = frames[q].users
                 /\ Base(t)[q].locked = frames[q].locked
                 /\ Base(t)[q].dirty = frames[q].dirty
                 /\ Base(t)[q].slot = frames[q].slot
                 /\ Base(t)[q].writers = frames[q].writers
                 /\ Base(t)[q].readers = frames[q].readers
  <1>1. frames[q] \in FrameRecords
    BY DEF IInv, TypeOK
  <1>2. CASE q = victim[t] /\ frames[q].state = "RELOADED" /\ pc[t] = "written"
    <2>1. Base(t)[q] = [frames[q] EXCEPT !.state = "LOADED"]
      BY <1>2 DEF Base
    <2>2. QED
      BY <1>1, <1>2, <2>1 DEF FrameRecords, FrameStates
  <1>3. CASE ~(q = victim[t] /\ frames[q].state = "RELOADED" /\ pc[t] = "written")
    BY <1>1, <1>3 DEF Base
  <1>4. QED
    BY <1>2, <1>3

(* What becomes of the frame of t when its page is read. *)
LEMMA ReadIntoFields ==
    ASSUME NEW t \in Threads, NEW b \in FrameRecords, NEW s \in Slots,
           b.locked = TRUE, b.writers = {t}, b.readers = {}
    PROVE  LET g == ReadInto(b, s)
           IN  /\ g \in FrameRecords
               /\ g.state = "LOADING" /\ g.slot = s /\ g.users = b.users
               /\ g.locked = TRUE /\ g.writers = {t} /\ g.readers = {}
  BY DEF ReadInto, FrameRecords, FrameStates

(* A frame whose page was zeroed: loaded, and unlatched. *)
IsZeroed(g, b, s) ==
    /\ g \in FrameRecords
    /\ g.state = "LOADED" /\ g.slot = s /\ g.users = b.users
    /\ g.locked = FALSE /\ g.writers = {} /\ g.readers = {} /\ g.dirty = FALSE

(* What becomes of the frame of t when its page is zeroed. *)
LEMMA ZeroedIntoFields ==
    ASSUME NEW t \in Threads, NEW b \in FrameRecords, NEW s \in Slots,
           b.locked = TRUE, b.writers = {t}, b.readers = {}
    PROVE  IsZeroed(ZeroedInto(b, t, s), b, s)
  <1> DEFINE c == [b EXCEPT !.state = "LOADED", !.dirty = FALSE, !.slot = s]
             g == ZeroedInto(b, t, s)
  <1>1. /\ c \in FrameRecords /\ c.locked = TRUE /\ c.writers = {t} /\ c.readers = {}
        /\ c.state = "LOADED" /\ c.dirty = FALSE /\ c.slot = s /\ c.users = b.users
    BY DEF FrameRecords, FrameStates
  <1>2. g = Unlatched(c, t)
    BY DEF ZeroedInto
  <1> HIDE DEF c
  <1>3. g = [c EXCEPT !.writers = {t} \ {t}, !.locked = FALSE]
    BY <1>1, <1>2 DEF Unlatched
  <1> HIDE DEF g
  <1>4. /\ g \in FrameRecords
        /\ g.state = "LOADED" /\ g.slot = s /\ g.users = b.users
        /\ g.locked = FALSE /\ g.writers = {} /\ g.readers = {} /\ g.dirty = FALSE
    BY <1>1, <1>3 DEF FrameRecords
  <1>5. QED
    BY <1>4 DEF g, IsZeroed

(* What becomes of it when fix_page throws buffer_full_error. *)
LEMMA GivenUpFrame ==
    ASSUME IInv, NEW t \in Threads, Allocates(t)
    PROVE  LET b == Base(t)[call[t].page]
           IN  /\ DroppedFrame(t) \in FrameRecords
               /\ b.users = 1 => DroppedFrame(t) = Absent
               /\ b.users # 1 =>
                     /\ DroppedFrame(t).state = "NEW" /\ DroppedFrame(t).slot = NoSlot
                     /\ DroppedFrame(t).users = b.users - 1 /\ DroppedFrame(t).users > 0
                     /\ DroppedFrame(t).locked = FALSE
                     /\ DroppedFrame(t).writers = {} /\ DroppedFrame(t).readers = {}
  <1> DEFINE b == Base(t)[call[t].page]
  <1>1. /\ b \in FrameRecords /\ b.locked = TRUE /\ b.writers = {t} /\ b.readers = {}
        /\ b.state = "NEW" /\ b.slot = NoSlot /\ b.users > 0
    BY BaseFrame
  <1>2. Absent \in FrameRecords
    BY DEF Absent, FrameRecords, FrameStates
  <1>3. DroppedFrame(t) = DroppedNew(Unlatched(b, t))
    BY DEF DroppedFrame
  <1> HIDE DEF b
  <1> DEFINE c == Unlatched(b, t)
  <1>4. /\ c \in FrameRecords /\ c.state = "NEW" /\ c.slot = NoSlot /\ c.users = b.users
        /\ c.locked = FALSE /\ c.writers = {} /\ c.readers = {}
    BY <1>1 DEF Unlatched, FrameRecords
  <1> HIDE DEF c
  <1>5. CASE b.users = 1
    BY <1>2, <1>3, <1>4, <1>5 DEF DroppedNew, c, b
  <1>6. CASE b.users # 1
    <2>1. DroppedFrame(t) = [c EXCEPT !.users = c.users - 1]
      BY <1>3, <1>4, <1>6 DEF DroppedNew, c
    <2>2. c.users \in Nat /\ c.users > 1
      BY <1>1, <1>4, <1>6 DEF FrameRecords
    <2>3. QED
      BY <1>4, <1>6, <2>1, <2>2 DEF FrameRecords, b
  <1>7. QED
    BY <1>5, <1>6

(***************************************************************************)
(* The sections of fix_page have one of these outcomes.                    *)
(***************************************************************************)
FixOutcome(t) ==
    \/ Queues(t) \/ Touches(t) \/ Fails(t)
    \/ \E v \in Pages : Writes(t, v)
    \/ \E v \in Pages \cup {NoPage}, s \in Slots : GetsZeroed(t, v, s) \/ GetsLoading(t, v, s)

(* NoPage is in no list. *)
LEMMA NoPageAbsent ==
    ASSUME NEW list \in Seq(Pages)
    PROVE  RemoveFirst(list, NoPage) = list
  <1>1. \A i \in DOMAIN list : list[i] \in Pages
    OBVIOUS
  <1>2. NoPage \notin Pages
    BY BufferAssumption DEF NoPage, Pages
  <1>3. NoPage \notin ToSet(list)
    BY <1>1, <1>2 DEF ToSet
  <1>4. QED
    BY <1>3, RemoveFirstAbsent

(* Sets of pages are finite. *)
LEMMA PagesFinite ==
    ASSUME NEW P \in SUBSET Pages
    PROVE  IsFiniteSet(P) /\ Cardinality(P) \in Nat
  <1>1. IsFiniteSet(Pages)
    BY BufferAssumption, FS_Interval DEF Pages
  <1>2. QED
    BY <1>1, FS_Subset, FS_CardinalityType

(* The slot index that fix_page computes when it makes a frame. *)
LEMMA SlotIndex ==
    ASSUME IInv, NEW t \in Threads, Allocates(t), pc[t] # "written"
    PROVE  LET index == Cardinality(Resident(Base(t))) - 1
               used == Cardinality(InMemory(frames))
           IN  /\ index < PageCount =>
                     /\ index = used
                     /\ \A q \in Pages \ {call[t].page} : frames[q].state # "NEW"
               /\ index >= PageCount => used = PageCount
  <1> DEFINE p == call[t].page
             R == Resident(Base(t))
             M == InMemory(frames)
  <1>1. p \in Pages /\ p \notin M /\ p \in R
    BY BaseFrame DEF InMemory, Resident
  <1>2. \A q \in Pages \ {p} : q \in R <=> q \in M \/ frames[q].state = "NEW"
    <2> TAKE q \in Pages \ {p}
    <2>1. Base(t)[q] = frames[q]
      BY BaseOthers
    <2>2. frames[q].state \in Empty <=> frames[q].slot = NoSlot
      BY DEF IInv, FramesInv, FrameInv
    <2>3. QED
      BY <2>1, <2>2 DEF Resident, InMemory, Empty
  <1>3. M \in SUBSET Pages /\ R \in SUBSET Pages
    BY DEF InMemory, Resident
  <1>4. /\ Cardinality(M) <= PageCount
        /\ \A q \in Pages : frames[q].state = "NEW" => Cardinality(M) = PageCount
    BY DEF IInv, SlotsInv
  <1> HIDE DEF R, M
  <1>5. IsFiniteSet(M) /\ Cardinality(M) \in Nat /\ IsFiniteSet(R) /\ Cardinality(R) \in Nat
    BY <1>3, PagesFinite
  <1>6. IsFiniteSet(M \cup {p}) /\ Cardinality(M \cup {p}) = Cardinality(M) + 1
    BY <1>1, <1>5, FS_AddElement
  <1>7. PageCount \in Nat
    BY BufferAssumption
  <1>8. CASE \A q \in Pages \ {p} : frames[q].state # "NEW"
    <2>1. R = M \cup {p}
      BY <1>1, <1>2, <1>3, <1>8
    <2>2. QED
      BY <1>4, <1>5, <1>6, <1>7, <1>8, <2>1 DEF R, M
  <1>9. CASE ~ \A q \in Pages \ {p} : frames[q].state # "NEW"
    <2>1. Cardinality(M) = PageCount
      BY <1>4, <1>9
    <2>2. M \cup {p} \subseteq R
      BY <1>1, <1>2, <1>3
    <2>3. Cardinality(M \cup {p}) <= Cardinality(R)
      BY <1>5, <2>2, FS_Subset
    <2>4. Cardinality(R) - 1 >= PageCount
      BY <1>5, <1>6, <1>7, <2>1, <2>3
    <2>5. QED
      BY <1>5, <1>7, <2>1, <2>4 DEF R, M
  <1>10. QED
    BY <1>8, <1>9

(* The tail of fix_page, for a free slot or for that of a victim. *)
LEMMA LoadIntoSlot ==
    ASSUME IInv, NEW t \in Threads, NEW v \in Pages \cup {NoPage}, NEW s, Gets(t, v, s),
           NEW f, f = [q \in Pages |-> IF q = v THEN Absent ELSE Base(t)[q]],
           LoadInto(t, f, RemoveFirst(fifo, v), RemoveFirst(lru, v), s)
    PROVE  GetsZeroed(t, v, s) \/ GetsLoading(t, v, s)
  <1> DEFINE p == call[t].page
  <1>1. Allocates(t)
    BY DEF Gets
  <1>2. p \in Pages
    BY <1>1, BaseFrame
  <1>3. v # p
    BY <1>2, BufferAssumption DEF Gets, NoPage, Pages
  <1>4. f[p] = Base(t)[p]
    BY <1>2, <1>3
  <1>5. size \in Int /\ p \in Int
    BY <1>2 DEF IInv, TypeOK, Pages
  <1>6. CASE size < p
    <2>1. frames' = [f EXCEPT ![p] =
             Unlatched([f[p] EXCEPT !.state = "LOADED", !.dirty = FALSE, !.slot = s], t)]
      BY <1>5, <1>6 DEF LoadInto
    <2>2. frames' = [f EXCEPT ![p] = LoadedFrame(t, s)]
      BY <1>4, <2>1 DEF LoadedFrame, ZeroedInto
    <2>3. frames' = OthersAfter(t, v, LoadedFrame(t, s))
      BY <2>2 DEF OthersAfter
    <2>4. size' = p /\ mem' = [mem EXCEPT ![s] = Zero] /\ pc' = [pc EXCEPT ![t] = "latch"]
      BY <1>5, <1>6 DEF LoadInto
    <2>5. QED
      BY <1>6, <2>3, <2>4 DEF GetsZeroed
  <1>7. CASE size >= p
    <2>1. frames' = [f EXCEPT ![p].state = "LOADING", ![p].slot = s]
      BY <1>5, <1>7 DEF LoadInto
    <2>2. frames' = [f EXCEPT ![p] = [f[p] EXCEPT !.state = "LOADING", !.slot = s]]
      BY <1>2, <2>1
    <2>3. frames' = [f EXCEPT ![p] = LoadingFrame(t, s)]
      BY <1>4, <2>2 DEF LoadingFrame, ReadInto
    <2>4. frames' = OthersAfter(t, v, LoadingFrame(t, s))
      BY <2>3 DEF OthersAfter
    <2>5. UNCHANGED <<size, mem>> /\ pc' = [pc EXCEPT ![t] = "reading"]
      BY <1>5, <1>7 DEF LoadInto
    <2>6. QED
      BY <1>7, <2>4, <2>5 DEF GetsLoading
  <1>8. QED
    BY <1>5, <1>6, <1>7

(* evict_page, from the top of its loop. *)
LEMMA EvictOutcome ==
    ASSUME IInv, NEW t \in Threads, Allocates(t), Evict(t, Base(t)),
           Cardinality(InMemory(frames)) = PageCount
    PROVE  FixOutcome(t)
  <1> DEFINE p == call[t].page
             v == FindPageToEvict(Base(t))
  <1>1. p \in Pages /\ Base(t)[p].state = "NEW"
    BY BaseFrame
  <1>2. fifo \in Seq(Pages) /\ lru \in Seq(Pages)
    BY DEF IInv, TypeOK
  <1>3. v # NoPage => v \in Pages \ {p} /\ Base(t)[v].users = 0 /\ Base(t)[v].state = "LOADED"
    BY <1>1, <1>2, VictimIsIdle
  <1>4. CASE v = NoPage
    BY <1>4 DEF Evict, Fails, FixOutcome, DroppedFrame
  <1>5. CASE v # NoPage /\ Base(t)[v].dirty
    <2> HIDE DEF v
    <2>1. Writes(t, v)
      BY <1>3, <1>5 DEF Evict, Writes, v
    <2>2. QED
      BY <1>3, <1>5, <2>1 DEF FixOutcome
  <1>6. CASE v # NoPage /\ ~Base(t)[v].dirty
    <2> HIDE DEF v
    <2>1. /\ v \in Pages \ {p}
          /\ LoadInto(t, [Base(t) EXCEPT ![v] = Absent], RemoveFirst(fifo, v), RemoveFirst(lru, v),
                      Base(t)[v].slot)
          /\ victim' = [victim EXCEPT ![t] = NoPage]
          /\ copy' = [copy EXCEPT ![t] = Zero]
          /\ UNCHANGED call
      BY <1>3, <1>6 DEF Evict, v
    <2>2. frames[v].state = "LOADED" /\ frames[v].users = 0 /\ ~frames[v].dirty
          /\ frames[v].slot = Base(t)[v].slot
      <3>1. frames[v].state = "RELOADED" => frames[v].dirty
        BY <2>1 DEF IInv, FramesInv, FrameInv, Claimed
      <3>2. QED
        BY <1>3, <1>6, <2>1, <3>1, BaseOthers
    <2>3. frames[v].slot \in Slots /\ \A q \in Pages \ {v} : frames[q].slot # frames[v].slot
      <3>1. frames[v].slot # NoSlot
        BY <2>1, <2>2 DEF IInv, FramesInv, FrameInv, Empty
      <3>2. frames[v] \in FrameRecords
        BY <2>1 DEF IInv, TypeOK
      <3>3. QED
        BY <2>1, <3>1, <3>2 DEF IInv, SlotsInv, SlotsDistinct, FrameRecords
    <2>4. fifo' = Append(RemoveFirst(fifo, v), p) /\ lru' = RemoveFirst(lru, v)
      BY <2>1 DEF LoadInto
    <2>5. Gets(t, v, frames[v].slot)
      BY <2>1, <2>2, <2>3, <2>4 DEF Gets
    <2>6. [Base(t) EXCEPT ![v] = Absent] = [q \in Pages |-> IF q = v THEN Absent ELSE Base(t)[q]]
      BY DEF Base
    <2>7. GetsZeroed(t, v, frames[v].slot) \/ GetsLoading(t, v, frames[v].slot)
      BY <2>1, <2>2, <2>5, <2>6, LoadIntoSlot
    <2>8. QED
      BY <2>1, <2>3, <2>7 DEF FixOutcome
  <1>7. QED
    BY <1>4, <1>5, <1>6

(* fix_page when there is no frame for its page. *)
LEMMA CreateOutcome ==
    ASSUME IInv, NEW t \in Threads, Allocates(t), pc[t] # "written",
           NEW f, f[call[t].page].state = "ABSENT",
           [f EXCEPT ![call[t].page] = Created(t)] = Base(t),
           LookUpIn(t, f)
    PROVE  FixOutcome(t)
  <1> DEFINE p == call[t].page
             index == Cardinality(Resident(Base(t))) - 1
  <1>1. CASE index < PageCount
    <2>1. /\ index = Cardinality(InMemory(frames))
          /\ \A q \in Pages \ {p} : frames[q].state # "NEW"
      BY <1>1, SlotIndex
    <2>2. index \in Slots
      <3>1. Cardinality(InMemory(frames)) \in Nat
        BY PagesFinite DEF InMemory
      <3>2. QED
        BY <1>1, <2>1, <3>1, BufferAssumption DEF Slots
    <2> HIDE DEF index
    <2>3. LoadInto(t, Base(t), fifo, lru, index) /\ UNCHANGED <<call, copy, victim>>
      <3>1. Cardinality(Resident(Base(t))) - 1 = index
        BY DEF index
      <3>2. ~(index >= PageCount)
        BY <1>1, <2>2, BufferAssumption DEF Slots
      <3>3. QED
        BY <3>1, <3>2 DEF LookUpIn
    <2>4. \A q \in Pages : frames[q].slot # index
      <3> TAKE q \in Pages
      <3>1. frames[q].slot # NoSlot => frames[q].slot < Cardinality(InMemory(frames))
        BY DEF IInv, SlotsInv, InMemory
      <3>2. QED
        BY <2>1, <2>2, <3>1, BufferAssumption DEF Slots, NoSlot
    <2>5. RemoveFirst(fifo, NoPage) = fifo /\ RemoveFirst(lru, NoPage) = lru
      BY NoPageAbsent DEF IInv, TypeOK
    <2>6. fifo' = Append(RemoveFirst(fifo, NoPage), p) /\ lru' = RemoveFirst(lru, NoPage)
      BY <2>3, <2>5 DEF LoadInto
    <2>7. Gets(t, NoPage, index)
      BY <1>1, <2>1, <2>2, <2>3, <2>4, <2>6 DEF Gets
    <2>8. Base(t) = [q \in Pages |-> IF q = NoPage THEN Absent ELSE Base(t)[q]]
      BY BufferAssumption DEF Base, NoPage, Pages
    <2>9. GetsZeroed(t, NoPage, index) \/ GetsLoading(t, NoPage, index)
      BY <2>3, <2>5, <2>7, <2>8, LoadIntoSlot
    <2>10. QED
      BY <2>2, <2>9 DEF FixOutcome
  <1>2. CASE ~(index < PageCount)
    <2>1. index >= PageCount
      <3>1. Cardinality(Resident(Base(t))) \in Nat
        BY PagesFinite DEF Resident
      <3>2. QED
        BY <1>2, <3>1, BufferAssumption
    <2>2. Cardinality(InMemory(frames)) = PageCount
      BY <2>1, SlotIndex
    <2>3. Evict(t, Base(t))
      BY <1>2 DEF LookUpIn
    <2>4. QED
      BY <2>2, <2>3, EvictOutcome
  <1>3. QED
    BY <1>1, <1>2

(* fix_page up to its first wait. *)
LEMMA LookUpOutcome ==
    ASSUME IInv, NEW t \in Threads, LookUp(t)
    PROVE  FixOutcome(t)
  <1> DEFINE p == call[t].page
  <1>1. pc[t] = "lookup" /\ LookUpIn(t, frames) /\ UNCHANGED <<disk, clientVars>>
    BY DEF LookUp
  <1>2. p \in Pages
    BY <1>1, PageOf
  <1>3. CASE frames[p].state = "NEW"
    <2>1. Queues(t)
      BY <1>1, <1>3 DEF LookUpIn, Queues
    <2>2. QED
      BY <2>1 DEF FixOutcome
  <1>4. CASE frames[p].state \notin Empty
    <2>1. Touches(t)
      BY <1>1, <1>2, <1>4 DEF LookUpIn, Touch, Touches, Empty
    <2>2. QED
      BY <2>1 DEF FixOutcome
  <1>5. CASE frames[p].state = "ABSENT"
    <2>1. \A u \in Threads : ~Uses(u, p)
      <3>1. frames[p] = Absent
        BY <1>2, <1>5 DEF IInv, FramesInv, FrameInv
      <3>2. frames[p].users = 0
        BY <3>1 DEF Absent
      <3>3. QED
        BY <1>2, <3>2, UsersCount DEF IInv
    <2>2. Allocates(t)
      BY <1>1, <1>5, <2>1 DEF Allocates, Empty
    <2>3. [frames EXCEPT ![p] = Created(t)] = Base(t)
      BY <1>1 DEF Base, IInv, TypeOK
    <2>4. QED
      BY <1>1, <1>5, <2>2, <2>3, CreateOutcome
  <1>6. QED
    BY <1>3, <1>4, <1>5 DEF Empty

(* A user who gives a frame back and takes it again leaves it as it was. *)
LEMMA UsersUpAndDown ==
    ASSUME NEW frame \in FrameRecords, NEW less,
           less = [frame EXCEPT !.users = frame.users - 1]
    PROVE  [less EXCEPT !.users = less.users + 1] = frame
  <1>1. frame.users \in Int /\ less.users = frame.users - 1
    BY DEF FrameRecords
  <1>2. less.users + 1 = frame.users
    BY <1>1
  <1>3. [less EXCEPT !.users = frame.users] = frame
    BY DEF FrameRecords
  <1>4. QED
    BY <1>2, <1>3

(* fix_page after it has waited for the creator of the frame. *)
LEMMA RecheckOutcome ==
    ASSUME IInv, NEW t \in Threads, Recheck(t)
    PROVE  FixOutcome(t)
  <1> DEFINE p == call[t].page
             f == [frames EXCEPT ![p] = DroppedNew(@)]
  <1>1. pc[t] = "recheck" /\ UNCHANGED <<disk, clientVars>>
    BY DEF Recheck
  <1>2. p \in Pages /\ frames[p] \in FrameRecords /\ frames \in [Pages -> FrameRecords]
    BY <1>1, PageOf DEF IInv, TypeOK
  <1>3. CASE frames[p].state # "NEW"
    <2>1. Touch(t, frames)
      BY <1>3 DEF Recheck
    <2>2. frames[p].state # "ABSENT"
      <3>1. Uses(t, p)
        BY <1>1, <1>2, UsesIff DEF CallsFor
      <3>2. frames[p].users > 0
        BY <1>2, <3>1, UsersCount DEF IInv
      <3>3. Absent.users = 0
        BY DEF Absent
      <3>4. QED
        BY <1>2, <3>2, <3>3 DEF IInv, FramesInv, FrameInv
    <2>3. Touches(t)
      BY <1>1, <1>3, <2>1, <2>2 DEF Touch, Touches, Empty
    <2>4. QED
      BY <2>3 DEF FixOutcome
  <1>4. CASE frames[p].state = "NEW" /\ frames[p].users # 1
    <2>1. LookUpIn(t, f)
      BY <1>4 DEF Recheck
    <2>2. f = [frames EXCEPT ![p] = [frames[p] EXCEPT !.users = frames[p].users - 1]]
      BY <1>2, <1>4 DEF DroppedNew
    <2>3. f[p] = [frames[p] EXCEPT !.users = frames[p].users - 1]
      BY <1>2, <2>2
    <2>4. f[p].state = "NEW" /\ f[p].users = frames[p].users - 1
      BY <1>2, <1>4, <2>3 DEF FrameRecords
    <2> HIDE DEF f
    <2>5. /\ frames' = [f EXCEPT ![p].users = @ + 1]
          /\ pc' = [pc EXCEPT ![t] = "waitnew"]
          /\ UNCHANGED <<fifo, lru, mem, size, call, copy, victim>>
      BY <2>1, <2>4 DEF LookUpIn
    <2>6. frames' = frames
      <3>1. [f[p] EXCEPT !.users = f[p].users + 1] = frames[p]
        BY <1>2, <2>3, UsersUpAndDown
      <3>2. frames' = [f EXCEPT ![p] = [f[p] EXCEPT !.users = f[p].users + 1]]
        BY <1>2, <2>2, <2>5
      <3>3. QED
        BY <1>2, <2>2, <3>1, <3>2
    <2>7. Queues(t)
      BY <1>1, <1>4, <2>5, <2>6 DEF Queues
    <2>8. QED
      BY <2>7 DEF FixOutcome
  <1>5. CASE frames[p].state = "NEW" /\ frames[p].users = 1
    <2>1. LookUpIn(t, f)
      BY <1>5 DEF Recheck
    <2>2. f = [frames EXCEPT ![p] = Absent]
      BY <1>5 DEF DroppedNew
    <2>3. f[p].state = "ABSENT"
      BY <1>2, <2>2 DEF Absent
    <2>4. [f EXCEPT ![p] = Created(t)] = Base(t)
      BY <1>1, <1>2, <2>2 DEF Base
    <2>5. \A u \in Threads \ {t} : ~Uses(u, p)
      <3>1. Uses(t, p)
        BY <1>1, <1>2, UsesIff DEF CallsFor
      <3>2. QED
        BY <1>2, <1>5, <3>1, UsersCount DEF IInv
    <2>6. Allocates(t)
      BY <1>1, <1>5, <2>5 DEF Allocates, Empty
    <2> HIDE DEF f
    <2>7. QED
      BY <1>1, <2>1, <2>3, <2>4, <2>6, CreateOutcome
  <1>6. QED
    BY <1>3, <1>4, <1>5

(* evict_page after the write, when the victim is still free. *)
LEMMA EvictedOutcome ==
    ASSUME IInv, NEW t \in Threads, Evicted(t)
    PROVE  FixOutcome(t)
  <1> DEFINE p == call[t].page
             v == victim[t]
  <1>1. pc[t] = "written" /\ frames[v].state = "EVICTING" /\ UNCHANGED <<disk, clientVars>>
    BY DEF Evicted
  <1>2. v \in Pages /\ frames[p].state = "NEW"
    BY <1>1 DEF IInv, CallsInv, Evicting
  <1>3. Allocates(t)
    BY <1>1 DEF Allocates
  <1>4. frames[v].users = 0 /\ frames[v].slot # NoSlot /\ frames[v] \in FrameRecords
    BY <1>1, <1>2 DEF IInv, FramesInv, FrameInv, Empty, TypeOK
  <1>5. frames[v].slot \in Slots /\ \A q \in Pages \ {v} : frames[q].slot # frames[v].slot
    BY <1>2, <1>4 DEF IInv, SlotsInv, SlotsDistinct, FrameRecords
  <1>6. /\ LoadInto(t, [frames EXCEPT ![v] = Absent], RemoveFirst(fifo, v), RemoveFirst(lru, v),
                    frames[v].slot)
        /\ victim' = [victim EXCEPT ![t] = NoPage]
        /\ copy' = [copy EXCEPT ![t] = Zero]
        /\ call' = call
    BY DEF Evicted
  <1>7. fifo' = Append(RemoveFirst(fifo, v), p) /\ lru' = RemoveFirst(lru, v)
    BY <1>6 DEF LoadInto
  <1>8. Gets(t, v, frames[v].slot)
    BY <1>1, <1>2, <1>3, <1>4, <1>5, <1>6, <1>7 DEF Gets
  <1>9. [frames EXCEPT ![v] = Absent] = [q \in Pages |-> IF q = v THEN Absent ELSE Base(t)[q]]
    BY <1>1 DEF Base, IInv, TypeOK
  <1>10. GetsZeroed(t, v, frames[v].slot) \/ GetsLoading(t, v, frames[v].slot)
    BY <1>2, <1>6, <1>8, <1>9, LoadIntoSlot
  <1>11. QED
    BY <1>2, <1>5, <1>10 DEF FixOutcome

(* evict_page after the write, when the victim was fixed meanwhile. *)
LEMMA ReloadedOutcome ==
    ASSUME IInv, NEW t \in Threads, Reloaded(t)
    PROVE  FixOutcome(t)
  <1> DEFINE v == victim[t]
  <1>1. /\ pc[t] = "written" /\ frames[v].state = "RELOADED" /\ UNCHANGED <<disk, clientVars>>
        /\ Evict(t, [frames EXCEPT ![v].state = "LOADED"])
    BY DEF Reloaded
  <1>2. v \in Pages /\ call[t].page \in Pages /\ frames[call[t].page].state = "NEW"
    BY <1>1 DEF IInv, CallsInv, Evicting
  <1>3. Allocates(t)
    BY <1>1 DEF Allocates
  <1>4. [frames EXCEPT ![v].state = "LOADED"] = Base(t)
    BY <1>1, <1>2 DEF Base, IInv, TypeOK
  <1>5. Cardinality(InMemory(frames)) = PageCount
    BY <1>2 DEF IInv, SlotsInv
  <1>6. QED
    BY <1>1, <1>3, <1>4, <1>5, EvictOutcome

------------------------------------------------------------------------------
(***************************************************************************)
(* What the parts of the invariant need of a step.                         *)
(***************************************************************************)

(* UsesIff, after a step. *)
LEMMA UsesIffNext ==
    ASSUME NEW t \in Threads, NEW p \in Pages
    PROVE  Uses(t, p)' <=> Holds(t, p)' \/ CallsFor(t, p)'
  BY DEF Uses, InUse, Fixed, Holds, CallsFor

(* One thread begins or ceases to use pages, and num_users follows. *)
LEMMA UsersFollow ==
    ASSUME IInv, NEW t \in Threads,
           \A u \in Threads \ {t} : \A q \in Pages : Uses(u, q)' <=> Uses(u, q),
           \A q \in Pages :
              /\ (Uses(t, q)' <=> Uses(t, q)) => frames'[q].users = frames[q].users
              /\ Uses(t, q)' /\ ~Uses(t, q) => frames'[q].users = frames[q].users + 1
              /\ ~Uses(t, q)' /\ Uses(t, q) => frames'[q].users = frames[q].users - 1
    PROVE  UsersExact'
  <1> SUFFICES ASSUME NEW q \in Pages
               PROVE  frames'[q].users = Cardinality({u \in Threads : Uses(u, q)'})
    BY DEF UsersExact
  <1> DEFINE A == {u \in Threads : Uses(u, q)}
             B == {u \in Threads : Uses(u, q)'}
  <1>1. frames[q].users = Cardinality(A)
    BY DEF IInv, UsersExact
  <1>2. /\ t \in A <=> Uses(t, q)
        /\ t \in B <=> Uses(t, q)'
        /\ \A u \in Threads \ {t} : u \in A <=> u \in B
        /\ A \in SUBSET Threads /\ B \in SUBSET Threads
    OBVIOUS
  <1> HIDE DEF A, B
  <1>3. /\ (t \in A <=> t \in B) => Cardinality(B) = Cardinality(A)
        /\ t \notin A /\ t \in B => Cardinality(B) = Cardinality(A) + 1
        /\ t \in A /\ t \notin B => Cardinality(B) = Cardinality(A) - 1
    BY <1>2, CountOthers
  <1>4. frames'[q].users = Cardinality(B)
    BY <1>1, <1>2, <1>3
  <1>5. QED
    BY <1>4 DEF B

(* No page changes its slot, and none becomes NEW unless memory is full. *)
LEMMA SlotsStay ==
    ASSUME IInv,
           \A q \in Pages : /\ frames'[q].slot = frames[q].slot
                            /\ frames'[q].state = "NEW" =>
                                  \/ frames[q].state = "NEW"
                                  \/ Cardinality(InMemory(frames)) = PageCount
    PROVE  /\ SlotsInv'
           /\ UNCHANGED <<fifo, lru>> => ListsMatchFrames'
  <1>1. InMemory(frames)' = InMemory(frames)
    BY DEF InMemory
  <1>2. SlotsInv'
    <2> DEFINE M == InMemory(frames)
    <2>1. /\ SlotsDistinct
          /\ Cardinality(M) <= PageCount
          /\ \A p \in M : frames[p].slot < Cardinality(M)
          /\ \A s \in Slots : s < Cardinality(M) => \E p \in M : frames[p].slot = s
          /\ \A p \in Pages : frames[p].state = "NEW" => Cardinality(M) = PageCount
      BY DEF IInv, SlotsInv
    <2>2. M \subseteq Pages
      BY DEF InMemory
    <2>3. SlotsDistinct'
      BY <2>1 DEF SlotsDistinct
    <2> HIDE DEF M
    <2>4. QED
      BY <1>1, <2>1, <2>2, <2>3 DEF SlotsInv, M
  <1>3. UNCHANGED <<fifo, lru>> => ListsMatchFrames'
    <2>1. {p \in Pages : frames'[p].slot # NoSlot} = {p \in Pages : frames[p].slot # NoSlot}
      OBVIOUS
    <2>2. QED
      BY <2>1 DEF IInv, ListsMatchFrames
  <1>4. QED
    BY <1>2, <1>3

(* A frame stays as it is, and whoever works on it goes on. *)
LEMMA FrameStays ==
    ASSUME IInv, NEW q \in Pages, frames'[q] = frames[q],
           \A u \in Threads : call[u].page = q =>
              /\ Loading(u) => Loading(u)' /\ call'[u] = call[u]
              /\ Evicting(u) => Evicting(u)' /\ call'[u] = call[u]
    PROVE  FrameInv(q)'
  <1>1. FrameInv(q) /\ frames[q].writers \in SUBSET Threads
    BY DEF IInv, FramesInv, TypeOK, FrameRecords
  <1>2. frames[q].state = "LOADING" => \E u \in Threads : Loading(u)' /\ call'[u].page = q
    BY <1>1 DEF FrameInv
  <1>3. frames[q].state = "NEW" => \A u \in frames[q].writers : Evicting(u)' /\ call'[u].page = q
    BY <1>1 DEF FrameInv
  <1>4. QED
    BY <1>1, <1>2, <1>3 DEF FrameInv

(* The frames stay as they are, but for one thread's place in its call. *)
LEMMA FramesStay ==
    ASSUME IInv, frames' = frames, fifo' = fifo, lru' = lru
    PROVE  LatchInv' /\ ListsMatchFrames' /\ SlotsInv'
  <1>1. SlotsInv' /\ ListsMatchFrames'
    BY SlotsStay
  <1>2. LatchInv'
    BY DEF IInv, LatchInv
  <1>3. QED
    BY <1>1, <1>2

(* No thread begins to evict. *)
LEMMA VictimsStay ==
    ASSUME IInv,
           \A u \in Threads : Evicting(u)' => Evicting(u) /\ victim'[u] = victim[u]
    PROVE  VictimsInv'
  <1>1. VictimsInv
    BY DEF IInv
  <1> SUFFICES ASSUME NEW u \in Threads, NEW w \in Threads,
                      Evicting(u)', Evicting(w)', victim'[u] = victim'[w]
               PROVE  u = w
    BY DEF VictimsInv
  <1>2. Evicting(u) /\ Evicting(w) /\ victim[u] = victim[w]
    OBVIOUS
  <1>3. QED
    BY <1>1, <1>2 DEF VictimsInv

(***************************************************************************)
(* The steps.                                                              *)
(***************************************************************************)
LEMMA FixStep ==
    ASSUME IInv, NEW t \in Threads, NEW p \in Pages, NEW exclusive \in BOOLEAN,
           Fix(t, p, exclusive)
    PROVE  IInv'
  <1>1. /\ pc[t] = "idle" /\ pc'[t] = "lookup" /\ call'[t].page = p /\ p \notin Fixed(t)
        /\ \A u \in Threads \ {t} : pc'[u] = pc[u] /\ call'[u] = call[u]
        /\ UNCHANGED <<bufferVars, mem, disk, size, copy, victim, truth, wrote>>
    BY DEF Fix, IInv, TypeOK
  <1>2. TypeOK'
    <2>1. left' \in [Threads -> 0..MaxCalls]
      BY BufferAssumption DEF Fix, IInv, TypeOK
    <2>2. call' \in [Threads -> Calls]
      BY DEF Fix, IInv, TypeOK, Calls
    <2>3. QED
      BY <1>1, <2>1, <2>2 DEF Fix, IInv, TypeOK, PCs, bufferVars
  <1>3. CallsInv'
    BY <1>1 DEF IInv, CallsInv, Waiting, Loading, Evicting, Fixed, bufferVars
  <1>4. VictimsInv'
    <2>1. \A u \in Threads : Evicting(u)' => Evicting(u) /\ victim'[u] = victim[u]
      BY <1>1 DEF Evicting
    <2>2. QED
      BY <2>1, VictimsStay
  <1>5. FramesInv'
    <2>1. \A u \in Threads : /\ Loading(u) => Loading(u)' /\ call'[u] = call[u]
                             /\ Evicting(u) => Evicting(u)' /\ call'[u] = call[u]
      BY <1>1 DEF Loading, Evicting
    <2>2. ASSUME NEW q \in Pages PROVE FrameInv(q)'
      <3>1. frames'[q] = frames[q]
        BY <1>1 DEF bufferVars
      <3>2. QED
        BY <2>1, <3>1, FrameStays
    <2>3. QED
      BY <2>2 DEF FramesInv
  <1>6. UsersExact'
    <2>1. \A u \in Threads : \A q \in Pages : Uses(u, q)' <=> Uses(u, q)
      BY <1>1, UsesIff, UsesIffNext DEF Holds, CallsFor, bufferVars
    <2>2. QED
      BY <1>1, <2>1, UsersFollow DEF bufferVars
  <1>7. LatchInv' /\ ListsMatchFrames' /\ SlotsInv'
    BY <1>1, FramesStay DEF bufferVars
  <1>8. PagesInv'
    BY <1>1 DEF IInv, PagesInv, PageInv, Flagged, bufferVars
  <1>9. CopiesInv'
    BY <1>1 DEF IInv, CopiesInv, bufferVars
  <1>10. QED
    BY <1>2, <1>3, <1>4, <1>5, <1>6, <1>7, <1>8, <1>9 DEF IInv

(* The wait for the creator of a frame ends. *)
LEMMA WaitNewStep ==
    ASSUME IInv, NEW t \in Threads, WaitNew(t)
    PROVE  IInv'
  <1>1. /\ pc[t] = "waitnew" /\ pc'[t] = "recheck"
        /\ \A u \in Threads \ {t} : pc'[u] = pc[u]
        /\ UNCHANGED <<call, frames, fifo, lru, mem, disk, size, copy, victim, truth, wrote, left>>
    BY DEF WaitNew, IInv, TypeOK, bufferVars, clientVars
  <1>2. TypeOK'
    BY <1>1 DEF WaitNew, IInv, TypeOK, PCs
  <1>3. CallsInv'
    BY <1>1 DEF IInv, CallsInv, Waiting, Loading, Evicting, Fixed
  <1>4. VictimsInv'
    <2>1. \A u \in Threads : Evicting(u)' => Evicting(u) /\ victim'[u] = victim[u]
      BY <1>1 DEF Evicting
    <2>2. QED
      BY <2>1, VictimsStay
  <1>5. FramesInv'
    <2>1. \A u \in Threads : /\ Loading(u) => Loading(u)' /\ call'[u] = call[u]
                             /\ Evicting(u) => Evicting(u)' /\ call'[u] = call[u]
      BY <1>1 DEF Loading, Evicting
    <2>2. ASSUME NEW q \in Pages PROVE FrameInv(q)'
      <3>1. frames'[q] = frames[q]
        BY <1>1
      <3>2. QED
        BY <2>1, <3>1, FrameStays
    <2>3. QED
      BY <2>2 DEF FramesInv
  <1>6. UsersExact'
    <2>1. \A u \in Threads : \A q \in Pages : Uses(u, q)' <=> Uses(u, q)
      BY <1>1, UsesIff, UsesIffNext DEF Holds, CallsFor
    <2>2. QED
      BY <1>1, <2>1, UsersFollow
  <1>7. LatchInv' /\ ListsMatchFrames' /\ SlotsInv'
    BY <1>1, FramesStay
  <1>8. PagesInv'
    BY <1>1 DEF IInv, PagesInv, PageInv, Flagged
  <1>9. CopiesInv'
    BY <1>1 DEF IInv, CopiesInv
  <1>10. QED
    BY <1>2, <1>3, <1>4, <1>5, <1>6, <1>7, <1>8, <1>9 DEF IInv

(* The copy of the victim reaches the file. *)
LEMMA WriteBlockStep ==
    ASSUME IInv, NEW t \in Threads, WriteBlock(t)
    PROVE  IInv'
  <1> DEFINE v == victim[t]
  <1>1. /\ pc[t] = "writing" /\ pc'[t] = "written"
        /\ \A u \in Threads \ {t} : pc'[u] = pc[u]
        /\ UNCHANGED <<call, frames, fifo, lru, mem, size, copy, victim, truth, wrote, left>>
    BY DEF WriteBlock, IInv, TypeOK, bufferVars, clientVars
  <1>2. v \in Pages /\ frames[v].state \in Claimed
    BY <1>1 DEF IInv, CallsInv, Evicting
  <1>3. disk'[v] = copy[t] /\ \A q \in Pages \ {v} : disk'[q] = disk[q]
    BY <1>2 DEF WriteBlock, IInv, TypeOK
  <1>4. TypeOK'
    <2>1. disk' \in [Pages -> Values] /\ pc' \in [Threads -> PCs]
      BY DEF WriteBlock, IInv, TypeOK, PCs
    <2>2. QED
      BY <1>1, <2>1 DEF IInv, TypeOK
  <1>5. CallsInv'
    BY <1>1 DEF IInv, CallsInv, Waiting, Loading, Evicting, Fixed
  <1>6. VictimsInv'
    <2>1. \A u \in Threads : Evicting(u)' => Evicting(u) /\ victim'[u] = victim[u]
      BY <1>1 DEF Evicting
    <2>2. QED
      BY <2>1, VictimsStay
  <1>7. FramesInv'
    <2>1. \A u \in Threads : /\ Loading(u) => Loading(u)' /\ call'[u] = call[u]
                             /\ Evicting(u) => Evicting(u)' /\ call'[u] = call[u]
      BY <1>1 DEF Loading, Evicting
    <2>2. \A q \in Pages : FrameInv(q)'
      BY <1>1, <2>1, FrameStays
    <2>3. QED
      BY <2>2 DEF FramesInv
  <1>8. UsersExact'
    <2>1. \A u \in Threads : \A q \in Pages : Uses(u, q)' <=> Uses(u, q)
      BY <1>1, UsesIff, UsesIffNext DEF Holds, CallsFor
    <2>2. QED
      BY <1>1, <2>1, UsersFollow
  <1>9. LatchInv' /\ ListsMatchFrames' /\ SlotsInv'
    BY <1>1, FramesStay
  <1>10. PagesInv'
    <2> SUFFICES ASSUME NEW q \in Pages PROVE PageInv(q)'
      BY DEF PagesInv
    <2>1. PageInv(q) /\ (Flagged(q)' => Flagged(q))
      BY <1>1 DEF IInv, PagesInv, Flagged
    <2>2. CASE q = v
      <3>1. frames[q].slot # NoSlot
        BY <1>2, <2>2 DEF IInv, FramesInv, FrameInv, Empty, Claimed
      <3>2. q <= size
        BY <2>1, <3>1 DEF PageInv
      <3>3. q \in Int /\ size \in Int
        BY DEF IInv, TypeOK, Pages
      <3>4. ~(size < q) /\ frames[q].state \notin Empty \cup {"LOADING", "LOADED"}
        BY <1>2, <2>2, <3>2, <3>3 DEF Empty, Claimed
      <3>5. QED
        BY <1>1, <2>1, <3>1, <3>2, <3>4 DEF PageInv
    <2>3. CASE q # v
      BY <1>1, <1>3, <2>1, <2>3 DEF PageInv
    <2>4. QED
      BY <2>2, <2>3
  <1>11. CopiesInv'
    <2>1. CopiesInv
      BY DEF IInv
    <2>2. \A u \in Threads : pc[u] = "read" => call[u].page \in Pages \ {v}
      BY <1>2 DEF IInv, CallsInv, Loading, Claimed
    <2>3. \A u \in Threads \ {t} : pc[u] = "written" => victim[u] \in Pages \ {v}
      BY <1>1 DEF IInv, CallsInv, VictimsInv, Evicting
    <2>4. QED
      BY <1>1, <1>3, <2>1, <2>2, <2>3 DEF CopiesInv
  <1>12. QED
    BY <1>4, <1>5, <1>6, <1>7, <1>8, <1>9, <1>10, <1>11 DEF IInv

(* A page that is being loaded has a slot of its own. *)
LEMMA LoadingSlot ==
    ASSUME IInv, NEW t \in Threads, Loading(t)
    PROVE  LET p == call[t].page
           IN  /\ p \in Pages /\ frames[p].state = "LOADING"
               /\ frames[p].slot \in Slots /\ frames[p].writers = {t}
               /\ \A q \in Pages \ {p} : frames[q].slot # frames[p].slot
               /\ \A u \in Threads \ {t} : Loading(u) => call[u].page \in Pages \ {p}
  <1> DEFINE p == call[t].page
  <1>1. p \in Pages /\ frames[p].state = "LOADING" /\ t \in frames[p].writers
    BY DEF IInv, CallsInv, Loading
  <1>2. frames[p] \in FrameRecords /\ LatchOf(frames[p])
    BY <1>1 DEF IInv, TypeOK, LatchInv
  <1>3. frames[p].slot # NoSlot
    BY <1>1 DEF IInv, FramesInv, FrameInv, Empty
  <1>4. frames[p].slot \in Slots /\ frames[p].writers = {t}
    BY <1>1, <1>2, <1>3 DEF FrameRecords, LatchOf
  <1>5. \A q \in Pages \ {p} : frames[q].slot # frames[p].slot
    BY <1>1, <1>3 DEF IInv, SlotsInv, SlotsDistinct
  <1>6. \A u \in Threads \ {t} : Loading(u) => call[u].page \in Pages \ {p}
    <2>1. \A u \in Threads : Loading(u) => call[u].page \in Pages /\ u \in frames[call[u].page].writers
      BY DEF IInv, CallsInv, Loading
    <2>2. QED
      BY <1>4, <2>1
  <1>7. QED
    BY <1>1, <1>4, <1>5, <1>6

(* The block read is the last value written to the page. *)
LEMMA ReadBlockStep ==
    ASSUME IInv, NEW t \in Threads, ReadBlock(t)
    PROVE  IInv'
  <1> DEFINE p == call[t].page
             s == frames[p].slot
  <1>1. /\ pc[t] = "reading" /\ pc'[t] = "read"
        /\ \A u \in Threads \ {t} : pc'[u] = pc[u]
        /\ UNCHANGED <<call, frames, fifo, lru, disk, size, copy, victim, truth, wrote, left>>
    BY DEF ReadBlock, IInv, TypeOK, bufferVars, clientVars
  <1>2. /\ p \in Pages /\ frames[p].state = "LOADING" /\ s \in Slots
        /\ \A q \in Pages \ {p} : frames[q].slot # s
        /\ \A u \in Threads \ {t} : Loading(u) => call[u].page \in Pages \ {p}
    BY <1>1, LoadingSlot DEF Loading
  <1>3. /\ mem' \in [Slots -> Values] /\ mem'[s] = disk[p]
        /\ \A r \in Slots \ {s} : mem'[r] = mem[r]
    BY <1>2 DEF ReadBlock, IInv, TypeOK
  <1>4. \A q \in Pages \ {p} : frames[q].slot # NoSlot => mem'[frames[q].slot] = mem[frames[q].slot]
    <2> SUFFICES ASSUME NEW q \in Pages \ {p}, frames[q].slot # NoSlot
                 PROVE  mem'[frames[q].slot] = mem[frames[q].slot]
      OBVIOUS
    <2>1. frames[q] \in FrameRecords
      BY DEF IInv, TypeOK
    <2>2. frames[q].slot \in Slots \ {s}
      BY <1>2, <2>1 DEF FrameRecords
    <2>3. QED
      BY <1>3, <2>2
  <1>5. TypeOK'
    <2>1. pc' \in [Threads -> PCs]
      BY DEF ReadBlock, IInv, TypeOK, PCs
    <2>2. QED
      BY <1>1, <1>3, <2>1 DEF IInv, TypeOK
  <1>6. CallsInv'
    BY <1>1 DEF IInv, CallsInv, Waiting, Loading, Evicting, Fixed
  <1>7. VictimsInv'
    <2>1. \A u \in Threads : Evicting(u)' => Evicting(u) /\ victim'[u] = victim[u]
      BY <1>1 DEF Evicting
    <2>2. QED
      BY <2>1, VictimsStay
  <1>8. FramesInv'
    <2>1. \A u \in Threads : /\ Loading(u) => Loading(u)' /\ call'[u] = call[u]
                             /\ Evicting(u) => Evicting(u)' /\ call'[u] = call[u]
      BY <1>1 DEF Loading, Evicting
    <2>2. \A q \in Pages : FrameInv(q)'
      BY <1>1, <2>1, FrameStays
    <2>3. QED
      BY <2>2 DEF FramesInv
  <1>9. UsersExact'
    <2>1. \A u \in Threads : \A q \in Pages : Uses(u, q)' <=> Uses(u, q)
      BY <1>1, UsesIff, UsesIffNext DEF Holds, CallsFor
    <2>2. QED
      BY <1>1, <2>1, UsersFollow
  <1>10. LatchInv' /\ ListsMatchFrames' /\ SlotsInv'
    BY <1>1, FramesStay
  <1>11. PagesInv'
    <2> SUFFICES ASSUME NEW q \in Pages PROVE PageInv(q)'
      BY DEF PagesInv
    <2>1. PageInv(q) /\ (Flagged(q)' => Flagged(q))
      BY <1>1 DEF IInv, PagesInv, Flagged
    <2>2. frames[q].state \in Empty <=> frames[q].slot = NoSlot
      BY DEF IInv, FramesInv, FrameInv
    <2>3. frames[q].state \in Claimed \cup {"LOADED"} => q # p /\ frames[q].slot # NoSlot
      BY <1>2, <2>2 DEF Claimed, Empty
    <2>4. QED
      BY <1>1, <1>4, <2>1, <2>3 DEF PageInv
  <1>12. CopiesInv'
    <2>1. CopiesInv
      BY DEF IInv
    <2>2. \A u \in Threads \ {t} : pc[u] = "read" =>
             call[u].page \in Pages \ {p} /\ frames[call[u].page].slot # NoSlot
      <3>1. \A u \in Threads : Loading(u) => frames[call[u].page].slot \in Slots
        BY LoadingSlot
      <3>2. NoSlot \notin Slots
        BY BufferAssumption DEF NoSlot, Slots
      <3>3. QED
        BY <1>2, <3>1, <3>2 DEF Loading
    <2>3. QED
      BY <1>1, <1>3, <1>4, <2>1, <2>2 DEF CopiesInv
  <1>13. QED
    BY <1>5, <1>6, <1>7, <1>8, <1>9, <1>10, <1>11, <1>12 DEF IInv

(* The page is loaded and clean, and its frame is unlatched. *)
LEMMA LoadedStep ==
    ASSUME IInv, NEW t \in Threads, Loaded(t)
    PROVE  IInv'
  <1>0. PICK p : p = call[t].page
    OBVIOUS
  <1> DEFINE g == frames'[p]
  <1>1. /\ pc[t] = "read" /\ pc'[t] = "latch"
        /\ \A u \in Threads \ {t} : pc'[u] = pc[u]
        /\ UNCHANGED <<call, fifo, lru, mem, disk, size, copy, victim, truth, wrote, left>>
    BY DEF Loaded, IInv, TypeOK, bufferVars, clientVars
  <1>2. /\ p \in Pages /\ frames[p].state = "LOADING" /\ frames[p].slot # NoSlot
        /\ frames[p].writers = {t}
        /\ \A u \in Threads \ {t} : Loading(u) => call[u].page \in Pages \ {p}
    <2>1. NoSlot \notin Slots
      BY BufferAssumption DEF NoSlot, Slots
    <2>2. QED
      BY <1>0, <1>1, <2>1, LoadingSlot DEF Loading
  <1>3. /\ frames[p] \in FrameRecords /\ frames[p].locked = TRUE /\ frames[p].readers = {}
    BY <1>2 DEF IInv, TypeOK, LatchInv, LatchOf, FrameRecords
  <1>4. /\ g \in FrameRecords /\ g.state = "LOADED" /\ g.dirty = FALSE
        /\ g.users = frames[p].users /\ g.slot = frames[p].slot
        /\ g.locked = FALSE /\ g.writers = {} /\ g.readers = {}
    <2> DEFINE c == [frames[p] EXCEPT !.state = "LOADED", !.dirty = FALSE]
    <2>1. /\ c \in FrameRecords /\ c.state = "LOADED" /\ c.dirty = FALSE /\ c.slot = frames[p].slot
          /\ c.users = frames[p].users /\ c.locked = TRUE /\ c.writers = {t} /\ c.readers = {}
      BY <1>2, <1>3 DEF FrameRecords, FrameStates
    <2>2. g = Unlatched(c, t)
      BY <1>0, <1>2 DEF Loaded, IInv, TypeOK
    <2> HIDE DEF c, g
    <2>3. g = [c EXCEPT !.writers = {t} \ {t}, !.locked = FALSE]
      BY <2>1, <2>2 DEF Unlatched
    <2>4. QED
      BY <2>1, <2>3 DEF FrameRecords
  <1>5. \A q \in Pages \ {p} : frames'[q] = frames[q]
    BY <1>0 DEF Loaded, IInv, TypeOK
  <1>6. TypeOK'
    <2>1. pc' \in [Threads -> PCs]
      BY DEF Loaded, IInv, TypeOK, PCs
    <2>2. DOMAIN frames' = Pages /\ frames' = [q \in Pages |-> frames'[q]]
      BY DEF Loaded, IInv, TypeOK
    <2>3. frames' \in [Pages -> FrameRecords]
      BY <1>4, <1>5, <2>2 DEF IInv, TypeOK
    <2>4. QED
      BY <1>1, <2>1, <2>3 DEF IInv, TypeOK
  <1> HIDE DEF g
  <1>7. CallsInv'
    <2> SUFFICES ASSUME NEW u \in Threads
                 PROVE  LET r == call[u].page
                            w == victim[u]
                        IN  /\ pc'[u] # "idle" => r \in Pages
                            /\ Waiting(u)' => r \notin Fixed(u)'
                            /\ pc'[u] \in {"latch", "unfixing"} => frames'[r].state \notin Empty
                            /\ Loading(u)' => frames'[r].state = "LOADING" /\ u \in frames'[r].writers
                            /\ Evicting(u)' => frames'[r].state = "NEW" /\ u \in frames'[r].writers
                            /\ Evicting(u)' => w \in Pages /\ frames'[w].state \in Claimed
      BY <1>1 DEF CallsInv
    <2>1. CASE u = t
      BY <1>0, <1>1, <1>2, <1>4, <2>1 DEF Waiting, Loading, Evicting, Fixed, Empty, g
    <2>2. CASE u # t
      BY <1>1, <1>2, <1>4, <1>5, <2>2
         DEF IInv, CallsInv, Waiting, Loading, Evicting, Fixed, Empty, Claimed, g
    <2>3. QED
      BY <2>1, <2>2
  <1>8. VictimsInv'
    <2>1. \A u \in Threads : Evicting(u)' => Evicting(u) /\ victim'[u] = victim[u]
      BY <1>1 DEF Evicting
    <2>2. QED
      BY <2>1, VictimsStay
  <1>9. FramesInv'
    <2>1. \A q \in Pages \ {p} : FrameInv(q)'
      <3>1. \A u \in Threads :
               /\ Loading(u) /\ u # t => Loading(u)' /\ call'[u] = call[u]
               /\ Evicting(u) => Evicting(u)' /\ call'[u] = call[u]
        BY <1>1 DEF Loading, Evicting
      <3>2. QED
        BY <1>0, <1>5, <3>1, FrameStays
    <2>2. FrameInv(p)'
      BY <1>0, <1>1, <1>2, <1>4 DEF FrameInv, Empty, Claimed, g
    <2>3. QED
      BY <2>1, <2>2 DEF FramesInv
  <1>10. LatchInv'
    BY <1>4, <1>5 DEF IInv, LatchInv, LatchOf, g
  <1>11. UsersExact'
    <2>1. \A u \in Threads : \A q \in Pages : CallsFor(u, q)' <=> CallsFor(u, q)
      BY <1>1 DEF CallsFor
    <2>2. \A u \in Threads : \A q \in Pages : q # p => (Holds(u, q)' <=> Holds(u, q))
      BY <1>5 DEF Holds
    <2>3. \A u \in Threads : (Holds(u, p) => u = t) /\ ~Holds(u, p)'
      BY <1>2, <1>3, <1>4 DEF Holds, g
    <2>4. CallsFor(t, p)
      BY <1>0, <1>1 DEF CallsFor
    <2>5. \A u \in Threads : \A q \in Pages : Uses(u, q)' <=> Uses(u, q)
      BY <2>1, <2>2, <2>3, <2>4, UsesIff, UsesIffNext
    <2>6. \A q \in Pages : frames'[q].users = frames[q].users
      BY <1>4, <1>5 DEF g
    <2>7. QED
      BY <2>5, <2>6, UsersFollow
  <1>12. ListsMatchFrames' /\ SlotsInv'
    <2>1. \A q \in Pages : /\ frames'[q].slot = frames[q].slot
                           /\ frames'[q].state = "NEW" => frames[q].state = "NEW"
      BY <1>4, <1>5 DEF g
    <2>2. QED
      BY <1>1, <2>1, SlotsStay
  <1>13. PagesInv'
    <2>1. \A q \in Pages : PageInv(q) /\ (Flagged(q)' => Flagged(q))
      BY <1>1 DEF IInv, PagesInv, Flagged
    <2>2. \A q \in Pages \ {p} : PageInv(q)'
      BY <1>1, <1>5, <2>1 DEF PageInv
    <2>3. mem[frames[p].slot] = disk[p]
      BY <1>0, <1>1 DEF IInv, CopiesInv
    <2>4. PageInv(p)'
      BY <1>1, <1>2, <1>4, <2>1, <2>3 DEF PageInv, Empty, Claimed, g
    <2>5. QED
      BY <2>2, <2>4 DEF PagesInv
  <1>14. CopiesInv'
    <2>1. CopiesInv
      BY DEF IInv
    <2>2. \A u \in Threads \ {t} : pc[u] = "read" => call[u].page \in Pages \ {p}
      BY <1>2 DEF Loading
    <2>3. \A u \in Threads : pc[u] \in {"writing", "written"} => victim[u] \in Pages \ {p}
      BY <1>2 DEF IInv, CallsInv, Evicting, Claimed
    <2>4. \A u \in Threads : wrote[u] \in SUBSET (Pages \ {p})
      <3>1. \A u \in Threads : wrote[u] \in SUBSET Pages /\ p \notin wrote[u]
        BY <1>2, <2>1 DEF IInv, TypeOK, CopiesInv
      <3>2. QED
        BY <3>1
    <2>5. QED
      BY <1>1, <1>5, <2>1, <2>2, <2>3, <2>4 DEF CopiesInv
  <1>15. QED
    BY <1>6, <1>7, <1>8, <1>9, <1>10, <1>11, <1>12, <1>13, <1>14 DEF IInv

(* fix_page returns with the frame latched. *)
LEMMA LatchStep ==
    ASSUME IInv, NEW t \in Threads, Latch(t)
    PROVE  IInv'
  <1>0. PICK p : p = call[t].page
    OBVIOUS
  <1> DEFINE g == frames'[p]
  <1>1. /\ pc[t] = "latch" /\ pc'[t] = "idle"
        /\ \A u \in Threads \ {t} : pc'[u] = pc[u] /\ call'[u] = call[u]
        /\ UNCHANGED <<fifo, lru, mem, disk, size, copy, victim, truth, wrote, left>>
    BY DEF Latch, IInv, TypeOK, bufferVars, clientVars
  <1>2. /\ p \in Pages /\ frames[p].state \notin Empty /\ t \notin frames[p].writers
        /\ t \notin frames[p].readers
    BY <1>0, <1>1 DEF IInv, CallsInv, Waiting, Fixed
  <1>3. /\ frames[p] \in FrameRecords /\ frames[p].writers = {} /\ frames[p].locked = FALSE
    BY <1>0, <1>2 DEF IInv, TypeOK, LatchInv, LatchOf, FrameRecords, Latch, Available
  <1>4. /\ g \in FrameRecords /\ g.state = frames[p].state /\ g.dirty = frames[p].dirty
        /\ g.users = frames[p].users /\ g.slot = frames[p].slot
        /\ LatchOf(g)
        /\ \A u \in Threads : u \in g.writers \/ u \in g.readers <=> u = t \/ u \in frames[p].readers
    <2>1. g = Latched(frames[p], t, call[t].exclusive)
      BY <1>0, <1>2 DEF Latch, IInv, TypeOK
    <2>2. CASE call[t].exclusive
      <3>1. frames[p].readers = {}
        BY <1>0, <2>2 DEF Latch, Available
      <3>2. g = [frames[p] EXCEPT !.writers = {} \cup {t}, !.locked = TRUE]
        BY <1>3, <2>1, <2>2 DEF Latched
      <3> HIDE DEF g
      <3>3. /\ g \in FrameRecords /\ g.state = frames[p].state /\ g.dirty = frames[p].dirty
            /\ g.users = frames[p].users /\ g.slot = frames[p].slot
            /\ g.writers = {t} /\ g.locked = TRUE /\ g.readers = {}
        BY <1>3, <3>1, <3>2 DEF FrameRecords
      <3>4. QED
        BY <3>1, <3>3 DEF LatchOf
    <2>3. CASE ~call[t].exclusive
      <3>1. g = [frames[p] EXCEPT !.readers = frames[p].readers \cup {t}]
        BY <1>3, <2>1, <2>3 DEF Latched
      <3> HIDE DEF g
      <3>2. /\ g \in FrameRecords /\ g.state = frames[p].state /\ g.dirty = frames[p].dirty
            /\ g.users = frames[p].users /\ g.slot = frames[p].slot
            /\ g.writers = {} /\ g.locked = FALSE /\ g.readers = frames[p].readers \cup {t}
        BY <1>3, <3>1 DEF FrameRecords
      <3>3. QED
        BY <3>2 DEF LatchOf
    <2>4. QED
      BY <2>2, <2>3
  <1>5. \A q \in Pages \ {p} : frames'[q] = frames[q]
    BY <1>0 DEF Latch, IInv, TypeOK
  <1>6. TypeOK'
    <2>1. pc' \in [Threads -> PCs] /\ call' \in [Threads -> Calls]
      BY DEF Latch, IInv, TypeOK, PCs, Calls, NoCall
    <2>2. frames' = [q \in Pages |-> frames'[q]]
      BY DEF Latch, IInv, TypeOK
    <2>3. frames' \in [Pages -> FrameRecords]
      BY <1>4, <1>5, <2>2 DEF IInv, TypeOK
    <2>4. QED
      BY <1>1, <2>1, <2>3 DEF IInv, TypeOK
  <1> HIDE DEF g
  <1>7. CallsInv'
    <2> SUFFICES ASSUME NEW u \in Threads \ {t}
                 PROVE  LET r == call[u].page
                            w == victim[u]
                        IN  /\ pc[u] # "idle" => r \in Pages
                            /\ Waiting(u) => r \notin Fixed(u)'
                            /\ pc[u] \in {"latch", "unfixing"} => frames'[r].state \notin Empty
                            /\ Loading(u) => frames'[r].state = "LOADING" /\ u \in frames'[r].writers
                            /\ Evicting(u) => frames'[r].state = "NEW" /\ u \in frames'[r].writers
                            /\ Evicting(u) => w \in Pages /\ frames'[w].state \in Claimed
      BY <1>1 DEF CallsInv, Waiting, Loading, Evicting
    <2>1. /\ Waiting(u) => call[u].page \notin Fixed(u)'
      <3>1. Waiting(u) => call[u].page \notin Fixed(u)
        BY DEF IInv, CallsInv
      <3>2. \A q \in Pages : q \in Fixed(u)' => q \in Fixed(u)
        BY <1>3, <1>4, <1>5 DEF Fixed, g
      <3>3. QED
        BY <3>1, <3>2 DEF Fixed
    <2>2. QED
      BY <1>3, <1>4, <1>5, <2>1 DEF IInv, CallsInv, Loading, Evicting, Waiting, g
  <1>8. VictimsInv'
    <2>1. \A u \in Threads : Evicting(u)' => Evicting(u) /\ victim'[u] = victim[u]
      BY <1>1 DEF Evicting
    <2>2. QED
      BY <2>1, VictimsStay
  <1>9. FramesInv'
    <2>1. \A u \in Threads : /\ Loading(u) => Loading(u)' /\ call'[u] = call[u]
                             /\ Evicting(u) => Evicting(u)' /\ call'[u] = call[u]
      BY <1>1 DEF Loading, Evicting
    <2>2. \A q \in Pages \ {p} : FrameInv(q)'
      BY <1>5, <2>1, FrameStays
    <2>3. FrameInv(p)'
      <3>1. FrameInv(p)
        BY <1>2 DEF IInv, FramesInv
      <3>2. QED
        BY <1>2, <1>4, <2>1, <3>1 DEF FrameInv, Empty, Claimed, g
    <2>4. QED
      BY <2>2, <2>3 DEF FramesInv
  <1>10. LatchInv'
    BY <1>4, <1>5 DEF IInv, LatchInv, g
  <1>11. UsersExact'
    <2>1. \A u \in Threads : \A q \in Pages :
             /\ u # t => (CallsFor(u, q)' <=> CallsFor(u, q))
             /\ u = t => (CallsFor(u, q) <=> q = p) /\ ~CallsFor(u, q)'
      BY <1>0, <1>1 DEF CallsFor
    <2>2. \A u \in Threads : \A q \in Pages :
             /\ q # p => (Holds(u, q)' <=> Holds(u, q))
             /\ q = p => (Holds(u, q)' <=> u = t \/ Holds(u, q))
      BY <1>3, <1>4, <1>5 DEF Holds, g
    <2>3. \A u \in Threads : \A q \in Pages : Uses(u, q)' <=> Uses(u, q)
      BY <2>1, <2>2, UsesIff, UsesIffNext
    <2>4. \A q \in Pages : frames'[q].users = frames[q].users
      BY <1>4, <1>5 DEF g
    <2>5. QED
      BY <2>3, <2>4, UsersFollow
  <1>12. ListsMatchFrames' /\ SlotsInv'
    <2>1. \A q \in Pages : /\ frames'[q].slot = frames[q].slot
                           /\ frames'[q].state = "NEW" => frames[q].state = "NEW"
      BY <1>4, <1>5 DEF g
    <2>2. QED
      BY <1>1, <2>1, SlotsStay
  <1>13. PagesInv'
    <2>1. \A q \in Pages : /\ frames'[q].state = frames[q].state
                           /\ frames'[q].slot = frames[q].slot
                           /\ frames'[q].dirty = frames[q].dirty
      BY <1>4, <1>5 DEF g
    <2>2. \A q \in Pages : PageInv(q) /\ (Flagged(q)' => Flagged(q))
      BY <1>1 DEF IInv, PagesInv, Flagged
    <2>3. \A q \in Pages : PageInv(q)'
      BY <1>1, <2>1, <2>2 DEF PageInv
    <2>4. QED
      BY <2>3 DEF PagesInv
  <1>14. CopiesInv'
    <2>1. CopiesInv
      BY DEF IInv
    <2>2. \A u \in Threads : pc[u] = "read" => call[u].page \in Pages
      BY DEF IInv, CallsInv
    <2>3. \A u \in Threads : pc[u] \in {"writing", "written"} => victim[u] \in Pages
      BY DEF IInv, CallsInv, Evicting
    <2>4. \A q \in Pages : frames'[q].state = frames[q].state /\ frames'[q].slot = frames[q].slot
      BY <1>4, <1>5 DEF g
    <2>5. \A u \in Threads : \A q \in wrote[u] : u \in frames'[q].writers /\ frames'[q].state \in {"LOADED", "RELOADED"}
      <3> TAKE u \in Threads
      <3> TAKE q \in wrote[u]
      <3>1. q \in Pages /\ u \in frames[q].writers /\ frames[q].state \in {"LOADED", "RELOADED"}
        BY <2>1 DEF CopiesInv, IInv, TypeOK
      <3>2. q # p
        BY <1>3, <3>1
      <3>3. QED
        BY <1>5, <3>1, <3>2
    <2>6. QED
      BY <1>1, <2>1, <2>2, <2>3, <2>4, <2>5 DEF CopiesInv
  <1>15. QED
    BY <1>6, <1>7, <1>8, <1>9, <1>10, <1>11, <1>12, <1>13, <1>14 DEF IInv

(* A page that fix_page has returned is in memory, and no one loads it. *)
LEMMA ClientHolds ==
    ASSUME IInv, NEW t \in Threads, NEW p \in Pages, Holds(t, p),
           Loading(t) \/ Evicting(t) => call[t].page # p
    PROVE  /\ frames[p].state \in {"LOADED", "RELOADED"}
           /\ frames[p].slot \in Slots
           /\ \A q \in Pages \ {p} : frames[q].slot # frames[p].slot
           /\ \A u \in Threads : Loading(u) \/ Evicting(u) => call[u].page # p
  <1>1. /\ frames[p] \in FrameRecords /\ FrameInv(p) /\ LatchOf(frames[p])
    BY DEF IInv, TypeOK, FramesInv, LatchInv
  <1>2. frames[p].users > 0
    BY UsesIff, UsersCount DEF IInv
  <1>3. \A u \in Threads : Loading(u) \/ Evicting(u) => call[u].page # p
    <2> SUFFICES ASSUME NEW u \in Threads, Loading(u) \/ Evicting(u), call[u].page = p
                 PROVE  FALSE
      OBVIOUS
    <2>1. u \in frames[p].writers /\ u # t
      BY DEF IInv, CallsInv
    <2>2. QED
      BY <1>1, <2>1 DEF LatchOf, Holds, FrameRecords
  <1>4. frames[p].state # "ABSENT"
    <2>1. Absent.users = 0
      BY DEF Absent
    <2>2. QED
      BY <1>1, <1>2, <2>1 DEF FrameInv
  <1>5. frames[p].state # "NEW"
    BY <1>1 DEF FrameInv, Holds
  <1>6. frames[p].state # "LOADING"
    BY <1>1, <1>3 DEF FrameInv
  <1>7. frames[p].state # "EVICTING"
    BY <1>1, <1>2 DEF FrameInv
  <1>8. frames[p].state \in {"LOADED", "RELOADED"}
    BY <1>1, <1>4, <1>5, <1>6, <1>7 DEF FrameRecords, FrameStates
  <1>9. frames[p].slot # NoSlot
    BY <1>1, <1>4, <1>5 DEF FrameInv, Empty
  <1>10. QED
    BY <1>1, <1>3, <1>8, <1>9 DEF FrameRecords, IInv, SlotsInv, SlotsDistinct

(* A client writes: nobody else has the page latched. *)
LEMMA WriteStep ==
    ASSUME IInv, NEW t \in Threads, NEW p \in Pages, NEW v \in Values, Write(t, p, v)
    PROVE  IInv'
  <1> DEFINE s == frames[p].slot
  <1>1. /\ pc[t] = "idle" /\ t \in frames[p].writers
        /\ UNCHANGED <<pc, call, frames, fifo, lru, disk, size, copy, victim, left>>
    BY DEF Write, bufferVars
  <1>2. /\ frames[p].state \in {"LOADED", "RELOADED"} /\ s \in Slots
        /\ \A q \in Pages \ {p} : frames[q].slot # s
    BY <1>1, ClientHolds DEF Holds, Loading, Evicting
  <1>3. /\ mem' \in [Slots -> Values] /\ mem'[s] = v /\ \A r \in Slots \ {s} : mem'[r] = mem[r]
    BY <1>2 DEF Write, IInv, TypeOK
  <1>4. /\ truth' \in [Pages -> Values] /\ truth'[p] = v
        /\ \A q \in Pages \ {p} : truth'[q] = truth[q]
    BY DEF Write, IInv, TypeOK
  <1>5. /\ wrote' \in [Threads -> SUBSET Pages] /\ wrote'[t] = wrote[t] \cup {p}
        /\ \A u \in Threads \ {t} : wrote'[u] = wrote[u]
    BY DEF Write, IInv, TypeOK
  <1>6. \A q \in Pages \ {p} : frames[q].slot # NoSlot => mem'[frames[q].slot] = mem[frames[q].slot]
    <2> SUFFICES ASSUME NEW q \in Pages \ {p}, frames[q].slot # NoSlot
                 PROVE  mem'[frames[q].slot] = mem[frames[q].slot]
      OBVIOUS
    <2>1. frames[q] \in FrameRecords
      BY DEF IInv, TypeOK
    <2>2. frames[q].slot \in Slots \ {s}
      BY <1>2, <2>1 DEF FrameRecords
    <2>3. QED
      BY <1>3, <2>2
  <1>7. TypeOK'
    BY <1>1, <1>3, <1>4, <1>5 DEF IInv, TypeOK
  <1>8. CallsInv'
    BY <1>1 DEF IInv, CallsInv, Waiting, Loading, Evicting, Fixed
  <1>9. VictimsInv'
    <2>1. \A u \in Threads : Evicting(u)' => Evicting(u) /\ victim'[u] = victim[u]
      BY <1>1 DEF Evicting
    <2>2. QED
      BY <2>1, VictimsStay
  <1>10. FramesInv'
    <2>1. \A u \in Threads : /\ Loading(u) => Loading(u)' /\ call'[u] = call[u]
                             /\ Evicting(u) => Evicting(u)' /\ call'[u] = call[u]
      BY <1>1 DEF Loading, Evicting
    <2>2. \A q \in Pages : FrameInv(q)'
      BY <1>1, <2>1, FrameStays
    <2>3. QED
      BY <2>2 DEF FramesInv
  <1>11. UsersExact'
    <2>1. \A u \in Threads : \A q \in Pages : Uses(u, q)' <=> Uses(u, q)
      BY <1>1, UsesIff, UsesIffNext DEF Holds, CallsFor
    <2>2. QED
      BY <1>1, <2>1, UsersFollow
  <1>12. LatchInv' /\ ListsMatchFrames' /\ SlotsInv'
    BY <1>1, FramesStay
  <1>13. PagesInv'
    <2>1. \A q \in Pages : PageInv(q) /\ (frames[q].state \in Empty <=> frames[q].slot = NoSlot)
      BY DEF IInv, PagesInv, FramesInv, FrameInv
    <2>2. \A q \in Pages \ {p} : PageInv(q)'
      <3> TAKE q \in Pages \ {p}
      <3>1. Flagged(q)' => Flagged(q)
        BY <1>1, <1>5 DEF Flagged
      <3>2. frames[q].state \in Claimed \cup {"LOADED"} => frames[q].slot # NoSlot
        BY <2>1 DEF Claimed, Empty
      <3>3. QED
        BY <1>1, <1>4, <1>6, <2>1, <3>1, <3>2 DEF PageInv
    <2>3. PageInv(p)'
      <3>1. ~Flagged(p)'
        BY <1>5 DEF Flagged
      <3>2. frames[p].state \notin Empty \cup {"LOADING"}
        BY <1>2 DEF Empty
      <3>3. QED
        BY <1>1, <1>3, <1>4, <2>1, <3>1, <3>2 DEF PageInv
    <2>4. QED
      BY <2>2, <2>3 DEF PagesInv
  <1>14. CopiesInv'
    <2>1. CopiesInv
      BY DEF IInv
    <2>2. \A u \in Threads : pc[u] = "read" =>
             call[u].page \in Pages \ {p} /\ frames[call[u].page].slot # NoSlot
      <3>1. \A u \in Threads : Loading(u) =>
               /\ frames[call[u].page].slot \in Slots /\ call[u].page \in Pages
               /\ frames[call[u].page].state = "LOADING"
        BY LoadingSlot
      <3>2. NoSlot \notin Slots
        BY BufferAssumption DEF NoSlot, Slots
      <3>3. QED
        BY <1>2, <3>1, <3>2 DEF Loading
    <2>3. \A u \in Threads : pc[u] \in {"writing", "written"} =>
             victim[u] \in Pages /\ (frames[victim[u]].state = "EVICTING" => victim[u] # p)
      BY <1>2 DEF IInv, CallsInv, Evicting
    <2>4. QED
      BY <1>1, <1>2, <1>4, <1>5, <1>6, <2>1, <2>2, <2>3 DEF CopiesInv
  <1>15. QED
    BY <1>7, <1>8, <1>9, <1>10, <1>11, <1>12, <1>13, <1>14 DEF IInv

(* unfix_page unlatches the frame, which stays in use until num_users falls. *)
LEMMA UnfixStep ==
    ASSUME IInv, NEW t \in Threads, NEW p \in Pages, NEW dirty \in BOOLEAN, Unfix(t, p, dirty)
    PROVE  IInv'
  <1> DEFINE g == frames'[p]
  <1>1. /\ pc[t] = "idle" /\ pc'[t] = "unfixing"
        /\ call'[t].page = p /\ call'[t].dirty = dirty /\ (p \in wrote[t] => dirty)
        /\ \A u \in Threads \ {t} : pc'[u] = pc[u] /\ call'[u] = call[u]
        /\ UNCHANGED <<fifo, lru, mem, disk, size, copy, victim, truth, left>>
    BY DEF Unfix, IInv, TypeOK
  <1>2. Holds(t, p)
    BY DEF Unfix, Fixed, Holds
  <1>3. /\ frames[p].state \in {"LOADED", "RELOADED"}
        /\ \A u \in Threads : Loading(u) \/ Evicting(u) => call[u].page # p
    BY <1>1, <1>2, ClientHolds DEF Loading, Evicting
  <1>4. /\ g \in FrameRecords /\ g.state = frames[p].state /\ g.dirty = frames[p].dirty
        /\ g.users = frames[p].users /\ g.slot = frames[p].slot
        /\ g.writers = frames[p].writers \ {t} /\ g.readers = frames[p].readers \ {t}
        /\ LatchOf(g)
    <2>1. g = Unlatched(frames[p], t)
      BY DEF Unfix, IInv, TypeOK
    <2>2. frames[p] \in FrameRecords /\ LatchOf(frames[p])
      BY DEF IInv, TypeOK, LatchInv
    <2>3. CASE frames[p].locked
      <3>1. frames[p].writers = {t} /\ frames[p].readers = {}
        BY <1>2, <2>2, <2>3 DEF LatchOf, Holds, FrameRecords
      <3>2. g = [frames[p] EXCEPT !.writers = {t} \ {t}, !.locked = FALSE]
        BY <2>1, <2>3, <3>1 DEF Unlatched
      <3> HIDE DEF g
      <3>3. /\ g \in FrameRecords /\ g.state = frames[p].state /\ g.dirty = frames[p].dirty
            /\ g.users = frames[p].users /\ g.slot = frames[p].slot
            /\ g.writers = {} /\ g.readers = {} /\ g.locked = FALSE
        BY <2>2, <3>1, <3>2 DEF FrameRecords
      <3>4. QED
        BY <3>1, <3>3 DEF LatchOf
    <2>4. CASE ~frames[p].locked
      <3>1. frames[p].writers = {}
        BY <2>2, <2>4 DEF LatchOf
      <3>2. g = [frames[p] EXCEPT !.readers = frames[p].readers \ {t}]
        BY <2>1, <2>2, <2>4 DEF Unlatched
      <3> HIDE DEF g
      <3>3. /\ g \in FrameRecords /\ g.state = frames[p].state /\ g.dirty = frames[p].dirty
            /\ g.users = frames[p].users /\ g.slot = frames[p].slot
            /\ g.writers = {} /\ g.readers = frames[p].readers \ {t} /\ g.locked = frames[p].locked
        BY <2>2, <3>1, <3>2 DEF FrameRecords
      <3>4. QED
        BY <2>4, <3>1, <3>3 DEF LatchOf
    <2>5. QED
      BY <2>3, <2>4
  <1>5. \A q \in Pages \ {p} : frames'[q] = frames[q]
    BY DEF Unfix, IInv, TypeOK
  <1>6. /\ wrote' \in [Threads -> SUBSET Pages] /\ wrote'[t] = wrote[t] \ {p}
        /\ \A u \in Threads \ {t} : wrote'[u] = wrote[u]
    BY DEF Unfix, IInv, TypeOK
  <1>7. TypeOK'
    <2>1. pc' \in [Threads -> PCs] /\ call' \in [Threads -> Calls]
      BY DEF Unfix, IInv, TypeOK, PCs, Calls
    <2>2. frames' = [q \in Pages |-> frames'[q]]
      BY DEF Unfix, IInv, TypeOK
    <2>3. frames' \in [Pages -> FrameRecords]
      BY <1>4, <1>5, <2>2 DEF IInv, TypeOK
    <2>4. QED
      BY <1>1, <1>6, <2>1, <2>3 DEF IInv, TypeOK
  <1> HIDE DEF g
  <1>8. CallsInv'
    <2> SUFFICES ASSUME NEW u \in Threads
                 PROVE  LET r == call'[u].page
                            w == victim[u]
                        IN  /\ pc'[u] # "idle" => r \in Pages
                            /\ Waiting(u)' => r \notin Fixed(u)'
                            /\ pc'[u] \in {"latch", "unfixing"} => frames'[r].state \notin Empty
                            /\ Loading(u)' => frames'[r].state = "LOADING" /\ u \in frames'[r].writers
                            /\ Evicting(u)' => frames'[r].state = "NEW" /\ u \in frames'[r].writers
                            /\ Evicting(u)' => w \in Pages /\ frames'[w].state \in Claimed
      BY <1>1 DEF CallsInv
    <2>1. CASE u = t
      BY <1>1, <1>3, <1>4, <2>1 DEF Waiting, Loading, Evicting, Fixed, Empty, g
    <2>2. CASE u # t
      <3>1. Waiting(u) => call[u].page \notin Fixed(u)'
        <4>1. Waiting(u) => call[u].page \notin Fixed(u)
          BY DEF IInv, CallsInv
        <4>2. \A q \in Pages : q \in Fixed(u)' => q \in Fixed(u)
          BY <1>4, <1>5 DEF Fixed, g
        <4>3. QED
          BY <4>1, <4>2 DEF Fixed
      <3>2. pc'[u] = pc[u] /\ call'[u] = call[u]
        BY <1>1, <2>2
      <3>3. \A q \in Pages : frames'[q].state = frames[q].state
        BY <1>4, <1>5 DEF g
      <3>4. \A q \in Pages \ {p} : frames'[q].writers = frames[q].writers
        BY <1>5
      <3>5. QED
        BY <1>3, <3>1, <3>2, <3>3, <3>4 DEF IInv, CallsInv, Loading, Evicting, Waiting
    <2>3. QED
      BY <2>1, <2>2
  <1>9. VictimsInv'
    <2>1. \A u \in Threads : Evicting(u)' => Evicting(u) /\ victim'[u] = victim[u]
      BY <1>1 DEF Evicting
    <2>2. QED
      BY <2>1, VictimsStay
  <1>10. FramesInv'
    <2>1. \A u \in Threads : /\ Loading(u) => Loading(u)' /\ call'[u] = call[u]
                             /\ Evicting(u) => Evicting(u)' /\ call'[u] = call[u]
      BY <1>1 DEF Loading, Evicting
    <2>2. \A q \in Pages \ {p} : FrameInv(q)'
      BY <1>5, <2>1, FrameStays
    <2>3. FrameInv(p)'
      <3>1. FrameInv(p)
        BY DEF IInv, FramesInv
      <3>2. QED
        BY <1>3, <1>4, <3>1 DEF FrameInv, Empty, Claimed, g
    <2>4. QED
      BY <2>2, <2>3 DEF FramesInv
  <1>11. LatchInv'
    BY <1>4, <1>5 DEF IInv, LatchInv, g
  <1>12. UsersExact'
    <2>1. \A u \in Threads : \A q \in Pages :
             /\ u # t => (CallsFor(u, q)' <=> CallsFor(u, q))
             /\ u = t => ~CallsFor(u, q) /\ (CallsFor(u, q)' <=> q = p)
      BY <1>1 DEF CallsFor
    <2>2. \A u \in Threads : \A q \in Pages :
             /\ q # p => (Holds(u, q)' <=> Holds(u, q))
             /\ q = p => (Holds(u, q)' <=> u # t /\ Holds(u, q))
      BY <1>4, <1>5 DEF Holds, g
    <2>3. \A u \in Threads : \A q \in Pages : Uses(u, q)' <=> Uses(u, q)
      BY <1>2, <2>1, <2>2, UsesIff, UsesIffNext
    <2>4. \A q \in Pages : frames'[q].users = frames[q].users
      BY <1>4, <1>5 DEF g
    <2>5. QED
      BY <2>3, <2>4, UsersFollow
  <1>13. ListsMatchFrames' /\ SlotsInv'
    <2>1. \A q \in Pages : /\ frames'[q].slot = frames[q].slot
                           /\ frames'[q].state = "NEW" => frames[q].state = "NEW"
      BY <1>4, <1>5 DEF g
    <2>2. QED
      BY <1>1, <2>1, SlotsStay
  <1>14. PagesInv'
    <2> SUFFICES ASSUME NEW q \in Pages PROVE PageInv(q)'
      BY DEF PagesInv
    <2>1. /\ frames'[q].state = frames[q].state
          /\ frames'[q].slot = frames[q].slot
          /\ frames'[q].dirty = frames[q].dirty
      BY <1>4, <1>5 DEF g
    <2>2. PageInv(q)
      BY DEF IInv, PagesInv
    <2>3. Flagged(q)' => Flagged(q)
      BY <1>1, <1>6 DEF Flagged
    <2>4. QED
      BY <1>1, <2>1, <2>2, <2>3 DEF PageInv
  <1>15. CopiesInv'
    <2>1. CopiesInv
      BY DEF IInv
    <2>2. \A u \in Threads : pc[u] = "read" => call[u].page \in Pages
      BY DEF IInv, CallsInv
    <2>3. \A u \in Threads : pc[u] \in {"writing", "written"} => victim[u] \in Pages
      BY DEF IInv, CallsInv, Evicting
    <2>4. \A q \in Pages : frames'[q].state = frames[q].state /\ frames'[q].slot = frames[q].slot
      BY <1>4, <1>5 DEF g
    <2>5. \A u \in Threads : \A q \in wrote'[u] :
             u \in frames'[q].writers /\ frames'[q].state \in {"LOADED", "RELOADED"}
      <3> TAKE u \in Threads
      <3> TAKE q \in wrote'[u]
      <3>1. q \in wrote[u] /\ q \in Pages /\ (u = t => q # p)
        BY <1>6 DEF IInv, TypeOK
      <3>2. u \in frames[q].writers /\ frames[q].state \in {"LOADED", "RELOADED"}
        BY <2>1, <3>1 DEF CopiesInv
      <3>3. u \in frames'[q].writers
        BY <1>4, <1>5, <3>1, <3>2 DEF g
      <3>4. QED
        BY <2>4, <3>1, <3>2, <3>3
    <2>6. QED
      BY <1>1, <2>1, <2>2, <2>3, <2>4, <2>5 DEF CopiesInv
  <1>16. QED
    BY <1>7, <1>8, <1>9, <1>10, <1>11, <1>12, <1>13, <1>14, <1>15 DEF IInv

(* unfix_page sets the dirty flag before anyone can evict the page. *)
LEMMA UnfixedStep ==
    ASSUME IInv, NEW t \in Threads, Unfixed(t)
    PROVE  IInv'
  <1>0. PICK p : p = call[t].page
    OBVIOUS
  <1> DEFINE g == frames'[p]
  <1>1. /\ pc[t] = "unfixing" /\ pc'[t] = "idle"
        /\ \A u \in Threads \ {t} : pc'[u] = pc[u] /\ call'[u] = call[u]
        /\ UNCHANGED <<fifo, lru, mem, disk, size, copy, victim, truth, wrote, left>>
    BY DEF Unfixed, IInv, TypeOK, clientVars
  <1>2. p \in Pages /\ frames[p].state \notin Empty /\ ~Holds(t, p)
    BY <1>0, <1>1 DEF IInv, CallsInv, Waiting, Fixed, Holds
  <1>3. frames[p] \in FrameRecords /\ frames[p].users > 0
    <2>1. Uses(t, p)
      BY <1>0, <1>1, <1>2, UsesIff DEF CallsFor
    <2>2. QED
      BY <1>2, <2>1, UsersCount DEF IInv, TypeOK
  <1>4. /\ g \in FrameRecords /\ g.state = frames[p].state
        /\ g.dirty = (frames[p].dirty \/ call[t].dirty)
        /\ g.users = frames[p].users - 1 /\ g.slot = frames[p].slot
        /\ g.writers = frames[p].writers /\ g.readers = frames[p].readers
        /\ g.locked = frames[p].locked
    <2>1. g = [frames[p] EXCEPT !.dirty = frames[p].dirty \/ call[t].dirty, !.users = frames[p].users - 1]
      BY <1>0, <1>2, <1>3 DEF Unfixed, IInv, TypeOK, FrameRecords
    <2>2. call[t].dirty \in BOOLEAN /\ frames[p].dirty \in BOOLEAN
      BY <1>3 DEF IInv, TypeOK, Calls, FrameRecords
    <2>3. frames[p].users - 1 \in Nat
      BY <1>3 DEF FrameRecords
    <2> DEFINE d == frames[p].dirty \/ call[t].dirty
               n == frames[p].users - 1
    <2>4. d \in BOOLEAN /\ g = [frames[p] EXCEPT !.dirty = d, !.users = n]
      BY <2>1, <2>2
    <2> HIDE DEF d, n, g
    <2>5. /\ g \in FrameRecords /\ g.state = frames[p].state /\ g.dirty = d
          /\ g.users = n /\ g.slot = frames[p].slot
          /\ g.writers = frames[p].writers /\ g.readers = frames[p].readers
          /\ g.locked = frames[p].locked
      BY <1>3, <2>3, <2>4 DEF FrameRecords, n
    <2>6. QED
      BY <2>5 DEF d, n
  <1>5. \A q \in Pages \ {p} : frames'[q] = frames[q]
    BY <1>0 DEF Unfixed, IInv, TypeOK
  <1>6. TypeOK'
    <2>1. pc' \in [Threads -> PCs] /\ call' \in [Threads -> Calls]
      BY DEF Unfixed, IInv, TypeOK, PCs, Calls, NoCall
    <2>2. frames' = [q \in Pages |-> frames'[q]]
      BY DEF Unfixed, IInv, TypeOK
    <2>3. frames' \in [Pages -> FrameRecords]
      BY <1>4, <1>5, <2>2 DEF IInv, TypeOK
    <2>4. QED
      BY <1>1, <2>1, <2>3 DEF IInv, TypeOK
  <1> HIDE DEF g
  <1>7. \A q \in Pages :
           /\ frames'[q].state = frames[q].state /\ frames'[q].slot = frames[q].slot
           /\ frames'[q].writers = frames[q].writers /\ frames'[q].readers = frames[q].readers
           /\ frames'[q].locked = frames[q].locked
    BY <1>4, <1>5 DEF g
  <1>8. CallsInv'
    <2> SUFFICES ASSUME NEW u \in Threads \ {t}
                 PROVE  LET r == call[u].page
                            w == victim[u]
                        IN  /\ pc[u] # "idle" => r \in Pages
                            /\ Waiting(u) => r \notin Fixed(u)'
                            /\ pc[u] \in {"latch", "unfixing"} => frames'[r].state \notin Empty
                            /\ Loading(u) => frames'[r].state = "LOADING" /\ u \in frames'[r].writers
                            /\ Evicting(u) => frames'[r].state = "NEW" /\ u \in frames'[r].writers
                            /\ Evicting(u) => w \in Pages /\ frames'[w].state \in Claimed
      BY <1>1 DEF CallsInv, Waiting, Loading, Evicting
    <2>1. \A q \in Pages : q \in Fixed(u)' => q \in Fixed(u)
      BY <1>7 DEF Fixed
    <2>2. Waiting(u) => call[u].page \notin Fixed(u)'
      BY <2>1 DEF IInv, CallsInv, Fixed
    <2>3. QED
      BY <1>7, <2>2 DEF IInv, CallsInv, Loading, Evicting, Waiting
  <1>9. VictimsInv'
    <2>1. \A u \in Threads : Evicting(u)' => Evicting(u) /\ victim'[u] = victim[u]
      BY <1>1 DEF Evicting
    <2>2. QED
      BY <2>1, VictimsStay
  <1>10. FramesInv'
    <2>1. \A u \in Threads : /\ Loading(u) => Loading(u)' /\ call'[u] = call[u]
                             /\ Evicting(u) => Evicting(u)' /\ call'[u] = call[u]
      BY <1>1 DEF Loading, Evicting
    <2>2. \A q \in Pages \ {p} : FrameInv(q)'
      BY <1>5, <2>1, FrameStays
    <2>3. FrameInv(p)'
      <3>1. FrameInv(p)
        BY <1>2 DEF IInv, FramesInv
      <3>2. frames[p].state # "EVICTING"
        BY <1>3, <3>1 DEF FrameInv
      <3>3. QED
        BY <1>2, <1>4, <2>1, <3>1, <3>2 DEF FrameInv, Empty, Claimed, g
    <2>4. QED
      BY <2>2, <2>3 DEF FramesInv
  <1>11. LatchInv'
    BY <1>7 DEF IInv, LatchInv, LatchOf
  <1>12. UsersExact'
    <2>1. \A u \in Threads : \A q \in Pages :
             /\ u # t => (CallsFor(u, q)' <=> CallsFor(u, q))
             /\ u = t => (CallsFor(u, q) <=> q = p) /\ ~CallsFor(u, q)'
      BY <1>0, <1>1 DEF CallsFor
    <2>2. \A u \in Threads : \A q \in Pages : Holds(u, q)' <=> Holds(u, q)
      BY <1>7 DEF Holds
    <2>3. \A u \in Threads \ {t} : \A q \in Pages : Uses(u, q)' <=> Uses(u, q)
      BY <2>1, <2>2, UsesIff, UsesIffNext
    <2>4. Uses(t, p) /\ ~Uses(t, p)'
      BY <1>2, <2>1, <2>2, UsesIff, UsesIffNext
    <2>5. \A q \in Pages \ {p} : Uses(t, q)' <=> Uses(t, q)
      BY <2>1, <2>2, UsesIff, UsesIffNext
    <2>6. /\ frames'[p].users = frames[p].users - 1
          /\ \A q \in Pages \ {p} : frames'[q].users = frames[q].users
      BY <1>4, <1>5 DEF g
    <2>7. \A q \in Pages :
              /\ (Uses(t, q)' <=> Uses(t, q)) => frames'[q].users = frames[q].users
              /\ Uses(t, q)' /\ ~Uses(t, q) => frames'[q].users = frames[q].users + 1
              /\ ~Uses(t, q)' /\ Uses(t, q) => frames'[q].users = frames[q].users - 1
      BY <2>4, <2>5, <2>6
    <2>8. QED
      BY <2>3, <2>7, UsersFollow
  <1>13. ListsMatchFrames' /\ SlotsInv'
    BY <1>1, <1>7, SlotsStay
  <1>14. PagesInv'
    <2> SUFFICES ASSUME NEW q \in Pages PROVE PageInv(q)'
      BY DEF PagesInv
    <2>1. PageInv(q)
      BY DEF IInv, PagesInv
    <2>2. ~frames'[q].dirty /\ Flagged(q)' => ~frames[q].dirty /\ Flagged(q)
      <3>1. CASE q = p
        BY <1>1, <1>4, <3>1 DEF Flagged, g
      <3>2. CASE q # p
        BY <1>0, <1>1, <1>5, <3>2 DEF Flagged
      <3>3. QED
        BY <3>1, <3>2
    <2>3. QED
      BY <1>1, <1>7, <2>1, <2>2 DEF PageInv
  <1>15. CopiesInv'
    <2>1. CopiesInv
      BY DEF IInv
    <2>2. \A u \in Threads : pc[u] = "read" => call[u].page \in Pages
      BY DEF IInv, CallsInv
    <2>3. \A u \in Threads : pc[u] \in {"writing", "written"} => victim[u] \in Pages
      BY DEF IInv, CallsInv, Evicting
    <2>4. \A u \in Threads : wrote[u] \in SUBSET Pages
      BY DEF IInv, TypeOK
    <2>5. QED
      BY <1>1, <1>7, <2>1, <2>2, <2>3, <2>4 DEF CopiesInv
  <1>16. QED
    BY <1>6, <1>8, <1>9, <1>10, <1>11, <1>12, <1>13, <1>14, <1>15 DEF IInv

(* Waiting for a frame that another thread creates. *)
LEMMA QueuesStep ==
    ASSUME IInv, NEW t \in Threads, Queues(t)
    PROVE  IInv'
  <1> DEFINE p == call[t].page
             more == IF pc[t] = "lookup" THEN 1 ELSE 0
  <1>1. /\ pc[t] \in {"lookup", "recheck"} /\ pc'[t] = "waitnew"
        /\ \A u \in Threads \ {t} : pc'[u] = pc[u]
        /\ UNCHANGED <<call, fifo, lru, mem, disk, size, copy, victim, truth, wrote, left>>
    BY DEF Queues, IInv, TypeOK, clientVars
  <1>2. p \in Pages /\ frames[p].state = "NEW" /\ ~Holds(t, p) /\ frames[p] \in FrameRecords
    BY <1>1, PageOf DEF Queues, IInv, CallsInv, Waiting, Fixed, Holds, TypeOK
  <1>3. /\ frames'[p] \in FrameRecords
        /\ frames'[p].state = frames[p].state /\ frames'[p].dirty = frames[p].dirty
        /\ frames'[p].users = frames[p].users + more /\ frames'[p].slot = frames[p].slot
        /\ frames'[p].locked = frames[p].locked
        /\ frames'[p].writers = frames[p].writers /\ frames'[p].readers = frames[p].readers
    <2>1. CASE pc[t] = "lookup"
      <3>1. frames'[p] = [frames[p] EXCEPT !.users = frames[p].users + 1]
        BY <1>2, <2>1 DEF Queues, IInv, TypeOK, FrameRecords
      <3>2. QED
        BY <1>2, <2>1, <3>1 DEF FrameRecords
    <2>2. CASE pc[t] = "recheck"
      <3>1. frames' = frames
        BY <2>2 DEF Queues
      <3>2. QED
        BY <1>2, <2>2, <3>1 DEF FrameRecords
    <2>3. QED
      BY <1>1, <2>1, <2>2
  <1>4. \A q \in Pages \ {p} : frames'[q] = frames[q]
    BY DEF Queues, IInv, TypeOK
  <1>5. \A q \in Pages :
           /\ frames'[q].state = frames[q].state /\ frames'[q].slot = frames[q].slot
           /\ frames'[q].dirty = frames[q].dirty /\ frames'[q].locked = frames[q].locked
           /\ frames'[q].writers = frames[q].writers /\ frames'[q].readers = frames[q].readers
    BY <1>3, <1>4
  <1>6. TypeOK'
    <2>1. pc' \in [Threads -> PCs]
      BY DEF Queues, IInv, TypeOK, PCs
    <2>2. frames' = [q \in Pages |-> frames'[q]]
      BY DEF Queues, IInv, TypeOK
    <2>3. frames' \in [Pages -> FrameRecords]
      BY <1>3, <1>4, <2>2 DEF IInv, TypeOK
    <2>4. QED
      BY <1>1, <2>1, <2>3 DEF IInv, TypeOK
  <1>7. CallsInv'
    BY <1>1, <1>2, <1>5 DEF IInv, CallsInv, Waiting, Loading, Evicting, Fixed, Holds
  <1>8. VictimsInv'
    <2>1. \A u \in Threads : Evicting(u)' => Evicting(u) /\ victim'[u] = victim[u]
      BY <1>1 DEF Evicting
    <2>2. QED
      BY <2>1, VictimsStay
  <1>9. FramesInv'
    <2>1. \A u \in Threads : /\ Loading(u) => Loading(u)' /\ call'[u] = call[u]
                             /\ Evicting(u) => Evicting(u)' /\ call'[u] = call[u]
      BY <1>1 DEF Loading, Evicting
    <2>2. \A q \in Pages \ {p} : FrameInv(q)'
      BY <1>4, <2>1, FrameStays
    <2>3. ASSUME NEW q \in Pages, q = p PROVE FrameInv(q)'
      <3>1. FrameInv(q) /\ frames[q].users \in Nat /\ frames[q].writers \subseteq Threads
        BY <1>2, <2>3 DEF IInv, FramesInv, FrameRecords
      <3>2. frames[q].state = "NEW" /\ frames'[q].users > 0
        BY <1>2, <1>3, <2>3, <3>1 DEF FrameInv
      <3>3. QED
        BY <1>1, <1>5, <2>1, <3>1, <3>2 DEF FrameInv, Empty, Claimed
    <2>4. QED
      BY <2>2, <2>3 DEF FramesInv
  <1>10. LatchInv'
    BY <1>5 DEF IInv, LatchInv, LatchOf
  <1>11. UsersExact'
    <2>1. \A u \in Threads : \A q \in Pages : Holds(u, q)' <=> Holds(u, q)
      BY <1>5 DEF Holds
    <2>2. \A u \in Threads \ {t} : \A q \in Pages : CallsFor(u, q)' <=> CallsFor(u, q)
      BY <1>1 DEF CallsFor
    <2>3. /\ pc[t] = "lookup" => \A q \in Pages : ~CallsFor(t, q)
          /\ pc[t] = "recheck" => \A q \in Pages : CallsFor(t, q) <=> q = p
          /\ \A q \in Pages : CallsFor(t, q)' <=> q = p
      BY <1>1 DEF CallsFor
    <2>4. \A u \in Threads \ {t} : \A q \in Pages : Uses(u, q)' <=> Uses(u, q)
      BY <2>1, <2>2, UsesIff, UsesIffNext
    <2>5. \A q \in Pages : /\ q # p => (Uses(t, q)' <=> Uses(t, q))
                           /\ q = p => Uses(t, q)' /\ (Uses(t, q) <=> pc[t] = "recheck")
      BY <1>1, <1>2, <2>1, <2>3, UsesIff, UsesIffNext
    <2>6. \A q \in Pages : frames[q].users \in Int
      BY DEF IInv, TypeOK, FrameRecords
    <2>7. \A q \in Pages :
              /\ (Uses(t, q)' <=> Uses(t, q)) => frames'[q].users = frames[q].users
              /\ Uses(t, q)' /\ ~Uses(t, q) => frames'[q].users = frames[q].users + 1
              /\ ~Uses(t, q)' /\ Uses(t, q) => frames'[q].users = frames[q].users - 1
      <3> TAKE q \in Pages
      <3>1. CASE q # p
        BY <1>4, <2>5, <3>1
      <3>2. CASE q = p /\ pc[t] = "lookup"
        BY <1>3, <2>5, <3>2
      <3>3. CASE q = p /\ pc[t] = "recheck"
        BY <1>3, <2>5, <2>6, <3>3
      <3>4. QED
        BY <1>1, <3>1, <3>2, <3>3
    <2>8. QED
      BY <2>4, <2>7, UsersFollow
  <1>12. ListsMatchFrames' /\ SlotsInv'
    BY <1>1, <1>5, SlotsStay
  <1>13. PagesInv'
    <2>1. \A q \in Pages : PageInv(q) /\ (Flagged(q)' => Flagged(q))
      BY <1>1 DEF IInv, PagesInv, Flagged
    <2>2. \A q \in Pages : PageInv(q)'
      BY <1>1, <1>5, <2>1 DEF PageInv
    <2>3. QED
      BY <2>2 DEF PagesInv
  <1>14. CopiesInv'
    <2>1. CopiesInv
      BY DEF IInv
    <2>2. \A u \in Threads : pc[u] = "read" => call[u].page \in Pages
      BY DEF IInv, CallsInv
    <2>3. \A u \in Threads : pc[u] \in {"writing", "written"} => victim[u] \in Pages
      BY DEF IInv, CallsInv, Evicting
    <2>4. \A u \in Threads : wrote[u] \in SUBSET Pages
      BY DEF IInv, TypeOK
    <2>5. QED
      BY <1>1, <1>5, <2>1, <2>2, <2>3, <2>4 DEF CopiesInv
  <1>15. QED
    BY <1>6, <1>7, <1>8, <1>9, <1>10, <1>11, <1>12, <1>13, <1>14 DEF IInv

(* Fixing a page in memory, be it a victim. *)
LEMMA TouchesStep ==
    ASSUME IInv, NEW t \in Threads, Touches(t)
    PROVE  IInv'
  <1> DEFINE p == call[t].page
             more == IF pc[t] = "lookup" THEN 1 ELSE 0
  <1>1. /\ pc[t] \in {"lookup", "recheck"} /\ pc'[t] = "latch"
        /\ \A u \in Threads \ {t} : pc'[u] = pc[u]
        /\ UNCHANGED <<call, mem, disk, size, copy, victim, truth, wrote, left>>
    BY DEF Touches, IInv, TypeOK, clientVars
  <1>2. p \in Pages /\ frames[p].state \notin Empty /\ ~Holds(t, p) /\ frames[p] \in FrameRecords
    BY <1>1, PageOf DEF Touches, IInv, CallsInv, Waiting, Fixed, Holds, TypeOK
  <1>3. /\ frames'[p] \in FrameRecords
        /\ frames'[p].state =
              IF pc[t] = "lookup" /\ frames[p].state = "EVICTING" THEN "RELOADED" ELSE frames[p].state
        /\ frames'[p].dirty = frames[p].dirty
        /\ frames'[p].users = frames[p].users + more /\ frames'[p].slot = frames[p].slot
        /\ frames'[p].locked = frames[p].locked
        /\ frames'[p].writers = frames[p].writers /\ frames'[p].readers = frames[p].readers
    <2>1. CASE pc[t] = "lookup"
      <3> DEFINE state == IF frames[p].state = "EVICTING" THEN "RELOADED" ELSE frames[p].state
      <3>1. frames'[p] = [frames[p] EXCEPT !.users = frames[p].users + 1, !.state = state]
        <4>1. frames' = [frames EXCEPT ![p] = [frames[p] EXCEPT !.users = frames[p].users + 1, !.state = state]]
          BY <1>2, <2>1 DEF Touches, IInv, TypeOK, FrameRecords
        <4> HIDE DEF state
        <4>2. QED
          BY <1>2, <4>1 DEF IInv, TypeOK
      <3>2. state \in FrameStates
        BY <1>2 DEF FrameRecords, FrameStates
      <3>3. state = IF pc[t] = "lookup" /\ frames[p].state = "EVICTING" THEN "RELOADED" ELSE frames[p].state
        BY <2>1
      <3> HIDE DEF state
      <3>4. /\ frames'[p] \in FrameRecords
            /\ frames'[p].state = state /\ frames'[p].dirty = frames[p].dirty
            /\ frames'[p].users = frames[p].users + 1 /\ frames'[p].slot = frames[p].slot
            /\ frames'[p].locked = frames[p].locked
            /\ frames'[p].writers = frames[p].writers /\ frames'[p].readers = frames[p].readers
        <4>1. frames[p].users + 1 \in Nat
          BY <1>2 DEF FrameRecords
        <4>2. QED
          BY <1>2, <3>1, <3>2, <4>1 DEF FrameRecords
      <3>5. QED
        BY <2>1, <3>3, <3>4
    <2>2. CASE pc[t] = "recheck"
      <3>1. frames' = frames
        BY <2>2 DEF Touches
      <3>2. QED
        BY <1>2, <2>2, <3>1 DEF FrameRecords
    <2>3. QED
      BY <1>1, <2>1, <2>2
  <1>4. \A q \in Pages \ {p} : frames'[q] = frames[q]
    BY DEF Touches, IInv, TypeOK
  <1>5. \A q \in Pages :
           /\ frames'[q].slot = frames[q].slot
           /\ frames'[q].dirty = frames[q].dirty /\ frames'[q].locked = frames[q].locked
           /\ frames'[q].writers = frames[q].writers /\ frames'[q].readers = frames[q].readers
           /\ \/ frames'[q].state = frames[q].state
              \/ frames[q].state = "EVICTING" /\ frames'[q].state = "RELOADED"
    BY <1>3, <1>4
  <1>6. fifo \in Seq(Pages) /\ lru \in Seq(Pages) /\ IsInjective(fifo) /\ IsInjective(lru)
    BY DEF IInv, TypeOK, ListsMatchFrames
  <1>7. /\ fifo' \in Seq(Pages) /\ IsInjective(fifo') /\ ToSet(fifo') = ToSet(fifo) \ {p}
        /\ lru' \in Seq(Pages) /\ IsInjective(lru') /\ ToSet(lru') = (ToSet(lru) \ {p}) \cup {p}
    <2> DEFINE rest == RemoveFirst(lru, p)
    <2>1. fifo' = RemoveFirst(fifo, p) /\ lru' = Append(rest, p)
      BY DEF Touches
    <2>2. rest \in Seq(Pages) /\ IsInjective(rest) /\ ToSet(rest) = ToSet(lru) \ {p}
      BY <1>6, RemoveFirstElements
    <2>3. p \notin ToSet(rest)
      BY <2>2
    <2> HIDE DEF rest
    <2>4. Append(rest, p) \in Seq(Pages) /\ IsInjective(Append(rest, p))
          /\ ToSet(Append(rest, p)) = ToSet(rest) \cup {p}
      BY <1>2, <2>2, <2>3, AppendElements
    <2>5. QED
      BY <1>6, <2>1, <2>2, <2>4, RemoveFirstElements
  <1>8. TypeOK'
    <2>1. pc' \in [Threads -> PCs]
      BY DEF Touches, IInv, TypeOK, PCs
    <2>2. frames' = [q \in Pages |-> frames'[q]]
      BY DEF Touches, IInv, TypeOK
    <2>3. frames' \in [Pages -> FrameRecords]
      BY <1>3, <1>4, <2>2 DEF IInv, TypeOK
    <2>4. QED
      BY <1>1, <1>7, <2>1, <2>3 DEF IInv, TypeOK
  <1>9. CallsInv'
    <2> SUFFICES ASSUME NEW u \in Threads
                 PROVE  LET r == call[u].page
                            w == victim[u]
                        IN  /\ pc'[u] # "idle" => r \in Pages
                            /\ Waiting(u)' => r \notin Fixed(u)'
                            /\ pc'[u] \in {"latch", "unfixing"} => frames'[r].state \notin Empty
                            /\ Loading(u)' => frames'[r].state = "LOADING" /\ u \in frames'[r].writers
                            /\ Evicting(u)' => frames'[r].state = "NEW" /\ u \in frames'[r].writers
                            /\ Evicting(u)' => w \in Pages /\ frames'[w].state \in Claimed
      BY <1>1 DEF CallsInv
    <2>1. Waiting(u)' => call[u].page \notin Fixed(u)'
      BY <1>1, <1>5 DEF IInv, CallsInv, Waiting, Fixed
    <2>2. QED
      BY <1>1, <1>2, <1>5, <2>1 DEF IInv, CallsInv, Loading, Evicting, Empty, Claimed
  <1>10. VictimsInv'
    <2>1. \A u \in Threads : Evicting(u)' => Evicting(u) /\ victim'[u] = victim[u]
      BY <1>1 DEF Evicting
    <2>2. QED
      BY <2>1, VictimsStay
  <1>11. FramesInv'
    <2>1. \A u \in Threads : /\ Loading(u) => Loading(u)' /\ call'[u] = call[u]
                             /\ Evicting(u) => Evicting(u)' /\ call'[u] = call[u]
      BY <1>1 DEF Loading, Evicting
    <2>2. \A q \in Pages \ {p} : FrameInv(q)'
      BY <1>4, <2>1, FrameStays
    <2>3. ASSUME NEW q \in Pages, q = p PROVE FrameInv(q)'
      <3>1. FrameInv(q)
        BY DEF IInv, FramesInv
      <3>2. CASE pc[t] = "recheck"
        <4>1. frames'[q] = frames[q]
          BY <3>2 DEF Touches
        <4>2. QED
          BY <2>1, <4>1, FrameStays
      <3>3. CASE pc[t] = "lookup"
        <4>1. frames'[q].state \notin {"ABSENT", "NEW", "EVICTING"}
          BY <1>2, <1>3, <2>3, <3>3 DEF Empty
        <4>2. frames'[q].slot # NoSlot
          BY <1>2, <1>5, <2>3, <3>1 DEF FrameInv
        <4>3. frames'[q].state \in Claimed => frames'[q].dirty
          BY <1>5, <3>1 DEF FrameInv, Claimed
        <4>4. frames'[q].state = "LOADING" => \E u \in Threads : Loading(u)' /\ call'[u].page = q
          BY <1>5, <2>1, <3>1 DEF FrameInv
        <4>5. QED
          BY <4>1, <4>2, <4>3, <4>4 DEF FrameInv, Empty
      <3>4. QED
        BY <1>1, <3>2, <3>3
    <2>4. QED
      BY <2>2, <2>3 DEF FramesInv
  <1>12. LatchInv'
    BY <1>5 DEF IInv, LatchInv, LatchOf
  <1>13. UsersExact'
    <2>1. \A u \in Threads : \A q \in Pages : Holds(u, q)' <=> Holds(u, q)
      BY <1>5 DEF Holds
    <2>2. \A u \in Threads \ {t} : \A q \in Pages : CallsFor(u, q)' <=> CallsFor(u, q)
      BY <1>1 DEF CallsFor
    <2>3. /\ pc[t] = "lookup" => \A q \in Pages : ~CallsFor(t, q)
          /\ pc[t] = "recheck" => \A q \in Pages : CallsFor(t, q) <=> q = p
          /\ \A q \in Pages : CallsFor(t, q)' <=> q = p
      BY <1>1 DEF CallsFor
    <2>4. \A u \in Threads \ {t} : \A q \in Pages : Uses(u, q)' <=> Uses(u, q)
      BY <2>1, <2>2, UsesIff, UsesIffNext
    <2>5. \A q \in Pages : /\ q # p => (Uses(t, q)' <=> Uses(t, q))
                           /\ q = p => Uses(t, q)' /\ (Uses(t, q) <=> pc[t] = "recheck")
      BY <1>1, <1>2, <2>1, <2>3, UsesIff, UsesIffNext
    <2>6. \A q \in Pages : frames[q].users \in Int
      BY DEF IInv, TypeOK, FrameRecords
    <2>7. \A q \in Pages :
              /\ (Uses(t, q)' <=> Uses(t, q)) => frames'[q].users = frames[q].users
              /\ Uses(t, q)' /\ ~Uses(t, q) => frames'[q].users = frames[q].users + 1
              /\ ~Uses(t, q)' /\ Uses(t, q) => frames'[q].users = frames[q].users - 1
      <3> TAKE q \in Pages
      <3>1. CASE q # p
        BY <1>4, <2>5, <3>1
      <3>2. CASE q = p /\ pc[t] = "lookup"
        BY <1>3, <2>5, <3>2
      <3>3. CASE q = p /\ pc[t] = "recheck"
        BY <1>3, <2>5, <2>6, <3>3
      <3>4. QED
        BY <1>1, <3>1, <3>2, <3>3
    <2>8. QED
      BY <2>4, <2>7, UsersFollow
  <1>14. SlotsInv'
    BY <1>5, SlotsStay
  <1>15. ListsMatchFrames'
    <2>1. frames[p].slot # NoSlot
      BY <1>2 DEF IInv, FramesInv, FrameInv
    <2>2. {q \in Pages : frames'[q].slot # NoSlot} = {q \in Pages : frames[q].slot # NoSlot}
      BY <1>5
    <2>3. /\ ToSet(fifo) \cap ToSet(lru) = {}
          /\ ToSet(fifo) \cup ToSet(lru) = {q \in Pages : frames[q].slot # NoSlot}
      BY DEF IInv, ListsMatchFrames
    <2>4. /\ ToSet(fifo') \cap ToSet(lru') = {}
          /\ ToSet(fifo') \cup ToSet(lru') = {q \in Pages : frames'[q].slot # NoSlot}
      BY <1>2, <1>7, <2>1, <2>2, <2>3
    <2>5. QED
      BY <1>7, <2>4 DEF ListsMatchFrames
  <1>16. PagesInv'
    <2>1. \A q \in Pages : PageInv(q) /\ (Flagged(q)' => Flagged(q))
      BY <1>1 DEF IInv, PagesInv, Flagged
    <2>2. \A q \in Pages : PageInv(q)'
      BY <1>1, <1>5, <2>1 DEF PageInv, Empty, Claimed
    <2>3. QED
      BY <2>2 DEF PagesInv
  <1>17. CopiesInv'
    <2>1. CopiesInv
      BY DEF IInv
    <2>2. \A u \in Threads : pc[u] = "read" => call[u].page \in Pages
      BY DEF IInv, CallsInv
    <2>3. \A u \in Threads : pc[u] \in {"writing", "written"} => victim[u] \in Pages
      BY DEF IInv, CallsInv, Evicting
    <2>4. \A u \in Threads : wrote[u] \in SUBSET Pages
      BY DEF IInv, TypeOK
    <2>5. QED
      BY <1>1, <1>5, <2>1, <2>2, <2>3, <2>4 DEF CopiesInv
  <1>18. QED
    BY <1>8, <1>9, <1>10, <1>11, <1>12, <1>13, <1>14, <1>15, <1>16, <1>17 DEF IInv

(***************************************************************************)
(* The steps of fix_page that allocate memory, or try to.                  *)
(***************************************************************************)

(* num_users is 1 for the only user of a page, and else 0. *)
LEMMA OnlyUser ==
    ASSUME UsersExact, NEW p \in Pages, NEW t \in Threads,
           \A u \in Threads \ {t} : ~Uses(u, p)
    PROVE  frames[p].users = IF Uses(t, p) THEN 1 ELSE 0
  <1>1. frames[p].users = Cardinality(Users(p))
    BY DEF UsersExact, Users
  <1>2. CASE Uses(t, p)
    <2>1. Users(p) = {t}
      BY <1>2 DEF Users
    <2>2. QED
      BY <1>1, <1>2, <2>1, FS_Singleton
  <1>3. CASE ~Uses(t, p)
    <2>1. Users(p) = {}
      BY <1>3 DEF Users
    <2>2. QED
      BY <1>1, <1>3, <2>1, FS_EmptySet
  <1>4. QED
    BY <1>2, <1>3

(* The frame of t counts t, and t alone has locked it. *)
LEMMA BaseUsers ==
    ASSUME IInv, NEW t \in Threads, Allocates(t), NEW p, p = call[t].page
    PROVE  /\ Base(t)[p].users = IF Uses(t, p) THEN frames[p].users ELSE frames[p].users + 1
           /\ \A u \in Threads \ {t} : ~Holds(u, p)
           /\ Base(t)[p].users # 1 => frames[p].state = "NEW"
  <1>1. p \in Pages /\ Base(t)[p].writers = {t} /\ Base(t)[p].readers = {}
    BY BaseFrame
  <1>2. CASE pc[t] = "written"
    <2>1. frames[p].state = "NEW"
      BY <1>2 DEF IInv, CallsInv, Evicting
    <2>2. Base(t)[p] = frames[p]
      BY <1>1, <1>2, <2>1 DEF Base
    <2>3. Uses(t, p)
      BY <1>1, <1>2, UsesIff DEF CallsFor
    <2>4. QED
      BY <1>1, <2>1, <2>2, <2>3 DEF Holds
  <1>3. CASE pc[t] # "written"
    <2>1. \A u \in Threads \ {t} : ~Uses(u, p)
      BY <1>3 DEF Allocates
    <2>2. frames[p].users = IF Uses(t, p) THEN 1 ELSE 0
      BY <1>1, <2>1, OnlyUser DEF IInv
    <2>3. Base(t)[p].users = 1
      BY <1>1, <1>3 DEF Base, Created, Absent
    <2>4. QED
      BY <1>1, <2>1, <2>2, <2>3, UsesIff
  <1>4. QED
    BY <1>2, <1>3

(* A page that t may evict, or has written out. *)
Evictable(t, v) ==
    /\ v \in Pages \ {call[t].page}
    /\ frames[v].users = 0
    /\ \/ frames[v].state = "LOADED"
       \/ pc[t] = "written" /\ v = victim[t] /\ frames[v].state \in Claimed

(* What the other threads are about is neither the page of t nor its victim. *)
LEMMA OthersElsewhere ==
    ASSUME IInv, NEW t \in Threads, Allocates(t), NEW p, p = call[t].page,
           NEW v, v = NoPage \/ Evictable(t, v), NEW u \in Threads \ {t}
    PROVE  /\ Loading(u) \/ Evicting(u) \/ pc[u] \in {"latch", "unfixing"} =>
                 call[u].page \in Pages \ {p, v}
           /\ Evicting(u) => /\ victim[u] \in Pages \ {p, v}
                             /\ pc[t] = "written" => victim[u] # victim[t]
           /\ v \in Pages => ~Uses(u, v)
  <1>1. p \in Pages /\ frames[p].state \in Empty
    BY BaseFrame
  <1>2. NoPage \notin Pages
    BY BufferAssumption DEF NoPage, Pages
  <1>3. ~Holds(u, p)
    BY BaseUsers
  <1>4. v \in Pages => ~Uses(u, v)
    BY <1>2, UsersCount DEF Evictable, IInv
  <1>5. v \in Pages => frames[v].state \in {"LOADED"} \cup Claimed
    BY <1>2 DEF Evictable
  <1>6. /\ pc[u] # "idle" => call[u].page \in Pages
        /\ pc[u] \in {"latch", "unfixing"} => frames[call[u].page].state \notin Empty
        /\ Loading(u) => frames[call[u].page].state = "LOADING"
        /\ Evicting(u) => frames[call[u].page].state = "NEW" /\ u \in frames[call[u].page].writers
        /\ Evicting(u) => victim[u] \in Pages /\ frames[victim[u]].state \in Claimed
    BY DEF IInv, CallsInv
  <1>7. Loading(u) => call[u].page \in Pages \ {p, v}
    BY <1>1, <1>5, <1>6 DEF Loading, Empty, Claimed
  <1>8. Evicting(u) => call[u].page \in Pages \ {p, v}
    BY <1>3, <1>5, <1>6 DEF Evicting, Holds, Claimed
  <1>9. pc[u] \in {"latch", "unfixing"} => call[u].page \in Pages \ {p, v}
    <2> SUFFICES ASSUME pc[u] \in {"latch", "unfixing"} PROVE call[u].page \in Pages \ {p, v}
      OBVIOUS
    <2>1. call[u].page \in Pages /\ call[u].page # p
      BY <1>1, <1>6
    <2>2. Uses(u, call[u].page)
      BY <2>1, UsesIff DEF CallsFor
    <2>3. QED
      BY <1>4, <2>1, <2>2
  <1>10. Evicting(u) /\ pc[t] = "written" => victim[u] # victim[t]
    BY DEF IInv, VictimsInv, Evicting
  <1>11. Evicting(u) => victim[u] \in Pages \ {p, v}
    BY <1>1, <1>2, <1>6, <1>10 DEF Evictable, Empty, Claimed
  <1>12. QED
    BY <1>4, <1>7, <1>8, <1>9, <1>10, <1>11

(* What t leaves alone. *)
Elsewhere(t, p, v) ==
    /\ \A u \in Threads \ {t} :
          /\ pc'[u] = pc[u] /\ call'[u] = call[u] /\ victim'[u] = victim[u] /\ copy'[u] = copy[u]
          /\ ~Holds(u, p)'
    /\ \A q \in Pages \ {p, v} : /\ frames'[q] = Base(t)[q]
                                 /\ frames[q].slot # NoSlot =>
                                       mem'[frames[q].slot] = mem[frames[q].slot]
    /\ v \in Pages => \A u \in Threads : ~Holds(u, v)'
    /\ size' \in Nat /\ size <= size'
    /\ UNCHANGED <<disk, truth, wrote>>

(* The frames that are neither the one of t nor its victim. *)
LEMMA ElsewhereFrames ==
    ASSUME IInv, NEW t \in Threads, Allocates(t), NEW p, p = call[t].page,
           NEW v, v = NoPage \/ Evictable(t, v), Elsewhere(t, p, v), NEW q \in Pages \ {p, v}
    PROVE  /\ frames'[q] \in FrameRecords /\ FrameInv(q)' /\ LatchOf(frames[q])' /\ PageInv(q)'
           /\ frames'[q].slot = frames[q].slot /\ frames'[q].users = frames[q].users
           /\ frames'[q].writers = frames[q].writers /\ frames'[q].readers = frames[q].readers
           /\ \/ frames'[q].state = frames[q].state
              \/ /\ frames[q].state = "RELOADED" /\ frames'[q].state = "LOADED"
                 /\ pc[t] = "written" /\ q = victim[t]
  <1>1. /\ frames[q] \in FrameRecords /\ FrameInv(q) /\ LatchOf(frames[q]) /\ PageInv(q)
    BY DEF IInv, TypeOK, FramesInv, LatchInv, PagesInv
  <1>2. /\ frames'[q] \in FrameRecords
        /\ \/ frames'[q] = frames[q]
           \/ /\ pc[t] = "written" /\ q = victim[t]
              /\ frames[q].state = "RELOADED" /\ frames'[q].state = "LOADED"
              /\ frames'[q].users = frames[q].users
              /\ frames'[q].locked = frames[q].locked
              /\ frames'[q].dirty = frames[q].dirty
              /\ frames'[q].slot = frames[q].slot
              /\ frames'[q].writers = frames[q].writers
              /\ frames'[q].readers = frames[q].readers
    BY BaseOthers DEF Elsewhere
  <1>3. FrameInv(q)'
    <2>1. CASE frames'[q] = frames[q]
      <3>1. \A u \in Threads : call[u].page = q =>
               /\ Loading(u) => Loading(u)' /\ call'[u] = call[u]
               /\ Evicting(u) => Evicting(u)' /\ call'[u] = call[u]
        BY DEF Elsewhere, Loading, Evicting
      <3>2. QED
        BY <2>1, <3>1, FrameStays
    <2>2. CASE frames[q].state = "RELOADED" /\ frames'[q].state = "LOADED"
      BY <1>1, <1>2, <2>2 DEF FrameInv, Empty, Claimed
    <2>3. QED
      BY <1>2, <2>1, <2>2
  <1>4. LatchOf(frames[q])'
    BY <1>1, <1>2 DEF LatchOf
  <1>5. PageInv(q)'
    <2>1. Flagged(q)' => Flagged(q)
      BY DEF Elsewhere, Flagged, Allocates
    <2>2. /\ mem'[frames'[q].slot] = mem[frames[q].slot] \/ frames[q].slot = NoSlot
          /\ frames'[q].slot = frames[q].slot /\ disk' = disk /\ truth' = truth
          /\ size' \in Nat /\ size \in Nat /\ size <= size'
      BY <1>2 DEF Elsewhere, IInv, TypeOK
    <2>3. /\ frames[q].state \in Empty <=> frames[q].slot = NoSlot
          /\ frames[q].state \in Claimed => frames[q].dirty
      BY <1>1 DEF FrameInv
    <2>4. q \in Nat
      BY BufferAssumption DEF Pages
    <2>5. (size' < q => disk[q] = Zero) /\ (frames[q].slot # NoSlot => q <= size')
      BY <1>1, <2>2, <2>4 DEF PageInv
    <2>6. CASE frames'[q] = frames[q]
      BY <1>1, <2>1, <2>2, <2>3, <2>5, <2>6 DEF PageInv, Empty, Claimed
    <2>7. CASE frames[q].state = "RELOADED" /\ frames'[q].state = "LOADED" /\ frames'[q].dirty = frames[q].dirty
      BY <1>1, <2>1, <2>2, <2>3, <2>5, <2>7 DEF PageInv, Empty, Claimed
    <2>8. QED
      BY <1>2, <2>6, <2>7
  <1>6. QED
    BY <1>2, <1>3, <1>4, <1>5

(* The threads other than t. *)
LEMMA ElsewhereThreads ==
    ASSUME IInv, NEW t \in Threads, Allocates(t), NEW p, p = call[t].page,
           NEW v, v = NoPage \/ Evictable(t, v), Elsewhere(t, p, v), NEW u \in Threads \ {t}
    PROVE  /\ pc'[u] # "idle" => call'[u].page \in Pages
           /\ Waiting(u)' => call'[u].page \notin Fixed(u)'
           /\ pc'[u] \in {"latch", "unfixing"} => frames'[call'[u].page].state \notin Empty
           /\ Loading(u)' => frames'[call'[u].page].state = "LOADING" /\ u \in frames'[call'[u].page].writers
           /\ Evicting(u)' => frames'[call'[u].page].state = "NEW" /\ u \in frames'[call'[u].page].writers
           /\ Evicting(u)' => victim'[u] \in Pages /\ frames'[victim'[u]].state \in Claimed
           /\ pc'[u] = "read" => mem'[frames'[call'[u].page].slot] = disk'[call'[u].page]
           /\ pc'[u] = "writing" /\ frames'[victim'[u]].state = "EVICTING" => copy'[u] = truth'[victim'[u]]
           /\ pc'[u] = "written" /\ frames'[victim'[u]].state = "EVICTING" => disk'[victim'[u]] = truth'[victim'[u]]
           /\ \A q \in Pages : Uses(u, q)' <=> Uses(u, q)
           /\ \A q \in Pages : Holds(u, q)' <=> Holds(u, q)
  <1>1. /\ pc'[u] = pc[u] /\ call'[u] = call[u] /\ victim'[u] = victim[u] /\ copy'[u] = copy[u]
        /\ ~Holds(u, p)' /\ (v \in Pages => ~Holds(u, v)')
        /\ UNCHANGED <<disk, truth, wrote>>
    BY DEF Elsewhere
  <1>2. /\ Loading(u) \/ Evicting(u) \/ pc[u] \in {"latch", "unfixing"} =>
              call[u].page \in Pages \ {p, v}
        /\ Evicting(u) => /\ victim[u] \in Pages \ {p, v}
                          /\ pc[t] = "written" => victim[u] # victim[t]
        /\ v \in Pages => ~Uses(u, v)
    BY OthersElsewhere
  <1>3. \A q \in Pages \ {p, v} :
           /\ frames'[q].slot = frames[q].slot
           /\ frames'[q].writers = frames[q].writers /\ frames'[q].readers = frames[q].readers
           /\ \/ frames'[q].state = frames[q].state
              \/ /\ frames[q].state = "RELOADED" /\ frames'[q].state = "LOADED"
                 /\ pc[t] = "written" /\ q = victim[t]
    BY ElsewhereFrames
  <1>4. ~Holds(u, p)
    BY BaseUsers
  <1>5. \A q \in Pages : Holds(u, q)' <=> Holds(u, q)
    <2> TAKE q \in Pages
    <2>1. CASE q = p
      BY <1>1, <1>4, <2>1
    <2>2. CASE q = v
      BY <1>1, <1>2, <2>2, UsesIff
    <2>3. CASE q \notin {p, v}
      BY <1>3, <2>3 DEF Holds
    <2>4. QED
      BY <2>1, <2>2, <2>3
  <1>6. \A q \in Pages : Uses(u, q)' <=> Uses(u, q)
    <2>1. \A q \in Pages : CallsFor(u, q)' <=> CallsFor(u, q)
      BY <1>1 DEF CallsFor
    <2>2. QED
      BY <1>5, <2>1, UsesIff, UsesIffNext
  <1>7. /\ pc[u] # "idle" => call[u].page \in Pages
        /\ Waiting(u) => call[u].page \notin Fixed(u)
        /\ pc[u] \in {"latch", "unfixing"} => frames[call[u].page].state \notin Empty
        /\ Loading(u) => frames[call[u].page].state = "LOADING" /\ u \in frames[call[u].page].writers
        /\ Evicting(u) => frames[call[u].page].state = "NEW" /\ u \in frames[call[u].page].writers
        /\ Evicting(u) => victim[u] \in Pages /\ frames[victim[u]].state \in Claimed
    BY DEF IInv, CallsInv
  <1>8. Waiting(u)' => call'[u].page \notin Fixed(u)'
    <2>1. \A q \in Pages : q \in Fixed(u)' <=> q \in Fixed(u)
      BY <1>5 DEF Holds, Fixed
    <2>2. QED
      BY <1>1, <1>7, <2>1 DEF Waiting, Fixed
  <1>9. /\ pc'[u] \in {"latch", "unfixing"} => frames'[call'[u].page].state \notin Empty
        /\ Loading(u)' => frames'[call'[u].page].state = "LOADING" /\ u \in frames'[call'[u].page].writers
        /\ Evicting(u)' => frames'[call'[u].page].state = "NEW" /\ u \in frames'[call'[u].page].writers
    BY <1>1, <1>2, <1>3, <1>7 DEF Loading, Evicting, Empty
  <1>10. Evicting(u) => /\ victim[u] \in Pages \ {p, v}
                        /\ frames'[victim[u]].state = frames[victim[u]].state
    BY <1>2, <1>3
  <1>11. Evicting(u)' => victim'[u] \in Pages /\ frames'[victim'[u]].state \in Claimed
    BY <1>1, <1>7, <1>10 DEF Evicting
  <1>12. CopiesInv
    BY DEF IInv
  <1>13. pc'[u] = "read" => mem'[frames'[call'[u].page].slot] = disk'[call'[u].page]
    <2> SUFFICES ASSUME pc[u] = "read"
                 PROVE  mem'[frames'[call[u].page].slot] = disk[call[u].page]
      BY <1>1
    <2>1. call[u].page \in Pages \ {p, v}
      BY <1>2 DEF Loading
    <2>2. frames[call[u].page].slot # NoSlot
      <3>1. frames[call[u].page].slot \in Slots
        BY LoadingSlot DEF Loading
      <3>2. QED
        BY <3>1, BufferAssumption DEF Slots, NoSlot
    <2>3. mem'[frames[call[u].page].slot] = mem[frames[call[u].page].slot]
      BY <2>1, <2>2 DEF Elsewhere
    <2>4. QED
      BY <1>3, <1>12, <2>1, <2>3 DEF CopiesInv
  <1>14. /\ pc'[u] = "writing" /\ frames'[victim'[u]].state = "EVICTING" => copy'[u] = truth'[victim'[u]]
         /\ pc'[u] = "written" /\ frames'[victim'[u]].state = "EVICTING" => disk'[victim'[u]] = truth'[victim'[u]]
    BY <1>1, <1>10, <1>12 DEF CopiesInv, Evicting
  <1>15. QED
    BY <1>1, <1>5, <1>6, <1>7, <1>8, <1>9, <1>11, <1>13, <1>14

(* Nobody has written to the page of t, or to its victim. *)
LEMMA ElsewhereWrites ==
    ASSUME IInv, NEW t \in Threads, Allocates(t), NEW p, p = call[t].page,
           NEW v, v = NoPage \/ Evictable(t, v), Elsewhere(t, p, v),
           NEW u \in Threads, NEW q \in wrote'[u]
    PROVE  u \in frames'[q].writers /\ frames'[q].state \in {"LOADED", "RELOADED"}
  <1>1. q \in Pages /\ q \in wrote[u]
    BY DEF Elsewhere, IInv, TypeOK
  <1>2. u \in frames[q].writers /\ frames[q].state \in {"LOADED", "RELOADED"}
    BY <1>1 DEF IInv, CopiesInv
  <1>3. q # p
    BY <1>2, BaseFrame DEF Empty
  <1>4. q # v
    <2>1. Uses(u, q)
      BY <1>1, <1>2, UsesIff DEF Holds
    <2>2. frames[q].users > 0
      BY <1>1, <2>1, UsersCount DEF IInv
    <2>3. NoPage \notin Pages
      BY BufferAssumption DEF NoPage, Pages
    <2>4. QED
      BY <1>1, <2>2, <2>3 DEF Evictable
  <1>5. QED
    BY <1>1, <1>2, <1>3, <1>4, ElsewhereFrames

(* The parts of the invariant, when they hold of t, its page and its victim. *)
LEMMA ElsewhereStep ==
    ASSUME IInv, NEW t \in Threads, Allocates(t), NEW p, p = call[t].page,
           NEW v, v = NoPage \/ Evictable(t, v), Elsewhere(t, p, v)
    PROVE  /\ FrameInv(p)' /\ (v \in Pages => FrameInv(v)') => FramesInv'
           /\ LatchOf(frames'[p]) /\ (v \in Pages => LatchOf(frames'[v])) => LatchInv'
           /\ PageInv(p)' /\ (v \in Pages => PageInv(v)') => PagesInv'
           /\ ~Evicting(t)' => VictimsInv'
  <1>1. \A q \in Pages \ {p, v} : FrameInv(q)' /\ LatchOf(frames[q])' /\ PageInv(q)'
    BY ElsewhereFrames
  <1>2. ~Evicting(t)' => VictimsInv'
    <2>1. \A u \in Threads \ {t} : Evicting(u)' => Evicting(u) /\ victim'[u] = victim[u]
      BY DEF Elsewhere, Evicting
    <2>2. QED
      BY <2>1, VictimsStay
  <1>3. FrameInv(p)' /\ (v \in Pages => FrameInv(v)') => FramesInv'
    BY <1>1 DEF FramesInv
  <1>4. LatchOf(frames'[p]) /\ (v \in Pages => LatchOf(frames'[v])) => LatchInv'
    BY <1>1 DEF LatchInv
  <1>5. PageInv(p)' /\ (v \in Pages => PageInv(v)') => PagesInv'
    BY <1>1 DEF PagesInv
  <1>6. QED
    BY <1>2, <1>3, <1>4, <1>5

(* No page can be evicted: the frame is given up. *)
LEMMA FailsStep ==
    ASSUME IInv, NEW t \in Threads, Fails(t)
    PROVE  IInv'
  <1>0. PICK p : p = call[t].page
    OBVIOUS
  <1> DEFINE b == Base(t)[p]
             g == frames'[p]
  <1>1. /\ Allocates(t) /\ pc'[t] = "idle" /\ p \in Pages
        /\ frames[p].slot = NoSlot /\ frames[p].state \in Empty
        /\ UNCHANGED <<fifo, lru, mem, disk, size, truth, wrote, left>>
    BY <1>0, BaseFrame DEF Fails, Allocates, IInv, TypeOK, clientVars
  <1>2. /\ g \in FrameRecords
        /\ b.users = 1 => g = Absent
        /\ b.users # 1 => /\ g.state = "NEW" /\ g.slot = NoSlot
                          /\ g.users = b.users - 1 /\ g.users > 0
                          /\ g.locked = FALSE /\ g.writers = {} /\ g.readers = {}
    <2>1. g = DroppedFrame(t)
      BY <1>0, <1>1 DEF Fails, Base
    <2> HIDE DEF g
    <2>2. QED
      BY <1>0, <1>1, <2>1, GivenUpFrame
  <1>3. /\ Absent.state = "ABSENT" /\ Absent.slot = NoSlot /\ Absent.users = 0
        /\ Absent.locked = FALSE /\ Absent.writers = {} /\ Absent.readers = {}
    BY DEF Absent
  <1>4. /\ g.state \in Empty /\ g.slot = NoSlot /\ g.users = b.users - 1
        /\ g.locked = FALSE /\ g.writers = {} /\ g.readers = {}
        /\ g.state = "NEW" => g.users > 0 /\ b.users # 1
        /\ g.state = "ABSENT" => g = Absent
    BY <1>2, <1>3 DEF Empty
  <1>5. Elsewhere(t, p, NoPage) /\ NoPage \notin Pages
    <2>1. \A u \in Threads \ {t} : pc'[u] = pc[u] /\ call'[u] = call[u] /\ victim'[u] = victim[u] /\ copy'[u] = copy[u]
      BY DEF Fails, IInv, TypeOK
    <2>2. \A q \in Pages \ {p} : frames'[q] = Base(t)[q]
      BY <1>0 DEF Fails, Base
    <2>3. NoPage \notin Pages
      BY BufferAssumption DEF NoPage, Pages
    <2>4. size \in Nat /\ size <= size
      BY BufferAssumption DEF IInv, TypeOK
    <2>5. \A u \in Threads : ~Holds(u, p)'
      BY <1>4 DEF Holds
    <2>6. QED
      BY <1>1, <2>1, <2>2, <2>3, <2>4, <2>5 DEF Elsewhere
  <1> HIDE DEF b, g
  <1>6. TypeOK'
    <2>1. /\ pc' \in [Threads -> PCs] /\ call' \in [Threads -> Calls]
          /\ victim' \in [Threads -> Pages \cup {NoPage}]
      BY DEF Fails, IInv, TypeOK, PCs, Calls, NoCall
    <2>2. copy' \in [Threads -> Values]
      BY BufferAssumption DEF Fails, IInv, TypeOK
    <2>3. frames' = [q \in Pages |-> frames'[q]]
      BY DEF Fails, Base
    <2>4. \A q \in Pages : frames'[q] \in FrameRecords
      BY <1>0, <1>1, <1>2, <1>5, ElsewhereFrames DEF g
    <2>5. frames' \in [Pages -> FrameRecords]
      BY <2>3, <2>4
    <2>6. QED
      BY <1>1, <2>1, <2>2, <2>5 DEF IInv, TypeOK
  <1>7. CallsInv'
    <2> SUFFICES ASSUME NEW u \in Threads
                 PROVE  LET r == call'[u].page
                            w == victim'[u]
                        IN  /\ pc'[u] # "idle" => r \in Pages
                            /\ Waiting(u)' => r \notin Fixed(u)'
                            /\ pc'[u] \in {"latch", "unfixing"} => frames'[r].state \notin Empty
                            /\ Loading(u)' => frames'[r].state = "LOADING" /\ u \in frames'[r].writers
                            /\ Evicting(u)' => frames'[r].state = "NEW" /\ u \in frames'[r].writers
                            /\ Evicting(u)' => w \in Pages /\ frames'[w].state \in Claimed
      BY DEF CallsInv
    <2>1. CASE u = t
      BY <1>1, <2>1 DEF Waiting, Loading, Evicting
    <2>2. CASE u # t
      BY <1>0, <1>1, <1>5, <2>2, ElsewhereThreads
    <2>3. QED
      BY <2>1, <2>2
  <1>8. FramesInv' /\ LatchInv' /\ PagesInv' /\ VictimsInv'
    <2>1. FrameInv(p)'
      BY <1>4 DEF FrameInv, Empty, Claimed, g
    <2>2. LatchOf(frames'[p])
      BY <1>4 DEF LatchOf, g
    <2>3. PageInv(p)'
      <3>1. PageInv(p)
        BY <1>1 DEF IInv, PagesInv
      <3>2. QED
        BY <1>1, <1>4, <3>1 DEF PageInv, Empty, Claimed, g
    <2>4. ~Evicting(t)'
      BY <1>1 DEF Evicting
    <2>5. QED
      BY <1>0, <1>1, <1>5, <2>1, <2>2, <2>3, <2>4, ElsewhereStep
  <1>9. UsersExact'
    <2>1. \A u \in Threads \ {t} : \A q \in Pages : Uses(u, q)' <=> Uses(u, q)
      BY <1>0, <1>1, <1>5, ElsewhereThreads
    <2>2. \A q \in Pages \ {p} : /\ frames'[q].users = frames[q].users
                                 /\ Holds(t, q)' <=> Holds(t, q)
      BY <1>0, <1>1, <1>5, ElsewhereFrames DEF Holds
    <2>3. \A q \in Pages : ~CallsFor(t, q)' /\ (q # p => ~CallsFor(t, q))
      BY <1>0, <1>1 DEF CallsFor
    <2>4. \A q \in Pages \ {p} : Uses(t, q)' <=> Uses(t, q)
      BY <2>2, <2>3, UsesIff, UsesIffNext
    <2>5. ~Uses(t, p)'
      BY <1>1, <1>4, <2>3, UsesIffNext DEF Holds, g
    <2>6. b.users = IF Uses(t, p) THEN frames[p].users ELSE frames[p].users + 1
      BY <1>0, <1>1, BaseUsers DEF b
    <2>7. frames[p].users \in Int
      BY <1>1 DEF IInv, TypeOK, FrameRecords
    <2>8. frames'[p].users = IF Uses(t, p) THEN frames[p].users - 1 ELSE frames[p].users
      BY <1>4, <2>6, <2>7 DEF g
    <2>9. \A q \in Pages :
              /\ (Uses(t, q)' <=> Uses(t, q)) => frames'[q].users = frames[q].users
              /\ Uses(t, q)' /\ ~Uses(t, q) => frames'[q].users = frames[q].users + 1
              /\ ~Uses(t, q)' /\ Uses(t, q) => frames'[q].users = frames[q].users - 1
      BY <2>2, <2>4, <2>5, <2>8
    <2>10. QED
      BY <2>1, <2>9, UsersFollow
  <1>10. ListsMatchFrames' /\ SlotsInv'
    <2>1. \A q \in Pages \ {p} : /\ frames'[q].slot = frames[q].slot
                                 /\ frames'[q].state = "NEW" => frames[q].state = "NEW"
      BY <1>0, <1>1, <1>5, ElsewhereFrames
    <2>2. frames'[p].slot = frames[p].slot /\ (frames'[p].state = "NEW" => frames[p].state = "NEW")
      BY <1>0, <1>1, <1>4, BaseUsers DEF b, g
    <2>3. QED
      BY <1>1, <2>1, <2>2, SlotsStay
  <1>11. CopiesInv'
    <2>1. \A u \in Threads : \A q \in wrote'[u] :
             u \in frames'[q].writers /\ frames'[q].state \in {"LOADED", "RELOADED"}
      BY <1>0, <1>1, <1>5, ElsewhereWrites
    <2>2. \A u \in Threads \ {t} :
           /\ pc'[u] = "read" => mem'[frames'[call'[u].page].slot] = disk'[call'[u].page]
           /\ pc'[u] = "writing" /\ frames'[victim'[u]].state = "EVICTING" => copy'[u] = truth'[victim'[u]]
           /\ pc'[u] = "written" /\ frames'[victim'[u]].state = "EVICTING" => disk'[victim'[u]] = truth'[victim'[u]]
      BY <1>0, <1>1, <1>5, ElsewhereThreads
    <2>3. QED
      BY <1>1, <2>1, <2>2 DEF CopiesInv
  <1>12. QED
    BY <1>6, <1>7, <1>8, <1>9, <1>10, <1>11 DEF IInv

(* A dirty victim is copied while its latch is free. *)
LEMMA WritesStep ==
    ASSUME IInv, NEW t \in Threads, NEW v, Writes(t, v)
    PROVE  IInv'
  <1>0. PICK p : p = call[t].page
    OBVIOUS
  <1> DEFINE b == Base(t)[p]
             old == Base(t)[v]
             g == frames'[v]
  <1>1. /\ Allocates(t) /\ pc'[t] = "writing" /\ p \in Pages /\ v \in Pages /\ v # p
        /\ frames[p].slot = NoSlot /\ frames[p].state \in Empty
        /\ Cardinality(InMemory(frames)) = PageCount
        /\ UNCHANGED <<call, fifo, lru, mem, disk, size, truth, wrote, left>>
    BY <1>0, BaseFrame DEF Writes, Allocates, IInv, TypeOK, clientVars
  <1>2. /\ b \in FrameRecords /\ b.state = "NEW" /\ b.slot = NoSlot /\ b.users > 0
        /\ b.locked = TRUE /\ b.writers = {t} /\ b.readers = {}
    BY <1>0, <1>1, BaseFrame
  <1>3. /\ old \in FrameRecords /\ old.users = 0 /\ old.state = "LOADED" /\ old.dirty
        /\ old.slot = frames[v].slot /\ old.users = frames[v].users /\ old.locked = frames[v].locked
        /\ old.writers = frames[v].writers /\ old.readers = frames[v].readers
        /\ \/ frames[v].state = "LOADED"
           \/ pc[t] = "written" /\ v = victim[t] /\ frames[v].state = "RELOADED"
    BY <1>0, <1>1, BaseOthers DEF Writes
  <1>4. Evictable(t, v)
    BY <1>0, <1>1, <1>3 DEF Evictable, Claimed
  <1>5. frames[v].slot # NoSlot
    BY <1>1, <1>3 DEF IInv, FramesInv, FrameInv, Empty
  <1>6. frames'[p] = b
    BY <1>0, <1>1 DEF Writes, Base
  <1>7. /\ g \in FrameRecords /\ g.state = "EVICTING" /\ g.users = 0 /\ g.dirty
        /\ g.slot = old.slot /\ g.locked = old.locked
        /\ g.writers = old.writers /\ g.readers = old.readers
    <2>1. g = [old EXCEPT !.state = "EVICTING"]
      BY <1>1 DEF Writes, Base
    <2> HIDE DEF g, old
    <2>2. QED
      BY <1>3, <2>1 DEF FrameRecords, FrameStates
  <1>8. \A u \in Threads : ~Uses(u, v) /\ ~Holds(u, v)
    BY <1>1, <1>3, UsersCount, UsesIff DEF IInv
  <1>9. Elsewhere(t, p, v)
    <2>1. \A u \in Threads \ {t} : pc'[u] = pc[u] /\ call'[u] = call[u] /\ victim'[u] = victim[u] /\ copy'[u] = copy[u]
      BY DEF Writes, IInv, TypeOK
    <2>2. \A q \in Pages \ {p, v} : frames'[q] = Base(t)[q]
      BY DEF Writes, Base
    <2>3. size \in Nat /\ size <= size
      BY BufferAssumption DEF IInv, TypeOK
    <2>4. \A u \in Threads \ {t} : ~Holds(u, p)'
      BY <1>2, <1>6 DEF Holds
    <2>5. \A u \in Threads : ~Holds(u, v)'
      BY <1>3, <1>7, <1>8 DEF Holds
    <2>6. QED
      BY <1>1, <2>1, <2>2, <2>3, <2>4, <2>5 DEF Elsewhere
  <1> HIDE DEF b, old, g
  <1>10. copy'[t] = mem[frames[v].slot] /\ victim'[t] = v
    BY <1>3 DEF Writes, IInv, TypeOK, old
  <1>11. mem[frames[v].slot] = truth[v] /\ mem[frames[v].slot] \in Values
    <2>1. PageInv(v) /\ frames[v] \in FrameRecords
      BY <1>1 DEF IInv, PagesInv, TypeOK
    <2>2. frames[v].slot \in Slots
      BY <1>5, <2>1 DEF FrameRecords
    <2>3. QED
      BY <1>3, <2>1, <2>2 DEF PageInv, Claimed, IInv, TypeOK
  <1>12. TypeOK'
    <2>1. pc' \in [Threads -> PCs] /\ victim' \in [Threads -> Pages \cup {NoPage}]
      BY <1>1 DEF Writes, IInv, TypeOK, PCs
    <2>2. copy' \in [Threads -> Values]
      BY <1>3, <1>11 DEF Writes, IInv, TypeOK, old
    <2>3. frames' = [q \in Pages |-> frames'[q]]
      BY DEF Writes, Base
    <2>4. \A q \in Pages \ {p, v} : frames'[q] \in FrameRecords
      BY <1>0, <1>1, <1>4, <1>9, ElsewhereFrames
    <2>5. frames' \in [Pages -> FrameRecords]
      BY <1>2, <1>6, <1>7, <2>3, <2>4 DEF g, b
    <2>6. QED
      BY <1>1, <2>1, <2>2, <2>5 DEF IInv, TypeOK
  <1>13. CallsInv'
    <2> SUFFICES ASSUME NEW u \in Threads
                 PROVE  LET r == call'[u].page
                            w == victim'[u]
                        IN  /\ pc'[u] # "idle" => r \in Pages
                            /\ Waiting(u)' => r \notin Fixed(u)'
                            /\ pc'[u] \in {"latch", "unfixing"} => frames'[r].state \notin Empty
                            /\ Loading(u)' => frames'[r].state = "LOADING" /\ u \in frames'[r].writers
                            /\ Evicting(u)' => frames'[r].state = "NEW" /\ u \in frames'[r].writers
                            /\ Evicting(u)' => w \in Pages /\ frames'[w].state \in Claimed
      BY DEF CallsInv
    <2>1. CASE u = t
      BY <1>0, <1>1, <1>2, <1>6, <1>7, <1>10, <2>1 DEF Waiting, Loading, Evicting, Claimed, g
    <2>2. CASE u # t
      BY <1>0, <1>1, <1>4, <1>9, <2>2, ElsewhereThreads
    <2>3. QED
      BY <2>1, <2>2
  <1>14. VictimsInv'
    <2>1. \A u \in Threads \ {t} : Evicting(u)' => victim'[u] # v
      BY <1>0, <1>1, <1>4, <1>9, OthersElsewhere DEF Elsewhere, Evicting
    <2>2. \A u, w \in Threads \ {t} : Evicting(u)' /\ Evicting(w)' /\ victim'[u] = victim'[w] => u = w
      BY <1>9 DEF Elsewhere, Evicting, IInv, VictimsInv
    <2>3. QED
      BY <1>10, <2>1, <2>2 DEF VictimsInv
  <1>15. FramesInv' /\ LatchInv' /\ PagesInv'
    <2>1. FrameInv(p)'
      BY <1>0, <1>1, <1>2, <1>6 DEF FrameInv, Empty, Claimed, Evicting
    <2>2. FrameInv(v)'
      BY <1>3, <1>5, <1>7 DEF FrameInv, Empty, Claimed, g
    <2>3. LatchOf(frames'[p]) /\ LatchOf(frames'[v])
      <3>1. LatchOf(frames[v])
        BY <1>1 DEF IInv, LatchInv
      <3>2. QED
        BY <1>2, <1>3, <1>6, <1>7, <3>1 DEF LatchOf, g
    <2>4. PageInv(p)'
      <3>1. PageInv(p)
        BY <1>1 DEF IInv, PagesInv
      <3>2. QED
        BY <1>1, <1>2, <1>6, <3>1 DEF PageInv, Empty, Claimed
    <2>5. PageInv(v)'
      <3>1. PageInv(v)
        BY <1>1 DEF IInv, PagesInv
      <3>2. QED
        BY <1>1, <1>3, <1>5, <1>7, <1>11, <3>1 DEF PageInv, Empty, Claimed, g
    <2>6. QED
      BY <1>0, <1>1, <1>4, <1>9, <2>1, <2>2, <2>3, <2>4, <2>5, ElsewhereStep
  <1>16. UsersExact'
    <2>1. \A u \in Threads \ {t} : \A q \in Pages : Uses(u, q)' <=> Uses(u, q)
      BY <1>0, <1>1, <1>4, <1>9, ElsewhereThreads
    <2>2. \A q \in Pages \ {p} : /\ frames'[q].users = frames[q].users
                                 /\ Holds(t, q)' <=> Holds(t, q)
      <3> TAKE q \in Pages \ {p}
      <3>1. CASE q = v
        BY <1>3, <1>7, <3>1 DEF Holds, g
      <3>2. CASE q # v
        BY <1>0, <1>1, <1>4, <1>9, <3>2, ElsewhereFrames DEF Holds
      <3>3. QED
        BY <3>1, <3>2
    <2>3. \A q \in Pages : (CallsFor(t, q)' <=> q = p) /\ (q # p => ~CallsFor(t, q))
      BY <1>0, <1>1 DEF CallsFor
    <2>4. \A q \in Pages \ {p} : Uses(t, q)' <=> Uses(t, q)
      BY <2>2, <2>3, UsesIff, UsesIffNext
    <2>5. Uses(t, p)'
      BY <1>1, <2>3, UsesIffNext
    <2>6. frames'[p].users = IF Uses(t, p) THEN frames[p].users ELSE frames[p].users + 1
      BY <1>0, <1>1, <1>6, BaseUsers DEF b
    <2>7. \A q \in Pages :
              /\ (Uses(t, q)' <=> Uses(t, q)) => frames'[q].users = frames[q].users
              /\ Uses(t, q)' /\ ~Uses(t, q) => frames'[q].users = frames[q].users + 1
              /\ ~Uses(t, q)' /\ Uses(t, q) => frames'[q].users = frames[q].users - 1
      BY <2>2, <2>4, <2>5, <2>6
    <2>8. QED
      BY <2>1, <2>7, UsersFollow
  <1>17. ListsMatchFrames' /\ SlotsInv'
    <2>1. \A q \in Pages \ {p, v} : frames'[q].slot = frames[q].slot
      BY <1>0, <1>1, <1>4, <1>9, ElsewhereFrames
    <2>2. frames'[p].slot = frames[p].slot /\ frames'[v].slot = frames[v].slot
      BY <1>1, <1>2, <1>3, <1>6, <1>7 DEF g
    <2>3. QED
      BY <1>1, <2>1, <2>2, SlotsStay
  <1>18. CopiesInv'
    <2>1. \A u \in Threads : \A q \in wrote'[u] :
             u \in frames'[q].writers /\ frames'[q].state \in {"LOADED", "RELOADED"}
      BY <1>0, <1>1, <1>4, <1>9, ElsewhereWrites
    <2>2. \A u \in Threads \ {t} :
           /\ pc'[u] = "read" => mem'[frames'[call'[u].page].slot] = disk'[call'[u].page]
           /\ pc'[u] = "writing" /\ frames'[victim'[u]].state = "EVICTING" => copy'[u] = truth'[victim'[u]]
           /\ pc'[u] = "written" /\ frames'[victim'[u]].state = "EVICTING" => disk'[victim'[u]] = truth'[victim'[u]]
      BY <1>0, <1>1, <1>4, <1>9, ElsewhereThreads
    <2>3. copy'[t] = truth'[victim'[t]]
      BY <1>1, <1>10, <1>11
    <2>4. QED
      BY <1>1, <2>1, <2>2, <2>3 DEF CopiesInv
  <1>19. QED
    BY <1>12, <1>13, <1>14, <1>15, <1>16, <1>17, <1>18 DEF IInv

(* The slots after the page p has got slot s, from v or unused. *)
LEMMA SlotsHandedOver ==
    ASSUME IInv, NEW p \in Pages, frames[p].slot = NoSlot, NEW v, v \in Pages \ {p} \/ v = NoPage,
           NEW s \in Slots, \A q \in Pages \ {v} : frames[q].slot # s,
           frames'[p].slot = s, frames'[p].state # "NEW",
           \/ /\ v \in Pages
              /\ frames[v].slot = s /\ frames'[v].slot = NoSlot /\ frames'[v].state # "NEW"
           \/ /\ v = NoPage
              /\ s = Cardinality(InMemory(frames)) /\ s < PageCount
              /\ \A q \in Pages \ {p} : frames[q].state # "NEW",
           \A q \in Pages \ {p, v} : /\ frames'[q].slot = frames[q].slot
                                     /\ frames'[q].state = "NEW" => frames[q].state = "NEW"
    PROVE  SlotsInv'
  <1> DEFINE M == InMemory(frames)
             N == {q \in Pages : frames'[q].slot # NoSlot}
             k == Cardinality(M)
  <1>1. /\ SlotsDistinct
        /\ k <= PageCount
        /\ \A q \in M : frames[q].slot < k
        /\ \A r \in Slots : r < k => \E q \in M : frames[q].slot = r
        /\ \A q \in Pages : frames[q].state = "NEW" => k = PageCount
    BY DEF IInv, SlotsInv
  <1>2. s # NoSlot /\ s \in Nat /\ NoPage \notin Pages
    BY BufferAssumption DEF Slots, NoSlot, NoPage, Pages
  <1>3. /\ M \in SUBSET Pages /\ N \in SUBSET Pages
        /\ \A q \in Pages : q \in M <=> frames[q].slot # NoSlot
        /\ \A q \in Pages : q \in N <=> frames'[q].slot # NoSlot
    BY DEF InMemory
  <1>4. N = (M \ {v}) \cup {p} /\ p \notin M
    <2>1. v \in Pages => v \notin N /\ v # p
      BY <1>2, <1>3
    <2>2. p \in N /\ p \notin M
      BY <1>2, <1>3
    <2>3. \A q \in Pages \ {p, v} : q \in N <=> q \in M
      BY <1>3
    <2>4. QED
      BY <1>2, <1>3, <2>1, <2>2, <2>3
  <1> HIDE DEF M, N
  <1>5. IsFiniteSet(M) /\ k \in Nat
    BY <1>3, PagesFinite
  <1>6. SlotsDistinct'
    <2> SUFFICES ASSUME NEW q \in Pages, NEW r \in Pages, frames'[q].slot # NoSlot,
                        frames'[q].slot = frames'[r].slot
                 PROVE  q = r
      BY DEF SlotsDistinct
    <2>1. q # v /\ r # v
      BY <1>2
    <2>2. frames[q].slot # s /\ frames[r].slot # s
      BY <2>1
    <2>3. CASE q # p /\ r # p
      BY <1>1, <2>1, <2>3 DEF SlotsDistinct
    <2>4. CASE q = p \/ r = p
      BY <2>1, <2>2, <2>4
    <2>5. QED
      BY <2>3, <2>4
  <1>7. CASE v \in Pages
    <2>1. v \in M
      BY <1>2, <1>3, <1>7
    <2>2. Cardinality(N) = k
      <3>1. IsFiniteSet(M \ {v}) /\ Cardinality(M \ {v}) = k - 1
        BY <1>5, <2>1, FS_RemoveElement
      <3> DEFINE K == M \ {v}
      <3>2. p \notin K /\ N = K \cup {p} /\ IsFiniteSet(K) /\ Cardinality(K) = k - 1
        BY <1>4, <3>1
      <3> HIDE DEF K
      <3>3. Cardinality(K \cup {p}) = Cardinality(K) + 1
        BY <3>2, FS_AddElement
      <3>4. QED
        BY <1>5, <3>2, <3>3
    <2>3. s < k
      BY <1>1, <1>2, <1>7, <2>1
    <2> HIDE DEF k
    <2>4. \A q \in N : frames'[q].slot < k
      BY <1>1, <1>3, <1>4, <2>3
    <2>5. \A r \in Slots : r < k => \E q \in N : frames'[q].slot = r
      <3> TAKE r \in Slots
      <3>1. CASE r = s
        BY <1>4, <3>1
      <3>2. CASE r # s /\ r < k
        <4>1. PICK q \in M : frames[q].slot = r
          BY <1>1, <3>2
        <4>2. q # v /\ q # p
          BY <1>2, <1>4, <1>7, <3>2, <4>1
        <4>3. q \in N /\ frames'[q].slot = r
          BY <1>3, <1>4, <4>1, <4>2
        <4>4. QED
          BY <4>3
      <3>3. QED
        BY <3>1, <3>2
    <2>6. \A q \in Pages : frames'[q].state = "NEW" => k = PageCount
      BY <1>1, <1>2, <1>7
    <2>7. QED
      BY <1>1, <1>6, <2>2, <2>4, <2>5, <2>6 DEF SlotsInv, InMemory, N
  <1>8. CASE v = NoPage
    <2>1. s = k /\ k < PageCount /\ \A q \in Pages \ {p} : frames[q].state # "NEW"
      BY <1>2, <1>8 DEF M
    <2>2. Cardinality(N) = k + 1
      <3>1. N = M \cup {p}
        BY <1>2, <1>3, <1>4, <1>8
      <3>2. QED
        BY <1>4, <1>5, <3>1, FS_AddElement
    <2> HIDE DEF k
    <2>3. \A q \in N : frames'[q].slot < k + 1
      <3> TAKE q \in N
      <3>1. CASE q = p
        BY <1>5, <2>1, <3>1 DEF k
      <3>2. CASE q # p
        <4>1. q \in M /\ q \in Pages \ {p, v} /\ frames'[q].slot = frames[q].slot
          BY <1>3, <1>4, <3>2
        <4>2. frames[q].slot < k /\ frames[q] \in FrameRecords
          BY <1>1, <4>1 DEF IInv, TypeOK
        <4>3. frames[q].slot \in Int
          BY <4>2, BufferAssumption DEF FrameRecords, Slots, NoSlot
        <4>4. k \in Int
          BY <1>5 DEF k
        <4>5. QED
          BY <4>1, <4>2, <4>3, <4>4
      <3>3. QED
        BY <3>1, <3>2
    <2>4. \A r \in Slots : r < k + 1 => \E q \in N : frames'[q].slot = r
      <3> TAKE r \in Slots
      <3>1. CASE r = s
        BY <1>4, <3>1
      <3>2. CASE r # s /\ r < k + 1
        <4>1. r < k
          BY <1>2, <2>1, <3>2, BufferAssumption DEF Slots
        <4>2. PICK q \in M : frames[q].slot = r
          BY <1>1, <4>1
        <4>3. q # v /\ q # p
          BY <1>2, <1>3, <1>4, <1>8, <4>2
        <4>4. q \in N /\ frames'[q].slot = r
          BY <1>3, <1>4, <4>2, <4>3
        <4>5. QED
          BY <4>4
      <3>3. QED
        BY <3>1, <3>2
    <2>5. \A q \in Pages : frames'[q].state # "NEW"
      BY <1>2, <1>8, <2>1
    <2>6. k + 1 <= PageCount
      BY <1>2, <2>1, BufferAssumption
    <2>7. QED
      BY <1>6, <2>2, <2>3, <2>4, <2>5, <2>6 DEF SlotsInv, InMemory, N
  <1>9. QED
    BY <1>7, <1>8

(* The lists after the page p is queued and v, if it is a page, erased. *)
LEMMA ListsHandedOver ==
    ASSUME IInv, NEW p \in Pages, frames[p].slot = NoSlot, NEW v, v \in Pages \ {p} \/ v = NoPage,
           frames'[p].slot # NoSlot, v \in Pages => frames'[v].slot = NoSlot,
           \A q \in Pages \ {p, v} : frames'[q].slot = frames[q].slot,
           fifo' = Append(RemoveFirst(fifo, v), p), lru' = RemoveFirst(lru, v)
    PROVE  ListsMatchFrames' /\ fifo' \in Seq(Pages) /\ lru' \in Seq(Pages)
  <1> DEFINE M == {q \in Pages : frames[q].slot # NoSlot}
             rest == RemoveFirst(fifo, v)
  <1>1. /\ fifo \in Seq(Pages) /\ lru \in Seq(Pages) /\ IsInjective(fifo) /\ IsInjective(lru)
        /\ ToSet(fifo) \cap ToSet(lru) = {} /\ ToSet(fifo) \cup ToSet(lru) = M
    BY DEF IInv, TypeOK, ListsMatchFrames
  <1>2. rest \in Seq(Pages) /\ IsInjective(rest) /\ ToSet(rest) = ToSet(fifo) \ {v}
    BY <1>1, RemoveFirstElements
  <1>3. lru' \in Seq(Pages) /\ IsInjective(lru') /\ ToSet(lru') = ToSet(lru) \ {v}
    BY <1>1, RemoveFirstElements
  <1>4. p \notin M
    OBVIOUS
  <1>5. {q \in Pages : frames'[q].slot # NoSlot} = (M \ {v}) \cup {p}
    BY <1>4, BufferAssumption DEF NoPage, Pages
  <1> HIDE DEF M, rest
  <1>6. p \notin ToSet(rest)
    BY <1>1, <1>2, <1>4
  <1>7. Append(rest, p) \in Seq(Pages) /\ IsInjective(Append(rest, p))
        /\ ToSet(Append(rest, p)) = ToSet(rest) \cup {p}
    BY <1>2, <1>6, AppendElements
  <1>8. fifo' = Append(rest, p)
    BY DEF rest
  <1>9. /\ ToSet(fifo') \cap ToSet(lru') = {}
        /\ ToSet(fifo') \cup ToSet(lru') = (M \ {v}) \cup {p}
    BY <1>1, <1>2, <1>3, <1>4, <1>7, <1>8
  <1>10. QED
    BY <1>3, <1>5, <1>7, <1>8, <1>9 DEF ListsMatchFrames

(* The frame gets a slot, and its victim loses it. *)
LEMMA GetsStep ==
    ASSUME IInv, NEW t \in Threads, NEW v \in Pages \cup {NoPage}, NEW s \in Slots,
           GetsZeroed(t, v, s) \/ GetsLoading(t, v, s)
    PROVE  IInv'
  <1>0. PICK p : p = call[t].page
    OBVIOUS
  <1> DEFINE b == Base(t)[p]
             g == frames'[p]
  <1>1. Gets(t, v, s) /\ Allocates(t) /\ call' = call
    BY DEF GetsZeroed, GetsLoading, Gets
  <1>2. /\ p \in Pages /\ frames[p].slot = NoSlot /\ frames[p].state \in Empty
        /\ NoPage \notin Pages /\ s # NoSlot
        /\ UNCHANGED <<call, disk, truth, wrote, left>>
    <2>1. p \in Pages /\ frames[p].slot = NoSlot /\ frames[p].state \in Empty
      BY <1>0, <1>1, BaseFrame
    <2>2. NoPage \notin Pages /\ s # NoSlot
      BY BufferAssumption DEF NoPage, Pages, Slots, NoSlot
    <2>3. UNCHANGED <<call, disk, truth, wrote, left>>
      BY <1>1 DEF Allocates, clientVars
    <2>4. QED
      BY <2>1, <2>2, <2>3
  <1>3. v = NoPage \/ Evictable(t, v)
    BY <1>1 DEF Gets, Evictable, Claimed
  <1>4. \A q \in Pages \ {v} : frames[q].slot # s
    BY <1>1 DEF Gets
  <1>5. \/ /\ g = LoadedFrame(t, s) /\ pc'[t] = "latch" /\ size < p /\ size' = p
           /\ mem' = [mem EXCEPT ![s] = Zero]
        \/ /\ g = LoadingFrame(t, s) /\ pc'[t] = "reading" /\ size >= p
           /\ UNCHANGED <<size, mem>>
    BY <1>0, <1>2 DEF GetsZeroed, GetsLoading, OthersAfter, IInv, TypeOK
  <1>6. /\ g \in FrameRecords /\ g.slot = s /\ g.users = b.users /\ g.readers = {}
        /\ \/ /\ g.state = "LOADED" /\ g.locked = FALSE /\ g.writers = {} /\ g.dirty = FALSE
              /\ pc'[t] = "latch" /\ size < p /\ size' = p /\ mem' = [mem EXCEPT ![s] = Zero]
           \/ /\ g.state = "LOADING" /\ g.locked = TRUE /\ g.writers = {t}
              /\ pc'[t] = "reading" /\ size >= p /\ UNCHANGED <<size, mem>>
    <2>1. b \in FrameRecords /\ b.locked = TRUE /\ b.writers = {t} /\ b.readers = {}
      BY <1>0, <1>1, BaseFrame
    <2>2. LoadedFrame(t, s) = ZeroedInto(b, t, s) /\ LoadingFrame(t, s) = ReadInto(b, s)
      BY <1>0 DEF LoadedFrame, LoadingFrame
    <2> HIDE DEF g, b
    <2>3. IsZeroed(ZeroedInto(b, t, s), b, s)
      BY <2>1, ZeroedIntoFields, Zenon
    <2> DEFINE zeroed == ZeroedInto(b, t, s)
               read == ReadInto(b, s)
    <2>4. /\ zeroed \in FrameRecords
          /\ zeroed.state = "LOADED" /\ zeroed.slot = s /\ zeroed.users = b.users
          /\ zeroed.locked = FALSE /\ zeroed.writers = {} /\ zeroed.readers = {}
          /\ zeroed.dirty = FALSE
      BY <2>3 DEF IsZeroed
    <2>5. /\ read \in FrameRecords
          /\ read.state = "LOADING" /\ read.slot = s /\ read.users = b.users
          /\ read.locked = TRUE /\ read.writers = {t} /\ read.readers = {}
      BY <2>1, ReadIntoFields
    <2>6. g = zeroed \/ g = read
      BY <1>5, <2>2
    <2> HIDE DEF zeroed, read
    <2>7. QED
      BY <1>5, <2>2, <2>4, <2>5, <2>6 DEF zeroed, read
  <1>7. \A q \in Pages \ {p, v} : frames'[q] = Base(t)[q]
    BY <1>0 DEF GetsZeroed, GetsLoading, OthersAfter
  <1>8. v \in Pages => v # p /\ frames'[v] = Absent
    BY <1>0, <1>2, <1>3 DEF GetsZeroed, GetsLoading, OthersAfter, Evictable
  <1>9. /\ Absent.state = "ABSENT" /\ Absent.slot = NoSlot /\ Absent.users = 0
        /\ Absent.locked = FALSE /\ Absent.writers = {} /\ Absent.readers = {}
        /\ Absent \in FrameRecords
    BY DEF Absent, FrameRecords, FrameStates
  <1> HIDE DEF g, b
  <1>10. size' \in 0..NumPages /\ size <= size' /\ p \in Nat /\ size \in Nat
    BY <1>2, <1>6, BufferAssumption DEF IInv, TypeOK, Pages
  <1>11. /\ mem' \in [Slots -> Values]
         /\ size < p => mem'[s] = Zero
         /\ \A r \in Slots \ {s} : mem'[r] = mem[r]
    <2>1. mem \in [Slots -> Values] /\ Zero \in Values
      BY BufferAssumption DEF IInv, TypeOK
    <2>2. CASE mem' = [mem EXCEPT ![s] = Zero]
      BY <2>1, <2>2
    <2>3. CASE UNCHANGED mem /\ ~(size < p)
      BY <2>1, <2>3
    <2>4. QED
      BY <1>6, <1>10, <2>2, <2>3
  <1>12. Elsewhere(t, p, v)
    <2>1. \A u \in Threads \ {t} : /\ pc'[u] = pc[u] /\ call'[u] = call[u]
                                   /\ victim'[u] = victim[u] /\ copy'[u] = copy[u]
      <3>1. \A u \in Threads \ {t} : victim'[u] = victim[u] /\ copy'[u] = copy[u] /\ call'[u] = call[u]
        BY DEF GetsZeroed, GetsLoading, Gets, IInv, TypeOK
      <3>2. \A u \in Threads \ {t} : pc'[u] = pc[u]
        BY DEF GetsZeroed, GetsLoading, IInv, TypeOK
      <3>3. QED
        BY <3>1, <3>2
    <2>2. \A q \in Pages \ {p, v} : frames[q].slot # NoSlot => mem'[frames[q].slot] = mem[frames[q].slot]
      <3> TAKE q \in Pages \ {p, v}
      <3>1. frames[q] \in FrameRecords
        BY DEF IInv, TypeOK
      <3>2. frames[q].slot # NoSlot => frames[q].slot \in Slots \ {s}
        BY <1>4, <3>1 DEF FrameRecords
      <3>3. QED
        BY <1>11, <3>2
    <2>3. \A u \in Threads \ {t} : ~Holds(u, p)'
      BY <1>6 DEF Holds, g
    <2>4. v \in Pages => \A u \in Threads : ~Holds(u, v)'
      BY <1>8, <1>9 DEF Holds
    <2>5. size' \in Nat
      BY <1>10, BufferAssumption
    <2>6. QED
      BY <1>2, <1>7, <1>10, <2>1, <2>2, <2>3, <2>4, <2>5 DEF Elsewhere
  <1>13. \A q \in Pages \ {p, v} :
            /\ frames'[q] \in FrameRecords
            /\ frames'[q].slot = frames[q].slot /\ frames'[q].users = frames[q].users
            /\ frames'[q].writers = frames[q].writers /\ frames'[q].readers = frames[q].readers
            /\ \/ frames'[q].state = frames[q].state
               \/ /\ frames[q].state = "RELOADED" /\ frames'[q].state = "LOADED"
                  /\ pc[t] = "written" /\ q = victim[t]
    BY <1>0, <1>1, <1>3, <1>12, ElsewhereFrames
  <1>14. ListsMatchFrames' /\ fifo' \in Seq(Pages) /\ lru' \in Seq(Pages)
    <2>1. fifo' = Append(RemoveFirst(fifo, v), p) /\ lru' = RemoveFirst(lru, v)
      BY <1>0, <1>1 DEF Gets
    <2>2. frames'[p].slot # NoSlot /\ (v \in Pages => frames'[v].slot = NoSlot)
      BY <1>2, <1>6, <1>8, <1>9 DEF g
    <2>3. v \in Pages \ {p} \/ v = NoPage
      BY <1>8
    <2>4. QED
      BY <1>2, <1>13, <2>1, <2>2, <2>3, ListsHandedOver
  <1>15. TypeOK'
    <2>1. pc' \in [Threads -> PCs]
      BY DEF GetsZeroed, GetsLoading, IInv, TypeOK, PCs
    <2>2. victim' \in [Threads -> Pages \cup {NoPage}]
      BY <1>1 DEF Gets, IInv, TypeOK
    <2>3. copy' \in [Threads -> Values]
      BY <1>1, BufferAssumption DEF Gets, IInv, TypeOK
    <2>4. frames' = [q \in Pages |-> frames'[q]]
      BY DEF GetsZeroed, GetsLoading, OthersAfter
    <2>5. \A q \in Pages : frames'[q] \in FrameRecords
      BY <1>6, <1>8, <1>9, <1>13 DEF g
    <2>6. frames' \in [Pages -> FrameRecords]
      BY <2>4, <2>5
    <2>7. QED
      BY <1>2, <1>10, <1>11, <1>14, <2>1, <2>2, <2>3, <2>6 DEF IInv, TypeOK
  <1>16. CallsInv'
    <2> SUFFICES ASSUME NEW u \in Threads
                 PROVE  LET r == call'[u].page
                            w == victim'[u]
                        IN  /\ pc'[u] # "idle" => r \in Pages
                            /\ Waiting(u)' => r \notin Fixed(u)'
                            /\ pc'[u] \in {"latch", "unfixing"} => frames'[r].state \notin Empty
                            /\ Loading(u)' => frames'[r].state = "LOADING" /\ u \in frames'[r].writers
                            /\ Evicting(u)' => frames'[r].state = "NEW" /\ u \in frames'[r].writers
                            /\ Evicting(u)' => w \in Pages /\ frames'[w].state \in Claimed
      BY DEF CallsInv
    <2>1. CASE u = t
      BY <1>0, <1>2, <1>6, <2>1 DEF Waiting, Loading, Evicting, Empty, Fixed, g
    <2>2. CASE u # t
      BY <1>0, <1>1, <1>3, <1>12, <2>2, ElsewhereThreads
    <2>3. QED
      BY <2>1, <2>2
  <1>17. FramesInv' /\ LatchInv' /\ PagesInv' /\ VictimsInv'
    <2>1. FrameInv(p)'
      <3>1. g.state = "LOADING" => \E u \in Threads : Loading(u)' /\ call'[u].page = p
        BY <1>0, <1>2, <1>6 DEF Loading
      <3>2. QED
        BY <1>2, <1>6, <3>1 DEF FrameInv, Empty, Claimed, g
    <2>2. v \in Pages => FrameInv(v)'
      BY <1>8, <1>9 DEF FrameInv, Empty, Claimed
    <2>3. LatchOf(frames'[p]) /\ (v \in Pages => LatchOf(frames'[v]))
      BY <1>6, <1>8, <1>9 DEF LatchOf, g
    <2>4. PageInv(p)'
      <3>1. PageInv(p)
        BY <1>2 DEF IInv, PagesInv
      <3>2. disk'[p] = truth'[p] /\ (size < p => truth'[p] = Zero)
        BY <1>2, <3>1 DEF PageInv
      <3>3. CASE size < p
        <4>1. g.state = "LOADED" /\ mem'[g.slot] = truth'[p] /\ size' = p
          BY <1>6, <1>10, <1>11, <3>2, <3>3
        <4>2. QED
          BY <1>10, <3>2, <4>1 DEF PageInv, Empty, Claimed, g
      <3>4. CASE size >= p
        <4>1. g.state = "LOADING" /\ size' = size
          BY <1>6, <1>10, <3>4
        <4>2. QED
          BY <1>10, <3>2, <3>4, <4>1 DEF PageInv, Empty, Claimed, g
      <3>5. QED
        BY <1>10, <3>3, <3>4
    <2>5. v \in Pages => PageInv(v)'
      <3> SUFFICES ASSUME v \in Pages PROVE PageInv(v)'
        OBVIOUS
      <3>1. PageInv(v)
        BY DEF IInv, PagesInv
      <3>2. Evictable(t, v) /\ frames[v].slot = s
        BY <1>1, <1>2, <1>3 DEF Gets
      <3>3. disk[v] = truth[v]
        <4>1. CASE frames[v].state = "LOADED" /\ ~frames[v].dirty
          <5>1. \A u \in Threads : ~Uses(u, v)
            BY <3>2, UsersCount DEF IInv, Evictable
          <5>2. \A u \in Threads : v \notin wrote[u]
            BY <5>1, UsesIff DEF IInv, CopiesInv, Holds
          <5>3. \A u \in Threads : ~(pc[u] = "unfixing" /\ call[u].page = v)
            BY <5>1, UsesIff DEF CallsFor
          <5>4. QED
            BY <3>1, <4>1, <5>2, <5>3 DEF PageInv, Flagged
        <4>2. CASE frames[v].state = "EVICTING" /\ pc[t] = "written" /\ v = victim[t]
          BY <4>2 DEF IInv, CopiesInv
        <4>3. QED
          BY <1>1, <1>2, <4>1, <4>2 DEF Gets
      <3>4. v <= size
        BY <1>2, <3>1, <3>2 DEF PageInv
      <3>5. v \in Nat
        BY DEF Pages
      <3>6. ~(size' < v)
        BY <1>6, <1>10, <3>4, <3>5
      <3>7. frames'[v].slot = NoSlot /\ frames'[v].state = "ABSENT"
        BY <1>8, <1>9
      <3>8. QED
        BY <1>2, <3>3, <3>6, <3>7 DEF PageInv, Empty, Claimed
    <2>6. ~Evicting(t)'
      BY <1>6 DEF Evicting
    <2>7. QED
      BY <1>0, <1>1, <1>3, <1>12, <2>1, <2>2, <2>3, <2>4, <2>5, <2>6, ElsewhereStep
  <1>18. UsersExact'
    <2>1. \A u \in Threads \ {t} : \A q \in Pages : Uses(u, q)' <=> Uses(u, q)
      BY <1>0, <1>1, <1>3, <1>12, ElsewhereThreads
    <2>2. \A q \in Pages \ {p} : /\ frames'[q].users = frames[q].users
                                 /\ Holds(t, q)' <=> Holds(t, q)
      <3> TAKE q \in Pages \ {p}
      <3>1. CASE q = v
        <4>1. frames[q].users = 0 /\ ~Holds(t, q)
          BY <1>2, <1>3, <3>1, UsersCount, UsesIff DEF IInv, Evictable
        <4>2. QED
          BY <1>8, <1>9, <3>1, <4>1 DEF Holds
      <3>2. CASE q # v
        BY <1>13, <3>2 DEF Holds
      <3>3. QED
        BY <3>1, <3>2
    <2>3. \A q \in Pages : (CallsFor(t, q)' <=> q = p) /\ (q # p => ~CallsFor(t, q))
      BY <1>0, <1>2, <1>6 DEF CallsFor
    <2>4. \A q \in Pages \ {p} : Uses(t, q)' <=> Uses(t, q)
      BY <2>2, <2>3, UsesIff, UsesIffNext
    <2>5. Uses(t, p)'
      BY <1>2, <2>3, UsesIffNext
    <2>6. frames'[p].users = IF Uses(t, p) THEN frames[p].users ELSE frames[p].users + 1
      BY <1>0, <1>1, <1>6, BaseUsers DEF b, g
    <2>7. \A q \in Pages :
              /\ (Uses(t, q)' <=> Uses(t, q)) => frames'[q].users = frames[q].users
              /\ Uses(t, q)' /\ ~Uses(t, q) => frames'[q].users = frames[q].users + 1
              /\ ~Uses(t, q)' /\ Uses(t, q) => frames'[q].users = frames[q].users - 1
      BY <2>2, <2>4, <2>5, <2>6
    <2>8. QED
      BY <2>1, <2>7, UsersFollow
  <1>19. SlotsInv'
    <2>1. v \in Pages \ {p} \/ v = NoPage
      BY <1>8
    <2>2. frames'[p].slot = s /\ frames'[p].state # "NEW"
      BY <1>6 DEF g
    <2>3. \/ /\ v \in Pages
             /\ frames[v].slot = s /\ frames'[v].slot = NoSlot /\ frames'[v].state # "NEW"
          \/ /\ v = NoPage
             /\ s = Cardinality(InMemory(frames)) /\ s < PageCount
             /\ \A q \in Pages \ {p} : frames[q].state # "NEW"
      BY <1>0, <1>1, <1>8, <1>9 DEF Gets
    <2>4. \A q \in Pages \ {p, v} : /\ frames'[q].slot = frames[q].slot
                                    /\ frames'[q].state = "NEW" => frames[q].state = "NEW"
      BY <1>13
    <2>5. QED
      BY <1>2, <1>4, <2>1, <2>2, <2>3, <2>4, SlotsHandedOver
  <1>20. CopiesInv'
    <2>1. \A u \in Threads : \A q \in wrote'[u] :
             u \in frames'[q].writers /\ frames'[q].state \in {"LOADED", "RELOADED"}
      BY <1>0, <1>1, <1>3, <1>12, ElsewhereWrites
    <2>2. \A u \in Threads \ {t} :
           /\ pc'[u] = "read" => mem'[frames'[call'[u].page].slot] = disk'[call'[u].page]
           /\ pc'[u] = "writing" /\ frames'[victim'[u]].state = "EVICTING" => copy'[u] = truth'[victim'[u]]
           /\ pc'[u] = "written" /\ frames'[victim'[u]].state = "EVICTING" => disk'[victim'[u]] = truth'[victim'[u]]
      BY <1>0, <1>1, <1>3, <1>12, ElsewhereThreads
    <2>3. pc'[t] \notin {"read", "writing", "written"}
      BY <1>6
    <2>4. QED
      BY <2>1, <2>2, <2>3 DEF CopiesInv
  <1>21. QED
    BY <1>14, <1>15, <1>16, <1>17, <1>18, <1>19, <1>20 DEF IInv

(* When no page is fixed and no call runs, memory holds nothing that is not saved. *)
LEMMA RestartStep ==
    ASSUME IInv, Restart
    PROVE  IInv'
  <1>1. /\ \A t \in Threads : pc[t] = "idle" /\ Fixed(t) = {}
        /\ disk' = [p \in Pages |-> IF p \in Resident(frames) THEN mem[frames[p].slot] ELSE disk[p]]
        /\ frames' = [p \in Pages |-> Absent]
        /\ fifo' = <<>> /\ lru' = <<>>
        /\ mem' = [s \in Slots |-> Zero]
        /\ UNCHANGED <<pc, call, size, copy, victim, truth, wrote, left>>
    BY DEF Restart, clientVars
  <1>2. /\ Absent \in FrameRecords /\ Absent.state = "ABSENT" /\ Absent.slot = NoSlot
        /\ Absent.users = 0 /\ Absent.locked = FALSE
        /\ Absent.writers = {} /\ Absent.readers = {}
    BY DEF Absent, FrameRecords, FrameStates
  <1>3. \A p \in Pages : frames'[p] = Absent
    BY <1>1
  <1>4. \A t \in Threads, p \in Pages : ~Holds(t, p) /\ ~Uses(t, p) /\ ~Uses(t, p)'
    <2> TAKE t \in Threads, p \in Pages
    <2>1. ~Holds(t, p) /\ ~CallsFor(t, p)
      BY <1>1 DEF Holds, Fixed, CallsFor
    <2>2. ~Holds(t, p)' /\ ~CallsFor(t, p)'
      BY <1>1, <1>2, <1>3 DEF Holds, CallsFor
    <2>3. QED
      BY <2>1, <2>2, UsesIff, UsesIffNext
  <1>5. \A t \in Threads : wrote[t] = {}
    <2> SUFFICES ASSUME NEW t \in Threads, NEW q \in wrote[t] PROVE FALSE
      OBVIOUS
    <2>1. q \in Pages /\ t \in frames[q].writers
      BY DEF IInv, TypeOK, CopiesInv
    <2>2. QED
      BY <1>4, <2>1 DEF Holds
  <1>6. \A p \in Pages :
           /\ disk'[p] \in Values /\ disk'[p] = truth[p]
           /\ size < p => disk'[p] = Zero
    <2> TAKE p \in Pages
    <2>1. frames[p] \in FrameRecords /\ FrameInv(p) /\ PageInv(p)
      BY DEF IInv, TypeOK, FramesInv, PagesInv
    <2>2. frames[p].users = 0
      <3>1. {t \in Threads : Uses(t, p)} = {}
        BY <1>4
      <3>2. QED
        BY <3>1, FS_EmptySet DEF IInv, UsersExact
    <2>3. frames[p].state # "NEW" /\ frames[p].state # "LOADING"
      BY <1>1, <2>1, <2>2 DEF FrameInv, Loading
    <2>4. CASE frames[p].state = "ABSENT"
      <3>1. disk'[p] = disk[p]
        BY <1>1, <2>4 DEF Resident
      <3>2. QED
        BY <2>1, <2>4, <3>1 DEF PageInv, Empty, IInv, TypeOK
    <2>5. CASE frames[p].state # "ABSENT"
      <3>1. frames[p].state \in Claimed \cup {"LOADED"}
        BY <2>1, <2>3, <2>5 DEF FrameRecords, FrameStates, Claimed
      <3>2. frames[p].slot # NoSlot
        BY <2>1, <2>3, <2>5 DEF FrameInv, Empty
      <3>3. disk'[p] = mem[frames[p].slot]
        BY <1>1, <2>5 DEF Resident
      <3>4. truth[p] \in Values
        BY DEF IInv, TypeOK
      <3>5. size \in Nat /\ p \in Nat
        BY BufferAssumption DEF IInv, TypeOK, Pages
      <3>6. QED
        BY <2>1, <3>1, <3>2, <3>3, <3>4, <3>5 DEF PageInv
    <2>6. QED
      BY <2>4, <2>5
  <1>7. TypeOK'
    <2>1. disk' \in [Pages -> Values]
      BY <1>1, <1>6
    <2>2. mem' \in [Slots -> Values]
      BY <1>1, BufferAssumption
    <2>3. frames' \in [Pages -> FrameRecords] /\ fifo' \in Seq(Pages) /\ lru' \in Seq(Pages)
      BY <1>1, <1>2
    <2>4. QED
      BY <1>1, <2>1, <2>2, <2>3 DEF IInv, TypeOK
  <1>8. CallsInv' /\ VictimsInv'
    BY <1>1 DEF CallsInv, VictimsInv, Waiting, Loading, Evicting
  <1>9. FramesInv' /\ LatchInv'
    BY <1>2, <1>3 DEF FramesInv, FrameInv, LatchInv, LatchOf, Empty, Claimed
  <1>10. UsersExact'
    <2> SUFFICES ASSUME NEW p \in Pages
                 PROVE  frames'[p].users = Cardinality({t \in Threads : Uses(t, p)'})
      BY DEF UsersExact
    <2>1. {t \in Threads : Uses(t, p)'} = {}
      BY <1>4
    <2>2. QED
      BY <1>2, <1>3, <2>1, FS_EmptySet
  <1>11. ListsMatchFrames'
    <2>1. {p \in Pages : frames'[p].slot # NoSlot} = {}
      BY <1>2, <1>3
    <2>2. QED
      BY <1>1, <2>1 DEF ListsMatchFrames, IsInjective, ToSet
  <1>12. SlotsInv'
    <2>1. InMemory(frames)' = {}
      BY <1>2, <1>3 DEF InMemory
    <2>2. Cardinality(InMemory(frames)') = 0
      BY <2>1, FS_EmptySet
    <2>3. \A s \in Slots : ~(s < 0)
      BY BufferAssumption DEF Slots
    <2>4. 0 <= PageCount
      BY BufferAssumption
    <2>5. QED
      BY <1>2, <1>3, <2>1, <2>2, <2>3, <2>4 DEF SlotsInv, SlotsDistinct
  <1>13. PagesInv'
    BY <1>1, <1>2, <1>3, <1>6 DEF PagesInv, PageInv, Empty, Claimed
  <1>14. CopiesInv'
    BY <1>1, <1>5 DEF CopiesInv
  <1>15. QED
    BY <1>7, <1>8, <1>9, <1>10, <1>11, <1>12, <1>13, <1>14 DEF IInv

(* A step of something else. *)
LEMMA StutterStep ==
    ASSUME IInv, UNCHANGED vars
    PROVE  IInv'
  <1>1. UNCHANGED <<pc, call, frames, fifo, lru, mem, disk, size, copy, victim, truth, wrote, left>>
    BY DEF vars, bufferVars, clientVars
  <1>2. TypeOK' /\ CallsInv' /\ VictimsInv' /\ LatchInv'
    BY <1>1 DEF IInv, TypeOK, CallsInv, VictimsInv, LatchInv, Waiting, Loading, Evicting, Fixed
  <1>3. FramesInv'
    <2>1. \A u \in Threads : /\ Loading(u) => Loading(u)' /\ call'[u] = call[u]
                             /\ Evicting(u) => Evicting(u)' /\ call'[u] = call[u]
      BY <1>1 DEF Loading, Evicting
    <2>2. ASSUME NEW q \in Pages PROVE FrameInv(q)'
      BY <1>1, <2>1, FrameStays
    <2>3. QED
      BY <2>2 DEF FramesInv
  <1>4. UsersExact'
    <2>1. \A u \in Threads : \A q \in Pages : Uses(u, q)' <=> Uses(u, q)
      BY <1>1, UsesIff, UsesIffNext DEF Holds, CallsFor
    <2>2. QED
      BY <1>1, <2>1 DEF IInv, UsersExact
  <1>5. ListsMatchFrames' /\ SlotsInv'
    BY <1>1, FramesStay
  <1>6. PagesInv' /\ CopiesInv'
    BY <1>1 DEF IInv, PagesInv, PageInv, Flagged, CopiesInv
  <1>7. QED
    BY <1>2, <1>3, <1>4, <1>5, <1>6 DEF IInv

(* The sections of fix_page under global_mutex preserve the invariant. *)
LEMMA OutcomeStep ==
    ASSUME IInv, NEW t \in Threads, FixOutcome(t)
    PROVE  IInv'
  BY QueuesStep, TouchesStep, FailsStep, WritesStep, GetsStep DEF FixOutcome

(* So does whatever a thread does inside the buffer manager. *)
LEMMA WorkStep ==
    ASSUME IInv, NEW t \in Threads, Work(t)
    PROVE  IInv'
  <1>1. CASE LookUp(t) \/ Recheck(t) \/ Evicted(t) \/ Reloaded(t)
    BY <1>1, LookUpOutcome, RecheckOutcome, EvictedOutcome, ReloadedOutcome, OutcomeStep
  <1>2. CASE WaitNew(t)
    BY <1>2, WaitNewStep
  <1>3. CASE WriteBlock(t)
    BY <1>3, WriteBlockStep
  <1>4. CASE ReadBlock(t)
    BY <1>4, ReadBlockStep
  <1>5. CASE Loaded(t)
    BY <1>5, LoadedStep
  <1>6. CASE Latch(t)
    BY <1>6, LatchStep
  <1>7. CASE Unfixed(t)
    BY <1>7, UnfixedStep
  <1>8. QED
    BY <1>1, <1>2, <1>3, <1>4, <1>5, <1>6, <1>7 DEF Work

(* The inductive invariant is inductive. *)
LEMMA InvStep ==
    ASSUME IInv, [Next]_vars
    PROVE  IInv'
  <1>1. CASE \E t \in Threads : Work(t)
    BY <1>1, WorkStep
  <1>2. CASE \E t \in Threads : Release(t)
    BY <1>2, UnfixStep DEF Release
  <1>3. CASE \E t \in Threads, p \in Pages, exclusive \in BOOLEAN : Fix(t, p, exclusive)
    BY <1>3, FixStep
  <1>4. CASE \E t \in Threads, p \in Pages, v \in Values : Write(t, p, v)
    BY <1>4, WriteStep
  <1>5. CASE Restart
    BY <1>5, RestartStep
  <1>6. CASE UNCHANGED vars
    BY <1>6, StutterStep
  <1>7. QED
    BY <1>1, <1>2, <1>3, <1>4, <1>5, <1>6 DEF Next

-------------------------------------------------------------------------------

(* The inductive invariant holds of a new BufferManager and an empty file.   *)
LEMMA InitInv ==
    ASSUME Init
    PROVE  IInv
  <1>1. /\ Absent \in FrameRecords /\ Absent.state = "ABSENT" /\ Absent.slot = NoSlot
        /\ Absent.users = 0 /\ Absent.locked = FALSE
        /\ Absent.writers = {} /\ Absent.readers = {}
    BY DEF Absent, FrameRecords, FrameStates
  <1>2. /\ \A p \in Pages : /\ frames[p] = Absent
                            /\ disk[p] = Zero /\ truth[p] = Zero
        /\ \A t \in Threads : pc[t] = "idle" /\ wrote[t] = {}
        /\ fifo = <<>> /\ lru = <<>>
    BY DEF Init
  <1>3. TypeOK
    <2>1. NoCall \in Calls
      BY DEF NoCall, Calls
    <2>2. 0 \in 0..NumPages /\ MaxCalls \in 0..MaxCalls /\ Zero \in Values
      BY BufferAssumption
    <2>3. QED
      BY <1>1, <2>1, <2>2 DEF Init, TypeOK, PCs
  <1>4. CallsInv /\ VictimsInv
    BY <1>2 DEF CallsInv, VictimsInv, Waiting, Loading, Evicting
  <1>5. FramesInv /\ LatchInv
    BY <1>1, <1>2 DEF FramesInv, FrameInv, LatchInv, LatchOf, Empty, Claimed
  <1>6. UsersExact
    <2> SUFFICES ASSUME NEW p \in Pages
                 PROVE  frames[p].users = Cardinality({t \in Threads : Uses(t, p)})
      BY DEF UsersExact
    <2>1. \A t \in Threads : ~Uses(t, p)
      BY <1>1, <1>2, UsesIff DEF Holds, CallsFor
    <2>2. {t \in Threads : Uses(t, p)} = {}
      BY <2>1
    <2>3. QED
      BY <1>1, <1>2, <2>2, FS_EmptySet
  <1>7. ListsMatchFrames
    <2>1. {p \in Pages : frames[p].slot # NoSlot} = {}
      BY <1>1, <1>2
    <2>2. QED
      BY <1>2, <2>1 DEF ListsMatchFrames, IsInjective, ToSet
  <1>8. SlotsInv
    <2>1. InMemory(frames) = {} /\ Cardinality(InMemory(frames)) = 0
      BY <1>1, <1>2, FS_EmptySet DEF InMemory
    <2>2. 0 <= PageCount /\ \A s \in Slots : ~(s < 0)
      BY BufferAssumption DEF Slots
    <2>3. QED
      BY <1>1, <1>2, <2>1, <2>2 DEF SlotsInv, SlotsDistinct
  <1>9. PagesInv /\ CopiesInv
    BY <1>1, <1>2 DEF PagesInv, PageInv, Empty, Claimed, CopiesInv
  <1>10. QED
    BY <1>3, <1>4, <1>5, <1>6, <1>7, <1>8, <1>9 DEF IInv

(* So it holds in every reachable state: for any finite set of threads that  *)
(* call fix_page and unfix_page, any pages and any page_count.               *)
THEOREM Invariant == Spec => []IInv
  <1>1. Init => IInv
    BY InitInv
  <1>2. IInv /\ [Next]_vars => IInv'
    BY InvStep
  <1>3. QED
    BY <1>1, <1>2, PTL DEF Spec

(* Every variable keeps its type; num_users never wraps around.              *)
THEOREM TypeCorrect == Spec => []TypeOK
  <1>1. IInv => TypeOK
    BY DEF IInv
  <1>2. QED
    BY <1>1, Invariant, PTL

(* No write is lost, whatever is evicted, fixed again and evicted meanwhile. *)
THEOREM NoLostUpdateHolds == Spec => []NoLostUpdate
  <1>1. IInv => NoLostUpdate
    <2> SUFFICES ASSUME IInv PROVE NoLostUpdate
      OBVIOUS
    <2>1. ASSUME NEW t \in Threads, NEW p \in InUse(t)
          PROVE  frames[p].slot # NoSlot /\ mem[frames[p].slot] = truth[p]
      <3>1. /\ p \in Pages /\ Holds(t, p)
            /\ Loading(t) \/ Evicting(t) => call[t].page # p
        BY DEF InUse, Fixed, Holds, Loading, Evicting
      <3>2. frames[p].state \in {"LOADED", "RELOADED"} /\ frames[p].slot \in Slots
        BY <3>1, ClientHolds
      <3>3. frames[p].slot # NoSlot
        BY <3>2, BufferAssumption DEF Slots, NoSlot
      <3>4. PageInv(p)
        BY <3>1 DEF IInv, PagesInv
      <3>5. QED
        BY <3>2, <3>3, <3>4 DEF PageInv, Claimed
    <2>2. \A p \in Pages : frames[p].state \in {"ABSENT", "NEW"} => disk[p] = truth[p]
      BY DEF IInv, PagesInv, PageInv, Empty
    <2>3. QED
      BY <2>1, <2>2 DEF NoLostUpdate
  <1>2. QED
    BY <1>1, Invariant, PTL

(* num_users counts exactly the threads that need the frame.                 *)
THEOREM UsersExactHolds == Spec => []UsersExact
  <1>1. IInv => UsersExact
    BY DEF IInv
  <1>2. QED
    BY <1>1, Invariant, PTL

(* A frame is latched by readers or by one writer, and unlock knows which.   *)
THEOREM LatchesExclusiveHolds == Spec => []LatchesExclusive
  <1>1. IInv => LatchesExclusive
    <2> SUFFICES ASSUME IInv, NEW p \in Pages
                 PROVE  /\ Cardinality(frames[p].writers) <= 1
                        /\ frames[p].locked <=> frames[p].writers # {}
                        /\ frames[p].locked => frames[p].readers = {}
      BY DEF LatchesExclusive
    <2>1. LatchOf(frames[p])
      BY DEF IInv, LatchInv
    <2>2. CASE frames[p].writers = {}
      BY <2>1, <2>2, FS_EmptySet DEF LatchOf
    <2>3. CASE frames[p].writers # {}
      <3>1. PICK t : frames[p].writers = {t}
        BY <2>1, <2>3 DEF LatchOf
      <3>2. Cardinality(frames[p].writers) = 1
        BY <3>1, FS_Singleton
      <3>3. QED
        BY <2>1, <3>2 DEF LatchOf
    <2>4. QED
      BY <2>2, <2>3
  <1>2. QED
    BY <1>1, Invariant, PTL

(* The slots that fix_page counts off and those that change hands by         *)
(* eviction never meet.                                                      *)
THEOREM SlotsDistinctHolds == Spec => []SlotsDistinct
  <1>1. IInv => SlotsDistinct
    BY DEF IInv, SlotsInv
  <1>2. QED
    BY <1>1, Invariant, PTL

(* The lists hold the frames that have memory, each once.                    *)
THEOREM ListsMatchFramesHolds == Spec => []ListsMatchFrames
  <1>1. IInv => ListsMatchFrames
    BY DEF IInv
  <1>2. QED
    BY <1>1, Invariant, PTL
===============================================================================
