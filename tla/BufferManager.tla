---------------------------- MODULE BufferManager ----------------------------
(***************************************************************************)
(* The buffer manager of task-buffer-manager: threads fix and unfix pages  *)
(* of a file in a fixed number of memory slots, replaced by 2Q (a FIFO and *)
(* an LRU list).                                                           *)
(*                                                                         *)
(* A step is a section under global_mutex, or what a thread does between   *)
(* two such sections: waiting for a frame's shared_mutex, reading or       *)
(* writing a block of the file.  Since global_mutex is given up at the end *)
(* of every step it needs no variable.                                     *)
(*                                                                         *)
(* The pages are those of one segment file, in file order: two segments    *)
(* share nothing but the frames.  A page's bytes are one value.            *)
(***************************************************************************)
EXTENDS Integers, Sequences, SequencesExt, FiniteSets

CONSTANTS
    Threads,     \* the threads that call fix_page and unfix_page
    NumPages,    \* the pages are 1..NumPages
    PageCount,   \* page_count: how many pages fit in memory
    Values,      \* the contents a page can have
    Zero,        \* the contents of a page that was never written
    Changed,     \* bound: the pages to which clients write other values than Zero
    MaxFixed,    \* bound: pages a thread has fixed at a time
    MaxCalls     \* bound: calls of fix_page of a thread; 0 is no bound

ASSUME BufferAssumption ==
    /\ IsFiniteSet(Threads)
    /\ NumPages \in Nat
    /\ PageCount \in Nat \ {0}
    /\ Zero \in Values
    /\ Changed \subseteq 1..NumPages
    /\ MaxFixed \in Nat
    /\ MaxCalls \in Nat

Pages == 1..NumPages

Slots == 0..(PageCount - 1)

NoSlot == -1

NoPage == 0

VARIABLES
    pc,      \* pc[t]: where thread t is
    call,    \* call[t]: the arguments of its running fix_page or unfix_page
    frames,  \* bufferframes: frames[p] is the BufferFrame of page p
    fifo,    \* fifo_list
    lru,     \* lru_list
    mem,     \* loaded_pages: the contents of each slot
    disk,    \* the contents of each page in the file
    size,    \* the size of the file, in pages
    copy,    \* copy[t]: the copy of the victim that evict_page writes out
    victim,  \* victim[t]: page_to_evict
    truth,   \* the value last written to each page by a client
    wrote,   \* wrote[t]: the pages t has written since it fixed them
    left     \* left[t]: how many calls of fix_page t may still make

bufferVars == <<frames, fifo, lru>>
clientVars == <<truth, wrote, left>>
vars == <<pc, call, bufferVars, mem, disk, size, copy, victim, clientVars>>

PCs == {"idle",      \* in client code
        "lookup",    \* called fix_page, about to take global_mutex
        "waitnew",   \* waiting for whoever creates the frame
        "recheck",   \* that wait is over, about to retake global_mutex
        "writing",   \* in write_out_page, evicting victim
        "written",   \* the block is written, about to retake global_mutex
        "reading",   \* in load_page
        "read",      \* the block is read, about to retake global_mutex
        "latch",     \* about to lock the frame for the caller
        "unfixing"}  \* has unlocked the frame, about to take global_mutex

Calls == [page : Pages \cup {NoPage}, exclusive : BOOLEAN, dirty : BOOLEAN]

NoCall == [page |-> NoPage, exclusive |-> FALSE, dirty |-> FALSE]

(***************************************************************************)
(* A BufferFrame.  Its shared_mutex is the fields writers and readers.     *)
(* fifo_position and lru_position are the place of the page in fifo or lru *)
(* (end() when it is not there).  A page without a frame is "ABSENT".      *)
(***************************************************************************)
FrameStates == {"ABSENT", "NEW", "LOADING", "LOADED", "EVICTING", "RELOADED"}

FrameRecords ==
    [state : FrameStates, users : Nat, locked : BOOLEAN, dirty : BOOLEAN,
     slot : Slots \cup {NoSlot}, writers : SUBSET Threads, readers : SUBSET Threads]

Absent == [state |-> "ABSENT", users |-> 0, locked |-> FALSE, dirty |-> FALSE,
           slot |-> NoSlot, writers |-> {}, readers |-> {}]

(* A frame as fix_page emplaces it: fixed and locked by its creator. *)
Created(t) == [Absent EXCEPT !.state = "NEW", !.users = 1,
                             !.locked = TRUE, !.writers = {t}]

(* Mutant of Resident: a page that is being loaded does not count yet. *)
NotLoading(f) == {p \in Pages : f[p].state \notin {"ABSENT", "LOADING"}}

Resident(f) == {p \in Pages : f[p].state # "ABSENT"}

Available(frame, exclusive) ==
    /\ frame.writers = {}
    /\ exclusive => frame.readers = {}

(* BufferFrame::lock, once shared_mutex grants it. *)
Latched(frame, t, exclusive) ==
    IF exclusive THEN [frame EXCEPT !.writers = @ \cup {t}, !.locked = TRUE]
                 ELSE [frame EXCEPT !.readers = @ \cup {t}]

(* Mutant of Unlatched: exclusively_locked is never reset. *)
UnlatchedStillFlagged(frame, t) ==
    [frame EXCEPT !.writers = @ \ {t}, !.readers = @ \ {t}]

(* BufferFrame::unlock, which looks at exclusively_locked. *)
Unlatched(frame, t) ==
    IF frame.locked THEN [frame EXCEPT !.writers = @ \ {t}, !.locked = FALSE]
                    ELSE [frame EXCEPT !.readers = @ \ {t}]

(* dec_num_users on a frame that was never loaded: the last user erases it. *)
DroppedNew(frame) ==
    IF frame.users = 1 THEN Absent ELSE [frame EXCEPT !.users = @ - 1]

(* The first page in the set, in the FIFO list and then in the LRU list. *)
FirstOf(pages) ==
    LET queue == fifo \o lru
        found == {i \in DOMAIN queue :
                    queue[i] \in pages /\ \A j \in 1..(i - 1) : queue[j] \notin pages}
    IN  IF found = {} THEN NoPage ELSE queue[CHOOSE i \in found : TRUE]

(* Mutant of FindPageToEvict: does not ask whether a page is in use. *)
FindLoadedPage(f) == FirstOf({p \in Pages : f[p].state = "LOADED"})

FindPageToEvict(f) == FirstOf({p \in Pages : f[p].users = 0 /\ f[p].state = "LOADED"})

Init ==
    /\ pc = [t \in Threads |-> "idle"]
    /\ call = [t \in Threads |-> NoCall]
    /\ frames = [p \in Pages |-> Absent]
    /\ fifo = <<>>
    /\ lru = <<>>
    /\ mem = [s \in Slots |-> Zero]
    /\ disk = [p \in Pages |-> Zero]
    /\ size = 0
    /\ copy = [t \in Threads |-> Zero]
    /\ victim = [t \in Threads |-> NoPage]
    /\ truth = [p \in Pages |-> Zero]
    /\ wrote = [t \in Threads |-> {}]
    /\ left = [t \in Threads |-> MaxCalls]

Fixed(t) == {p \in Pages : t \in frames[p].writers \cup frames[p].readers}

(***************************************************************************)
(* A client calls fix_page.  It does not fix a page it has fixed already:  *)
(* locking a shared_mutex twice is undefined.                              *)
(***************************************************************************)
Fix(t, p, exclusive) ==
    /\ pc[t] = "idle"
    /\ MaxCalls # 0 => left[t] > 0
    /\ p \notin Fixed(t)
    /\ Cardinality(Fixed(t)) < MaxFixed
    /\ pc' = [pc EXCEPT ![t] = "lookup"]
    /\ call' = [call EXCEPT ![t] = [page |-> p, exclusive |-> exclusive, dirty |-> FALSE]]
    /\ left' = IF MaxCalls = 0 THEN left ELSE [left EXCEPT ![t] = @ - 1]
    /\ UNCHANGED <<bufferVars, mem, disk, size, copy, victim, truth, wrote>>

(***************************************************************************)
(* The tail of fix_page for a new frame with memory at slot: queued in the *)
(* FIFO list and loaded.  A page beyond the end of the file is zeroed with *)
(* global_mutex held, and the frame is unlocked in the same section; else  *)
(* global_mutex is dropped for the read.                                   *)
(***************************************************************************)
LoadInto(t, f, list1, list2, slot) ==
    LET p == call[t].page
    IN  /\ fifo' = Append(list1, p)
        /\ lru' = list2
        /\ \/ /\ size < p
              /\ size' = p
              /\ mem' = [mem EXCEPT ![slot] = Zero]
              /\ frames' = [f EXCEPT ![p] =
                    Unlatched([@ EXCEPT !.state = "LOADED", !.dirty = FALSE, !.slot = slot], t)]
              /\ pc' = [pc EXCEPT ![t] = "latch"]
           \/ /\ size >= p
              /\ frames' = [f EXCEPT ![p].state = "LOADING", ![p].slot = slot]
              /\ pc' = [pc EXCEPT ![t] = "reading"]
              /\ UNCHANGED <<size, mem>>

(***************************************************************************)
(* evict_page from the top of its loop, and what fix_page does with its    *)
(* answer.  No victim: the new frame is given up and buffer_full_error is  *)
(* thrown.  A clean victim is erased at once.  A dirty one is copied, and  *)
(* global_mutex is dropped to write the copy.                              *)
(***************************************************************************)
Evict(t, f) ==
    LET p == call[t].page
        v == FindPageToEvict(f)
    IN  \/ /\ v = NoPage
           /\ frames' = [f EXCEPT ![p] = DroppedNew(Unlatched(@, t))]
           /\ pc' = [pc EXCEPT ![t] = "idle"]
           /\ call' = [call EXCEPT ![t] = NoCall]
           /\ victim' = [victim EXCEPT ![t] = NoPage]
           /\ copy' = [copy EXCEPT ![t] = Zero]
           /\ UNCHANGED <<fifo, lru, mem, size>>
        \/ /\ v # NoPage
           /\ ~f[v].dirty
           /\ LoadInto(t, [f EXCEPT ![v] = Absent],
                       RemoveFirst(fifo, v), RemoveFirst(lru, v), f[v].slot)
           /\ victim' = [victim EXCEPT ![t] = NoPage]
           /\ copy' = [copy EXCEPT ![t] = Zero]
           /\ UNCHANGED call
        \/ /\ v # NoPage
           /\ f[v].dirty
           /\ frames' = [f EXCEPT ![v].state = "EVICTING"]
           /\ copy' = [copy EXCEPT ![t] = mem[f[v].slot]]
           /\ victim' = [victim EXCEPT ![t] = v]
           /\ pc' = [pc EXCEPT ![t] = "writing"]
           /\ UNCHANGED <<fifo, lru, mem, size, call>>

(* Mutant of Touch: the page stays in the FIFO list. *)
TouchLRU(t, f) ==
    LET p == call[t].page
    IN  /\ frames' = f
        /\ lru' = Append(RemoveFirst(lru, p), p)
        /\ pc' = [pc EXCEPT ![t] = "latch"]
        /\ UNCHANGED <<fifo, mem, size, call, copy, victim>>

(* A frame that is fixed again goes to the end of the LRU list. *)
Touch(t, f) ==
    LET p == call[t].page
    IN  /\ frames' = f
        /\ fifo' = RemoveFirst(fifo, p)
        /\ lru' = Append(RemoveFirst(lru, p), p)
        /\ pc' = [pc EXCEPT ![t] = "latch"]
        /\ UNCHANGED <<mem, size, call, copy, victim>>

(* The body of fix_page's loop and, when there is no frame, what follows it. *)
LookUpIn(t, f) ==
    LET p == call[t].page
        created == [f EXCEPT ![p] = Created(t)]
        index == Cardinality(Resident(created)) - 1
    IN  \/ /\ f[p].state = "NEW"
           /\ frames' = [f EXCEPT ![p].users = @ + 1]
           /\ pc' = [pc EXCEPT ![t] = "waitnew"]
           /\ UNCHANGED <<fifo, lru, mem, size, call, copy, victim>>
        \/ /\ f[p].state \notin {"ABSENT", "NEW"}
           /\ Touch(t, [f EXCEPT ![p].users = @ + 1,
                                 ![p].state = IF @ = "EVICTING" THEN "RELOADED" ELSE @])
        \/ /\ f[p].state = "ABSENT"
           /\ index < PageCount
           /\ LoadInto(t, created, fifo, lru, index)
           /\ UNCHANGED <<call, copy, victim>>
        \/ /\ f[p].state = "ABSENT"
           /\ index >= PageCount
           /\ Evict(t, created)

LookUp(t) ==
    /\ pc[t] = "lookup"
    /\ LookUpIn(t, frames)
    /\ UNCHANGED <<disk, clientVars>>

(* page.lock(true); page.unlock(): the creator is done, one way or the other. *)
WaitNew(t) ==
    /\ pc[t] = "waitnew"
    /\ Available(frames[call[t].page], TRUE)
    /\ pc' = [pc EXCEPT ![t] = "recheck"]
    /\ UNCHANGED <<call, bufferVars, mem, disk, size, copy, victim, clientVars>>

(* Mutant of Recheck: starts over without giving the frame back. *)
RecheckAsUser(t) ==
    /\ pc[t] = "recheck"
    /\ IF frames[call[t].page].state = "NEW" THEN LookUpIn(t, frames) ELSE Touch(t, frames)
    /\ UNCHANGED <<disk, clientVars>>

(* Still NEW: the creator failed; fix_page starts over without a pause. *)
Recheck(t) ==
    LET p == call[t].page
    IN  /\ pc[t] = "recheck"
        /\ IF frames[p].state = "NEW"
           THEN LookUpIn(t, [frames EXCEPT ![p] = DroppedNew(@)])
           ELSE Touch(t, frames)
        /\ UNCHANGED <<disk, clientVars>>

(* write_block of the copy, without global_mutex. *)
WriteBlock(t) ==
    /\ pc[t] = "writing"
    /\ disk' = [disk EXCEPT ![victim[t]] = copy[t]]
    /\ pc' = [pc EXCEPT ![t] = "written"]
    /\ UNCHANGED <<call, bufferVars, mem, size, copy, victim, clientVars>>

(* Mutant of Evicted: does not look whether the victim was fixed meanwhile. *)
EvictedRegardless(t) ==
    LET v == victim[t]
    IN  /\ pc[t] = "written"
        /\ LoadInto(t, [frames EXCEPT ![v] = Absent],
                    RemoveFirst(fifo, v), RemoveFirst(lru, v), frames[v].slot)
        /\ victim' = [victim EXCEPT ![t] = NoPage]
        /\ copy' = [copy EXCEPT ![t] = Zero]
        /\ UNCHANGED <<call, disk, clientVars>>

(* Nobody has claimed the victim meanwhile: it is erased, its slot is ours. *)
Evicted(t) ==
    LET v == victim[t]
    IN  /\ pc[t] = "written"
        /\ frames[v].state = "EVICTING"
        /\ LoadInto(t, [frames EXCEPT ![v] = Absent],
                    RemoveFirst(fifo, v), RemoveFirst(lru, v), frames[v].slot)
        /\ victim' = [victim EXCEPT ![t] = NoPage]
        /\ copy' = [copy EXCEPT ![t] = Zero]
        /\ UNCHANGED <<call, disk, clientVars>>

(* The victim was fixed meanwhile: it stays, and evict_page tries again. *)
Reloaded(t) ==
    /\ pc[t] = "written"
    /\ frames[victim[t]].state = "RELOADED"
    /\ Evict(t, [frames EXCEPT ![victim[t]].state = "LOADED"])
    /\ UNCHANGED <<disk, clientVars>>

(* read_block into the slot, without global_mutex. *)
ReadBlock(t) ==
    /\ pc[t] = "reading"
    /\ mem' = [mem EXCEPT ![frames[call[t].page].slot] = disk[call[t].page]]
    /\ pc' = [pc EXCEPT ![t] = "read"]
    /\ UNCHANGED <<call, bufferVars, disk, size, copy, victim, clientVars>>

(* The end of load_page; the creator unlocks the frame. *)
Loaded(t) ==
    /\ pc[t] = "read"
    /\ frames' = [frames EXCEPT ![call[t].page] =
                    Unlatched([@ EXCEPT !.state = "LOADED", !.dirty = FALSE], t)]
    /\ pc' = [pc EXCEPT ![t] = "latch"]
    /\ UNCHANGED <<call, fifo, lru, mem, disk, size, copy, victim, clientVars>>

(* The frame's shared_mutex is locked as the caller asked; fix_page returns. *)
Latch(t) ==
    LET p == call[t].page
    IN  /\ pc[t] = "latch"
        /\ Available(frames[p], call[t].exclusive)
        /\ frames' = [frames EXCEPT ![p] = Latched(@, t, call[t].exclusive)]
        /\ pc' = [pc EXCEPT ![t] = "idle"]
        /\ call' = [call EXCEPT ![t] = NoCall]
        /\ UNCHANGED <<fifo, lru, mem, disk, size, copy, victim, clientVars>>

(* A client writes to a page that it has fixed exclusively. *)
Write(t, p, v) ==
    /\ pc[t] = "idle"
    /\ t \in frames[p].writers
    /\ p \in Changed \/ v = Zero
    /\ mem' = [mem EXCEPT ![frames[p].slot] = v]
    /\ truth' = [truth EXCEPT ![p] = v]
    /\ wrote' = [wrote EXCEPT ![t] = @ \cup {p}]
    /\ UNCHANGED <<pc, call, bufferVars, disk, size, copy, victim, left>>

(* unfix_page; a client that has written the page says so. *)
Unfix(t, p, dirty) ==
    /\ pc[t] = "idle"
    /\ p \in Fixed(t)
    /\ p \in wrote[t] => dirty
    /\ frames' = [frames EXCEPT ![p] = Unlatched(@, t)]
    /\ pc' = [pc EXCEPT ![t] = "unfixing"]
    /\ call' = [call EXCEPT ![t] = [page |-> p, exclusive |-> FALSE, dirty |-> dirty]]
    /\ wrote' = [wrote EXCEPT ![t] = @ \ {p}]
    /\ UNCHANGED <<fifo, lru, mem, disk, size, copy, victim, truth, left>>

(* Its section under global_mutex. *)
Unfixed(t) ==
    LET p == call[t].page
    IN  /\ pc[t] = "unfixing"
        /\ frames' = [frames EXCEPT ![p].dirty = @ \/ call[t].dirty, ![p].users = @ - 1]
        /\ pc' = [pc EXCEPT ![t] = "idle"]
        /\ call' = [call EXCEPT ![t] = NoCall]
        /\ UNCHANGED <<fifo, lru, mem, disk, size, copy, victim, clientVars>>

(***************************************************************************)
(* ~BufferManager, which writes every frame to the file, and a new         *)
(* BufferManager on the same file.  No thread uses the old one any more.   *)
(***************************************************************************)
Restart ==
    /\ \A t \in Threads : pc[t] = "idle" /\ Fixed(t) = {}
    /\ Resident(frames) # {}
    /\ disk' = [p \in Pages |-> IF p \in Resident(frames) THEN mem[frames[p].slot] ELSE disk[p]]
    /\ frames' = [p \in Pages |-> Absent]
    /\ fifo' = <<>>
    /\ lru' = <<>>
    /\ mem' = [s \in Slots |-> Zero]
    /\ UNCHANGED <<pc, call, size, copy, victim, clientVars>>

(* What a thread does inside fix_page and unfix_page. *)
Work(t) ==
    \/ LookUp(t) \/ WaitNew(t) \/ Recheck(t)
    \/ WriteBlock(t) \/ Evicted(t) \/ Reloaded(t)
    \/ ReadBlock(t) \/ Loaded(t) \/ Latch(t)
    \/ Unfixed(t)

Release(t) == \E p \in Pages, dirty \in BOOLEAN : Unfix(t, p, dirty)

Next ==
    \/ \E t \in Threads :
          \/ Work(t) \/ Release(t)
          \/ \E p \in Pages, exclusive \in BOOLEAN : Fix(t, p, exclusive)
          \/ \E p \in Pages, v \in Values : Write(t, p, v)
    \/ Restart

Spec == Init /\ [][Next]_vars

(***************************************************************************)
(* Threads inside the buffer manager keep running, and a client unfixes    *)
(* what it has fixed.                                                      *)
(***************************************************************************)
FairSpec == Spec /\ \A t \in Threads : WF_vars(Work(t)) /\ WF_vars(Release(t))

------------------------------------------------------------------------------

TypeOK ==
    /\ pc \in [Threads -> PCs]
    /\ call \in [Threads -> Calls]
    /\ frames \in [Pages -> FrameRecords]
    /\ fifo \in Seq(Pages)
    /\ lru \in Seq(Pages)
    /\ mem \in [Slots -> Values]
    /\ disk \in [Pages -> Values]
    /\ size \in 0..NumPages
    /\ copy \in [Threads -> Values]
    /\ victim \in [Threads -> Pages \cup {NoPage}]
    /\ truth \in [Pages -> Values]
    /\ wrote \in [Threads -> SUBSET Pages]
    /\ left \in [Threads -> 0..MaxCalls]

(* The pages a client has got from fix_page and not given back. *)
InUse(t) == IF pc[t] \in {"reading", "read", "writing", "written"}
            THEN Fixed(t) \ {call[t].page}
            ELSE Fixed(t)

(***************************************************************************)
(* Whoever has a page fixed sees the last value written to it, and so does *)
(* whoever opens the file later: no write is lost when eviction writes a   *)
(* copy without the latch while the page is fixed and changed again        *)
(* (buffer_manager.cc:117-121,331-344).                                    *)
(***************************************************************************)
NoLostUpdate ==
    /\ \A t \in Threads : \A p \in InUse(t) :
          frames[p].slot # NoSlot /\ mem[frames[p].slot] = truth[p]
    /\ \A p \in Pages : frames[p].state \in {"ABSENT", "NEW"} => disk[p] = truth[p]

(***************************************************************************)
(* No two pages are in the same slot.  A slot index is computed from the   *)
(* number of frames (buffer_manager.cc:169-171), which counts frames that  *)
(* have no memory yet, while slots change hands by eviction.               *)
(***************************************************************************)
SlotsDistinct ==
    \A p, q \in Pages :
        frames[p].slot # NoSlot /\ frames[p].slot = frames[q].slot => p = q

(***************************************************************************)
(* The FIFO and the LRU list hold each frame that has memory once, and no  *)
(* other: the lists keep raw pointers to frames that the map erases        *)
(* (buffer_manager.cc:346-353).                                            *)
(***************************************************************************)
ListsMatchFrames ==
    /\ IsInjective(fifo) /\ IsInjective(lru)
    /\ ToSet(fifo) \cap ToSet(lru) = {}
    /\ ToSet(fifo) \cup ToSet(lru) = {p \in Pages : frames[p].slot # NoSlot}

(* Thread t counts as a user of page p, on behalf of a client or a call. *)
Uses(t, p) ==
    \/ p \in InUse(t)
    \/ pc[t] \notin {"idle", "lookup"} /\ call[t].page = p

(***************************************************************************)
(* num_users is the number of threads that still need the frame, and a     *)
(* frame that one needs exists: the references fix_page has returned, and  *)
(* those kept over a wait (buffer_manager.cc:122-138), never dangle.       *)
(***************************************************************************)
UsersExact ==
    \A p \in Pages : frames[p].users = Cardinality({t \in Threads : Uses(t, p)})

(***************************************************************************)
(* Readers share a page with readers only, and exclusively_locked, on      *)
(* which unlock relies (buffer_manager.cc:50-57), tells who holds it.      *)
(***************************************************************************)
LatchesExclusive ==
    \A p \in Pages :
        /\ Cardinality(frames[p].writers) <= 1
        /\ frames[p].locked <=> frames[p].writers # {}
        /\ frames[p].locked => frames[p].readers = {}

(***************************************************************************)
(* "When the page cannot be loaded because the buffer is full, throws the  *)
(* exception buffer_full_error" (buffer_manager.h:208): a call of fix_page *)
(* ends, with the page or with the exception.                              *)
(***************************************************************************)
FixReturns == \A t \in Threads : pc[t] = "lookup" ~> pc[t] = "idle"
==============================================================================
