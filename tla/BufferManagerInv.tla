-------------------------- MODULE BufferManagerInv ---------------------------
(***************************************************************************)
(* The inductive invariant of the buffer manager, by parts: what every     *)
(* step of BufferManager preserves, and from which its safety properties   *)
(* follow.                                                                 *)
(***************************************************************************)
EXTENDS BufferManager

Evicting(t) == pc[t] \in {"writing", "written"}   \* in evict_page
Loading(t) == pc[t] \in {"reading", "read"}       \* in load_page
Waiting(t) == pc[t] \in {"lookup", "waitnew", "recheck", "latch", "unfixing"}

Empty == {"ABSENT", "NEW"}               \* the states of a page without memory
Claimed == {"EVICTING", "RELOADED"}      \* the states of a page that is a victim

(* Where a thread is tells in which state the frames are that it is about. *)
CallsInv ==
    \A t \in Threads :
        LET p == call[t].page
            v == victim[t]
        IN  /\ pc[t] # "idle" => p \in Pages
            /\ Waiting(t) => p \notin Fixed(t)
            /\ pc[t] \in {"latch", "unfixing"} => frames[p].state \notin Empty
            /\ Loading(t) => frames[p].state = "LOADING" /\ t \in frames[p].writers
            /\ Evicting(t) => frames[p].state = "NEW" /\ t \in frames[p].writers
            /\ Evicting(t) => v \in Pages /\ frames[v].state \in Claimed

(* Two threads never evict the same page. *)
VictimsInv ==
    \A t, u \in Threads : Evicting(t) /\ Evicting(u) /\ victim[t] = victim[u] => t = u

(* What the state of a frame says of its other fields, and of the threads. *)
FrameInv(p) ==
    /\ frames[p].state = "ABSENT" => frames[p] = Absent
    /\ frames[p].state \in Empty <=> frames[p].slot = NoSlot
    /\ frames[p].state = "NEW" =>
          /\ frames[p].users > 0
          /\ frames[p].readers = {}
          /\ \A t \in frames[p].writers : Evicting(t) /\ call[t].page = p
    /\ frames[p].state = "LOADING" => \E t \in Threads : Loading(t) /\ call[t].page = p
    /\ frames[p].state = "EVICTING" => frames[p].users = 0
    /\ frames[p].state \in Claimed => frames[p].dirty

FramesInv == \A p \in Pages : FrameInv(p)

(* The shared_mutex of a frame: readers, or one writer and locked is set. *)
LatchOf(frame) ==
    /\ \A t, u \in frame.writers : t = u
    /\ frame.locked <=> frame.writers # {}
    /\ frame.locked => frame.readers = {}

LatchInv == \A p \in Pages : LatchOf(frames[p])

(***************************************************************************)
(* The slots in use are the first ones, as many as there are frames with   *)
(* memory; all of them are in use when a frame has none.                   *)
(***************************************************************************)
InMemory(f) == {p \in Pages : f[p].slot # NoSlot}

SlotsInv ==
    /\ SlotsDistinct
    /\ Cardinality(InMemory(frames)) <= PageCount
    /\ \A p \in InMemory(frames) : frames[p].slot < Cardinality(InMemory(frames))
    /\ \A s \in Slots : s < Cardinality(InMemory(frames)) =>
          \E p \in InMemory(frames) : frames[p].slot = s
    /\ \A p \in Pages : frames[p].state = "NEW" => Cardinality(InMemory(frames)) = PageCount

(* No write to the page waits for its dirty flag. *)
Flagged(p) ==
    \A t \in Threads :
        /\ p \notin wrote[t]
        /\ ~(pc[t] = "unfixing" /\ call[t].page = p /\ call[t].dirty)

(***************************************************************************)
(* Where the last value written to a page is: in memory while it has been  *)
(* loaded, in the file while it has not, and in the file as well while the *)
(* page is clean.                                                          *)
(***************************************************************************)
PageInv(p) ==
    /\ size < p => disk[p] = Zero
    /\ frames[p].slot # NoSlot => p <= size
    /\ frames[p].state \in Empty \cup {"LOADING"} => disk[p] = truth[p]
    /\ frames[p].state \in Claimed \cup {"LOADED"} => mem[frames[p].slot] = truth[p]
    /\ frames[p].state = "LOADED" /\ ~frames[p].dirty /\ Flagged(p) => disk[p] = truth[p]

PagesInv == \A p \in Pages : PageInv(p)

(* The value in a read, in an eviction, and behind a client's write. *)
CopiesInv ==
    \A t \in Threads :
        LET p == call[t].page
            v == victim[t]
        IN  /\ pc[t] = "read" => mem[frames[p].slot] = disk[p]
            /\ pc[t] = "writing" /\ frames[v].state = "EVICTING" => copy[t] = truth[v]
            /\ pc[t] = "written" /\ frames[v].state = "EVICTING" => disk[v] = truth[v]
            /\ \A q \in wrote[t] : t \in frames[q].writers /\ frames[q].state \in {"LOADED", "RELOADED"}

IInv ==
    /\ TypeOK
    /\ CallsInv
    /\ VictimsInv
    /\ FramesInv
    /\ LatchInv
    /\ UsersExact
    /\ ListsMatchFrames
    /\ SlotsInv
    /\ PagesInv
    /\ CopiesInv
==============================================================================
