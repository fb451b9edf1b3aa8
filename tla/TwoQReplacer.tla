---------------------------- MODULE TwoQReplacer ----------------------------
(***************************************************************************)
(* The 2Q replacer of task-slotted-pages (2Q_replacer.cc): a FIFO list of  *)
(* cold frames and an LRU list of hot ones.  A frame that is pinned keeps  *)
(* its place in its list, so that Unpin can tell whether it was known.     *)
(*                                                                         *)
(* Every method runs under the replacer's latch and is one action.  The    *)
(* buffer pool around it is not in the build: the variables taken and pins *)
(* stand for it, and it calls the replacer as the comments on the methods  *)
(* prescribe (2Q_replacer.h:32-50).                                        *)
(***************************************************************************)
EXTENDS Integers, Sequences, SequencesExt, FiniteSets

CONSTANTS
    Frames,   \* the frames of the pool: num_pages of them
    NoFrame,  \* Victim has found none
    Silent,   \* the answer of a method that returns nothing
    MaxPins   \* bound: how often a frame is pinned at a time

ASSUME ReplacerAssumption ==
    /\ IsFiniteSet(Frames)
    /\ NoFrame \notin Frames /\ Silent \notin Frames
    /\ MaxPins \in Nat \ {0}

VARIABLES
    fifo_list,  \* the cold frames, front first
    lru_list,   \* the hot frames, front first
    ht,         \* ht[f]: the hotness of frame f, "NONE" when it is not in the table
    fifo_size,  \* how many frames are COLD
    lru_size,   \* how many frames are HOT
    failed,     \* has an assertion failed?
    answer,     \* what the last call returned
    taken,      \* the pool: the frames that hold a page
    pins,       \* the pool: the pin_count of each frame
    unpinned,   \* the frames in the order in which they were last unpinned
    again       \* the frames unpinned more than once since they got their page

replacerVars == <<fifo_list, lru_list, ht, fifo_size, lru_size, failed>>
history == <<unpinned, again>>
vars == <<replacerVars, answer, taken, pins, history>>

Hotness == {"NONE", "COLD", "HOT", "COLD_PINNED", "HOT_PINNED"}

NumPages == Cardinality(Frames)

InTable(table) == {f \in Frames : table[f] # "NONE"}

Init ==
    /\ fifo_list = <<>> /\ lru_list = <<>>
    /\ ht = [f \in Frames |-> "NONE"]
    /\ fifo_size = 0 /\ lru_size = 0
    /\ failed = FALSE
    /\ answer = Silent
    /\ taken = {}
    /\ pins = [f \in Frames |-> 0]
    /\ unpinned = <<>> /\ again = {}

(* The assertions at the head and at the end of the methods. *)
TableMatchesLists(table, list1, list2) ==
    /\ Cardinality(InTable(table)) = Len(list1) + Len(list2)
    /\ Cardinality(InTable(table)) <= NumPages

Asserts(condition) ==
    failed' = (failed \/ ~condition \/ ~TableMatchesLists(ht, fifo_list, lru_list)
                      \/ ~TableMatchesLists(ht', fifo_list', lru_list'))

(***************************************************************************)
(* The loop of Victim over one of the lists, from its back: the frames     *)
(* that are pinned are passed over.  Not to find one is assert(false), and *)
(* where assertions are off Victim returns false.                          *)
(***************************************************************************)
Candidates(list, hotness) == {i \in DOMAIN list : ht[list[i]] = hotness}

(* Mutant of Chosen: the loop starts at the front. *)
ChosenFromFront(list, hotness) ==
    IF Candidates(list, hotness) = {} THEN NoFrame ELSE list[Min(Candidates(list, hotness))]

Chosen(list, hotness) ==
    IF Candidates(list, hotness) = {} THEN NoFrame ELSE list[Max(Candidates(list, hotness))]

(* The frame goes to a page that is pinned once, without a call of Pin. *)
VictimOf(list, hotness) ==
    LET f == Chosen(list, hotness)
    IN  /\ answer' = f
        /\ ht' = [ht EXCEPT ![f] = "NONE"]
        /\ pins' = [pins EXCEPT ![f] = 1]

(***************************************************************************)
(* Victim.  The pool asks for one when it has no free frame.  Before any   *)
(* frame was unpinned it must not: assert(ht.size() > 0), although the     *)
(* comment (2Q_replacer.h:34) has Victim return false then.                *)
(***************************************************************************)
Victim ==
    /\ taken = Frames
    /\ InTable(ht) # {}
    /\ \/ /\ fifo_size + lru_size = 0
          /\ answer' = NoFrame
          /\ UNCHANGED <<replacerVars, pins>>
       \/ /\ fifo_size = 0 /\ lru_size # 0
          /\ VictimOf(lru_list, "HOT")
          /\ lru_list' = RemoveFirst(lru_list, answer')
          /\ lru_size' = lru_size - 1
          /\ UNCHANGED <<fifo_list, fifo_size>>
          /\ Asserts(Candidates(lru_list, "HOT") # {})
       \/ /\ fifo_size # 0
          /\ VictimOf(fifo_list, "COLD")
          /\ fifo_list' = RemoveFirst(fifo_list, answer')
          /\ fifo_size' = fifo_size - 1
          /\ UNCHANGED <<lru_list, lru_size>>
          /\ Asserts(Candidates(fifo_list, "COLD") # {})
    /\ unpinned' = RemoveFirst(unpinned, answer')
    /\ again' = again \ {answer'}
    /\ UNCHANGED taken

(* The pool takes a frame from its free list; the replacer hears nothing. *)
TakeFree(f) ==
    /\ f \notin taken
    /\ taken' = taken \cup {f}
    /\ pins' = [pins EXCEPT ![f] = 1]
    /\ answer' = Silent
    /\ UNCHANGED <<replacerVars, history>>

(* Mutant of Pinned: a pinned frame is taken for a cold one from then on. *)
PinnedCold(hotness) == IF hotness \in {"COLD", "HOT"} THEN "COLD_PINNED" ELSE hotness

(* Mutant of Pinned: a hot frame keeps its mark. *)
PinnedUnlessHot(hotness) == IF hotness = "COLD" THEN "COLD_PINNED" ELSE hotness

Pinned(hotness) ==
    CASE hotness = "COLD" -> "COLD_PINNED"
      [] hotness = "HOT" -> "HOT_PINNED"
      [] OTHER -> hotness

(* Pin, of a page that is in the pool; the frame stays in its list. *)
Pin(f) ==
    /\ f \in taken
    /\ pins[f] < MaxPins
    /\ pins' = [pins EXCEPT ![f] = @ + 1]
    /\ ht' = [ht EXCEPT ![f] = Pinned(@)]
    /\ fifo_size' = fifo_size - IF ht[f] = "COLD" THEN 1 ELSE 0
    /\ lru_size' = lru_size - IF ht[f] = "HOT" THEN 1 ELSE 0
    /\ answer' = Silent
    /\ UNCHANGED <<fifo_list, lru_list, taken, history>>
    /\ Asserts(TRUE)

(* The pool gives back a pin that was not the last one. *)
DropPin(f) ==
    /\ pins[f] > 1
    /\ pins' = [pins EXCEPT ![f] = @ - 1]
    /\ answer' = Silent
    /\ UNCHANGED <<replacerVars, taken, history>>

Remembers(f) ==
    /\ unpinned' = Append(RemoveFirst(unpinned, f), f)
    /\ again' = again \cup (ToSet(unpinned) \cap {f})

(***************************************************************************)
(* Unpin, when pin_count becomes 0, or once more when it is 0 already.  A  *)
(* frame that is not known is cold; any other one is hot from now on.      *)
(***************************************************************************)
UnpinNew(f) ==
    /\ ht[f] = "NONE"
    /\ ht' = [ht EXCEPT ![f] = "COLD"]
    /\ fifo_list' = Cons(f, fifo_list)
    /\ fifo_size' = fifo_size + 1
    /\ UNCHANGED <<lru_list, lru_size>>
    /\ Asserts(Cardinality(InTable(ht)) < NumPages)

(* Mutant of UnpinKnown: a frame that was cold stays where it is. *)
UnpinInPlace(f) ==
    /\ ht[f] # "NONE"
    /\ ht' = [ht EXCEPT ![f] = "HOT"]
    /\ lru_list' = Cons(f, RemoveFirst(lru_list, f))
    /\ fifo_size' = fifo_size - IF ht[f] = "COLD" THEN 1 ELSE 0
    /\ lru_size' = lru_size + IF ht[f] = "HOT" THEN 0 ELSE 1
    /\ UNCHANGED fifo_list
    /\ Asserts(TRUE)

UnpinKnown(f) ==
    /\ ht[f] # "NONE"
    /\ ht' = [ht EXCEPT ![f] = "HOT"]
    /\ lru_list' = Cons(f, RemoveFirst(lru_list, f))
    /\ fifo_list' = RemoveFirst(fifo_list, f)
    /\ fifo_size' = fifo_size - IF ht[f] = "COLD" THEN 1 ELSE 0
    /\ lru_size' = lru_size + IF ht[f] = "HOT" THEN 0 ELSE 1
    /\ Asserts(TRUE)

Unpin(f) ==
    /\ f \in taken
    /\ pins[f] <= 1
    /\ pins' = [pins EXCEPT ![f] = 0]
    /\ UnpinNew(f) \/ UnpinKnown(f)
    /\ Remembers(f)
    /\ answer' = Silent
    /\ UNCHANGED taken

(* Size, and with it FifoSize and LruSize. *)
Size ==
    /\ answer' = fifo_size + lru_size
    /\ UNCHANGED <<replacerVars, taken, pins, history>>

Next ==
    \/ Victim
    \/ Size
    \/ \E f \in Frames : TakeFree(f) \/ Pin(f) \/ DropPin(f) \/ Unpin(f)

Spec == Init /\ [][Next]_vars

------------------------------------------------------------------------------

TypeOK ==
    /\ fifo_list \in Seq(Frames) /\ lru_list \in Seq(Frames)
    /\ ht \in [Frames -> Hotness]
    /\ fifo_size \in Nat /\ lru_size \in Nat
    /\ failed \in BOOLEAN
    /\ taken \subseteq Frames
    /\ pins \in [Frames -> 0..MaxPins]
    /\ unpinned \in Seq(Frames)

(***************************************************************************)
(* The assertions of the methods hold: table and lists have the same size, *)
(* not above num_pages, and Victim, which has promised itself a frame by   *)
(* decrementing a counter first, always finds one in the list it chose     *)
(* (2Q_replacer.cc:12-43).                                                 *)
(***************************************************************************)
AssertionsHold == ~failed

(* The frames of the list are the ones with these marks, each once. *)
ListHolds(list, marks) ==
    /\ IsInjective(list)
    /\ ToSet(list) = {f \in Frames : ht[f] \in marks}

(***************************************************************************)
(* The marks in the table tell which list a frame is in, which splice and  *)
(* erase rely on (2Q_replacer.cc:87-89), and the counters count the frames *)
(* that are not pinned: neither ever wraps below 0.                        *)
(***************************************************************************)
MarksAreTrue ==
    /\ ListHolds(fifo_list, {"COLD", "COLD_PINNED"})
    /\ ListHolds(lru_list, {"HOT", "HOT_PINNED"})
    /\ fifo_size = Cardinality({f \in Frames : ht[f] = "COLD"})
    /\ lru_size = Cardinality({f \in Frames : ht[f] = "HOT"})

(* The frames whose page nobody has pinned. *)
Idle == {f \in taken : pins[f] = 0}

Oldest(S) == unpinned[Min({i \in DOMAIN unpinned : unpinned[i] \in S})]

(***************************************************************************)
(* The policy: the victim is the frame that was unpinned the longest ago   *)
(* among the idle ones that were unpinned once since they came in, or,     *)
(* when there is none, among all idle ones; that a frame was pinned and is *)
(* in its list still does not change the order (2Q_replacer.cc:16-40).     *)
(***************************************************************************)
VictimIsOldest ==
    [][Victim /\ answer' # NoFrame =>
         answer' = Oldest(IF Idle \subseteq again THEN Idle ELSE Idle \ again)]_vars

Abstract == INSTANCE Replacer WITH evictable <- Idle

(***************************************************************************)
(* The replacer keeps the promise of its base class, in terms of the pin   *)
(* counts of the pool: a victim is never pinned, there is one whenever a   *)
(* page is not pinned, and Size counts these (replacer.h:30-55).           *)
(***************************************************************************)
ImplementsReplacer == Abstract!Spec
==============================================================================
