------------------------------ MODULE SPSegment ------------------------------
(***************************************************************************)
(* A segment of slotted pages (class SPSegment of task-slotted-pages) with *)
(* its free-space inventory: records named by TIDs that stay valid when a  *)
(* record outgrows its page, by way of a redirect to another page.         *)
(*                                                                         *)
(* A method is one action: the segment is used by one thread (its pages    *)
(* come from the map-based buffer manager of the task).  Assertions are    *)
(* on, as in the tests' build; one that fails ends the program.            *)
(***************************************************************************)
EXTENDS FSISegment

CONSTANTS
    NewSizes,    \* the sizes of new records
    Sizes,       \* the sizes records are resized to
    AnyByte,     \* a byte outside all records, or outside the page
    MaxRecords,  \* bound: records of the client at a time
    MaxPages,    \* bound: slotted pages
    MaxCalls     \* bound: calls of the client

ASSUME SegmentAssumption ==
    /\ NewSizes \cup Sizes \subseteq 1..(PageSize - HeaderSize - 2 * SlotSize)
    /\ MaxRecords \in Nat
    /\ MaxPages \in Nat \ {0}
    /\ MaxCalls \in Nat

VARIABLES
    segment,  \* [pages, fsi]: page p of the segment is pages[p + 1]
    records,  \* the records of the client: [size, known], by TID
    spoiled,  \* TIDs whose record was resized inside its redirect target
    aborted,  \* the method in which an assertion has failed, or "nowhere"
    left      \* how many calls the client may still make

segmentVars == <<segment, records, spoiled, aborted, left>>

TIDSize == SlotSize

PageOf(sg, tid) == sg.pages[tid[1] + 1]

SlotOf(sg, tid) == SlotAt(PageOf(sg, tid), tid[2])

(* The bytes of a TID as they are stored in front of a redirected record. *)
TIDBytes(tid) == [k \in 1..TIDSize |-> <<tid, k>>]

(* memcpy out of a page; behind its end lies any value. *)
CopiedOut(data, offset, n) ==
    [k \in 1..n |-> IF offset + k - 1 < PageSize THEN data[offset + k - 1] ELSE AnyByte]

WithPage(sg, p, pg) == [sg EXCEPT !.pages[p + 1] = pg]

(* unfix_page and fsi.update(page, free_space), the end of most methods. *)
Reported(sg, p) == [sg EXCEPT !.fsi = Update(@, p, sg.pages[p + 1].freeSpace)]

(* allocate, for clients and for redirects: where, and with which effect. *)
TargetPage(sg, n) == Find(sg.fsi, n + SlotSize)

TargetTID(sg, n) ==
    LET p == TargetPage(sg, n)
    IN  <<p, IF p = Len(sg.pages) THEN 0 ELSE AllocatedSlot(sg.pages[p + 1])>>

(* The assertions that allocate meets on the page it has found. *)
AllocateIsSafe(sg, n) ==
    LET p == TargetPage(sg, n)
    IN  p < Len(sg.pages) => AllocateAsserts(sg.pages[p + 1], n)

(* allocate for a redirect: not on the pages that the record is to leave. *)
RedirectIsSafe(sg, n, leaves) ==
    AllocateIsSafe(sg, n + TIDSize) /\ TargetPage(sg, n + TIDSize) \notin leaves

(* Mutant of Allocated: find does not charge the inventory. *)
AllocatedForFree(sg, n) ==
    LET p == TargetPage(sg, n)
    IN  IF p < Len(sg.pages)
        THEN WithPage(sg, p, Allocate(sg.pages[p + 1], n))
        ELSE Reported([pages |-> Append(sg.pages, Allocate(NewPage, n)),
                       fsi |-> Append(sg.fsi, 15)], p)

Allocated(sg, n) ==
    LET p == TargetPage(sg, n)
    IN  IF p < Len(sg.pages)
        THEN [WithPage(sg, p, Allocate(sg.pages[p + 1], n))
                EXCEPT !.fsi = Charged(@, p, n + SlotSize)]
        ELSE Reported([pages |-> Append(sg.pages, Allocate(NewPage, n)),
                       fsi |-> Append(sg.fsi, 15)], p)

(* A redirect target gets its mark, the TID it belongs to, and the record. *)
FilledTarget(sg, target, tid, bytes) ==
    WithPage(sg, target[1],
        [PageOf(sg, target) EXCEPT
           !.slots[target[2] + 1].kind = "target",
           !.data = Copied(@, SlotOf(sg, target).offset, TIDBytes(tid) \o bytes)])

RedirectSlot(target) == [EmptySlot EXCEPT !.kind = "redirect", !.tid = target]

(* The slot of tid becomes a redirect; its old bytes are free. *)
Redirected(sg, tid, target) ==
    WithPage(sg, tid[1],
        [PageOf(sg, tid) EXCEPT !.slots[tid[2] + 1] = RedirectSlot(target),
                                !.freeSpace = @ + SlotOf(sg, tid).size])

(***************************************************************************)
(* resize of a record that is on its own page.                             *)
(***************************************************************************)
ResizedInPlace(sg, tid, n) ==
    Reported(WithPage(sg, tid[1], Relocate(PageOf(sg, tid), tid[2], n)), tid[1])

RedirectedAway(sg, tid, n) ==
    LET slot == SlotOf(sg, tid)
        bytes == BytesAt(PageOf(sg, tid).data, slot.offset, slot.size)
        target == TargetTID(sg, n + TIDSize)
        moved == Redirected(Allocated(sg, n + TIDSize), tid, target)
    IN  FilledTarget(Reported(moved, tid[1]), target, tid, bytes)

FitsInPlace(sg, tid, n) ==
    \/ n <= SlotOf(sg, tid).size
    \/ PageOf(sg, tid).freeSpace + SlotOf(sg, tid).size > n

(* Mutant of Without: the old target is not erased. *)
LeftBehind(sg, target) == Reported(sg, target[1])

(***************************************************************************)
(* resize of a redirected record: back onto its own page, else inside the  *)
(* target's page, else to a new target.  The first and the last copy       *)
(* min(slot size, new size) bytes from behind the TID, which is up to      *)
(* sizeof(TID) more than the record has.  The second takes the new size    *)
(* for the size of the slot, although the slot holds the TID as well.      *)
(***************************************************************************)
BufferedRecord(sg, target, n) ==
    LET slot == SlotOf(sg, target)
    IN  CopiedOut(PageOf(sg, target).data, slot.offset + TIDSize, Min({slot.size, n}))

Without(sg, target) ==
    Reported(WithPage(sg, target[1], Erase(PageOf(sg, target), target[2])), target[1])

MovedBack(sg, tid, n) ==
    LET target == SlotOf(sg, tid).tid
        bytes == BufferedRecord(sg, target, n)
        freed == Without(sg, target)
        cleared == [PageOf(freed, tid) EXCEPT !.slots[tid[2] + 1] = RecordSlot(1, 0)]
        pg == Relocate(cleared, tid[2], n)
        filled == [pg EXCEPT !.data = Copied(@, SlotAt(pg, tid[2]).offset, bytes)]
    IN  Reported(WithPage(freed, tid[1], filled), tid[1])

ResizedInTarget(sg, tid, n) ==
    LET target == SlotOf(sg, tid).tid
    IN  Reported(WithPage(sg, target[1], Relocate(PageOf(sg, target), target[2], n)),
                 target[1])

MovedOn(sg, tid, n) ==
    LET target == SlotOf(sg, tid).tid
        bytes == BufferedRecord(sg, target, n)
        freed == Without(sg, target)
        next == TargetTID(freed, n + TIDSize)
        moved == Allocated(freed, n + TIDSize)
        redirected == [PageOf(moved, tid) EXCEPT !.slots[tid[2] + 1] = RedirectSlot(next)]
    IN  FilledTarget(WithPage(moved, tid[1], redirected), next, tid, bytes)

(* Bytes that belong to no record are not kept apart: any value may be there. *)
Tidy(pg) == [pg EXCEPT !.data = [b \in DOMAIN @ |-> IF b \in Used(pg) THEN @[b] ELSE AnyByte]]

Tidied(sg) == [sg EXCEPT !.pages = [k \in DOMAIN @ |-> Tidy(@[k])]]

(* The segment is created with one empty page. *)
Init ==
    /\ segment = Tidied([pages |-> <<NewPage>>, fsi |-> <<15>>])
    /\ records = <<>>
    /\ spoiled = {}
    /\ aborted = "nowhere"
    /\ left = MaxCalls

TIDs == DOMAIN records

(* The client has a record of n bytes, of which it knows the first few. *)
Keeps(tid, n, bytes) ==
    records' = [t \in TIDs \cup {tid} |->
                   IF t = tid THEN [size |-> n, known |-> bytes] ELSE records[t]]

Resized(tid, n) ==
    Keeps(tid, n, SubSeq(records[tid].known, 1, Min({n, Len(records[tid].known)})))

Fails(where) ==
    /\ aborted' = where
    /\ UNCHANGED <<segment, records, spoiled>>

(* The client calls a method of a segment that has not failed yet. *)
Call == aborted = "nowhere" /\ left > 0 /\ left' = left - 1

AllocateRecord(n) ==
    /\ Call
    /\ Cardinality(TIDs) < MaxRecords
    /\ TargetPage(segment, n) < MaxPages
    /\ \/ /\ AllocateIsSafe(segment, n)
          /\ segment' = Tidied(Allocated(segment, n))
          /\ Keeps(TargetTID(segment, n), n, ZeroBytes(n))
          /\ UNCHANGED <<spoiled, aborted>>
       \/ /\ ~AllocateIsSafe(segment, n)
          /\ Fails("allocate")

(***************************************************************************)
(* write.  For a redirected record the code takes the TID from the page at *)
(* the offset the slot would have, were it no redirect: that is the page's *)
(* header, so the page and slot it goes to are none of the segment's and   *)
(* the assertion that they are a redirect target fails.                    *)
(***************************************************************************)
WriteRecord(tid, v) ==
    LET slot == SlotOf(segment, tid)
        bytes == [k \in 1..records[tid].size |-> v]
    IN  /\ Call
        /\ \/ /\ slot.kind # "redirect"
              /\ slot.size >= records[tid].size
              /\ segment' = WithPage(segment, tid[1],
                    [PageOf(segment, tid) EXCEPT !.data = Copied(@, slot.offset, bytes)])
              /\ Keeps(tid, records[tid].size, bytes)
              /\ spoiled' = spoiled \ {tid}
              /\ UNCHANGED aborted
           \/ /\ slot.kind = "redirect"
              /\ Fails("write")

ResizeRecord(tid, n) ==
    LET slot == SlotOf(segment, tid)
    IN  /\ Call
        /\ slot.kind # "redirect"
        /\ n # slot.size
        /\ \/ /\ FitsInPlace(segment, tid, n)
              /\ segment' = Tidied(ResizedInPlace(segment, tid, n))
           \/ /\ ~FitsInPlace(segment, tid, n)
              /\ TargetPage(segment, n + TIDSize) < MaxPages
              /\ RedirectIsSafe(segment, n, {tid[1]})
              /\ segment' = Tidied(RedirectedAway(segment, tid, n))
        /\ Resized(tid, n)
        /\ UNCHANGED <<spoiled, aborted>>

FitsBack(sg, tid, n) == PageOf(sg, tid).freeSpace >= n

FitsThere(sg, target, n) ==
    PageOf(sg, target).freeSpace + SlotOf(sg, target).size - TIDSize >= n

ResizeRedirect(tid, n) ==
    LET target == SlotOf(segment, tid).tid
    IN  /\ Call
        /\ SlotOf(segment, tid).kind = "redirect"
        /\ SlotOf(segment, target).kind = "target"
        /\ Resized(tid, n)
        /\ UNCHANGED aborted
        /\ \/ /\ FitsBack(segment, tid, n)
              /\ segment' = Tidied(MovedBack(segment, tid, n))
              /\ UNCHANGED spoiled
           \/ /\ ~FitsBack(segment, tid, n) /\ FitsThere(segment, target, n)
              /\ n > TIDSize
              /\ segment' = Tidied(ResizedInTarget(segment, tid, n))
              /\ spoiled' = spoiled \cup {tid}
           \/ /\ ~FitsBack(segment, tid, n) /\ ~FitsThere(segment, target, n)
              /\ TargetPage(Without(segment, target), n + TIDSize) < MaxPages
              /\ RedirectIsSafe(Without(segment, target), n, {tid[1], target[1]})
              /\ segment' = Tidied(MovedOn(segment, tid, n))
              /\ UNCHANGED spoiled

(* Where the record of tid is: in its own slot or behind a redirect. *)
Location(tid) ==
    IF SlotOf(segment, tid).kind = "redirect" THEN SlotOf(segment, tid).tid ELSE tid

(* Is the record to go to another page?  That is found after an old target is erased. *)
MustMove(tid, n) ==
    IF Location(tid) = tid THEN ~FitsInPlace(segment, tid, n)
    ELSE ~FitsBack(segment, tid, n) /\ ~FitsThere(segment, Location(tid), n)

Freed(tid) == IF Location(tid) = tid THEN segment ELSE Without(segment, Location(tid))

(***************************************************************************)
(* An assertion of resize fails: the target has lost its mark when it      *)
(* grew, or would be made too small for the TID by relocate                *)
(* (slotted_page.cc:102), or allocate fails, or finds the page of the old  *)
(* target.                                                                 *)
(***************************************************************************)
ResizeAborts(tid, n) ==
    /\ Call
    /\ \/ Location(tid) # tid /\ SlotOf(segment, Location(tid)).kind # "target"
       \/ /\ Location(tid) # tid /\ n <= TIDSize
          /\ ~FitsBack(segment, tid, n) /\ FitsThere(segment, Location(tid), n)
       \/ MustMove(tid, n) /\ ~RedirectIsSafe(Freed(tid), n, {tid[1], Location(tid)[1]})
    /\ Fails("resize")

(* erase asserts that the slot is no redirect (slotted_page.cc:140). *)
EraseRecord(tid) ==
    /\ Call
    /\ \/ /\ SlotOf(segment, tid).kind # "redirect"
          /\ segment' = Tidied(Without(segment, tid))
          /\ records' = [t \in TIDs \ {tid} |-> records[t]]
          /\ spoiled' = spoiled \ {tid}
          /\ UNCHANGED aborted
       \/ /\ SlotOf(segment, tid).kind = "redirect"
          /\ Fails("erase")

Next ==
    \/ \E n \in NewSizes : AllocateRecord(n)
    \/ \E tid \in TIDs :
          \/ \E v \in Bytes \ {ZeroByte} : WriteRecord(tid, v)
          \/ \E n \in Sizes : ResizeRecord(tid, n) \/ ResizeRedirect(tid, n)
                                \/ ResizeAborts(tid, n)
          \/ EraseRecord(tid)
    \/ (aborted # "nowhere" \/ left = 0) /\ UNCHANGED segmentVars

Spec == Init /\ [][Next]_segmentVars

------------------------------------------------------------------------------

(***************************************************************************)
(* No entry of the inventory promises more than its page has: the page     *)
(* that find returns has room for the record, although entries are charged *)
(* by estimate and refreshed by some methods only (fsi_segment.cc:112-175, *)
(* sp_segment.cc:41,92).                                                   *)
(***************************************************************************)
InventoryIsSafe ==
    \A p \in 0..Len(segment.pages) - 1 :
        DecodeFreeSpace(segment.fsi[p + 1]) <= segment.pages[p + 1].freeSpace

(***************************************************************************)
(* The accounting of every page survives redirects, whose slots have no    *)
(* data, and moves between pages: free_space is exact and no record        *)
(* overlaps another or the directory.                                      *)
(***************************************************************************)
PagesSound == \A k \in DOMAIN segment.pages : SoundPage(segment.pages[k])

(***************************************************************************)
(* "Bound the number of redirects to one" (README.md of the task): a TID   *)
(* leads to its record directly or over one redirect to another page,      *)
(* where the record carries that TID, and there are no other records: none *)
(* is left behind when a redirect moves on or back.                        *)
(***************************************************************************)
OneRedirect ==
    /\ \A tid \in TIDs :
          LET to == Location(tid)
              slot == SlotOf(segment, to)
          IN  /\ slot.kind \in {"record", "target"}
              /\ to # tid =>
                    /\ to[1] # tid[1]
                    /\ BytesAt(PageOf(segment, to).data, slot.offset, TIDSize) = TIDBytes(tid)
    /\ \A k \in DOMAIN segment.pages : \A id \in Stored(segment.pages[k]) :
          \E tid \in TIDs : Location(tid) = <<k - 1, id>>

(***************************************************************************)
(* resize never redirects a record onto the page of its own slot (the      *)
(* assertions at sp_segment.cc:258 and 379): the nested allocate would     *)
(* move data under a slot pointer that is in use.                          *)
(***************************************************************************)
RedirectsElsewhere ==
    \A tid \in TIDs, n \in Sizes :
        MustMove(tid, n) => TargetPage(Freed(tid), n + TIDSize) # tid[1]

(* What read finds: its assertions hold and the bytes are the client's. *)
Readable(tid) ==
    LET to == Location(tid)
        slot == SlotOf(segment, to)
        prefix == IF to = tid THEN 0 ELSE TIDSize
        known == records[tid].known
    IN  /\ slot.kind = IF to = tid THEN "record" ELSE "target"
        /\ slot.size >= records[tid].size
        /\ CopiedOut(PageOf(segment, to).data, slot.offset + prefix, Len(known)) = known

(***************************************************************************)
(* Records survive every resize, redirect and move of this and of other    *)
(* records, except for those resized inside a redirect target.             *)
(***************************************************************************)
RecordsKept == \A tid \in TIDs \ spoiled : Readable(tid)

(***************************************************************************)
(* A slot that allocate is about to reuse is empty: no live record or      *)
(* redirect is overwritten, whatever was erased in whatever order          *)
(* (slotted_page.cc:34-48,145-160).                                        *)
(***************************************************************************)
ReusesEmptySlots ==
    \A k \in DOMAIN segment.pages :
        LET pg == segment.pages[k]
        IN  pg.firstFree < SlotCount(pg) => IsEmpty(pg, pg.firstFree)

(***************************************************************************)
(* The assertions of the methods hold whatever has happened to the record  *)
(* and to its page before, "assert(slot_to_write->is_redirect_target())"   *)
(* (sp_segment.cc:182) among them.                                         *)
(***************************************************************************)
AssertionsHold == aborted = "nowhere"
==============================================================================
