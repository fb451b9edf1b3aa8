----------------------------- MODULE SlottedPage -----------------------------
(***************************************************************************)
(* A slotted page (struct SlottedPage of task-slotted-pages): a directory  *)
(* of slots that grows from the header upwards and records that grow from  *)
(* the end of the page downwards.  Each method is an operator from page to *)
(* page; slot i of the code is slots[i + 1], slot_count is Len(slots).     *)
(*                                                                         *)
(* The 64 bits of a Slot are a record: kind tells the four readings of its *)
(* top two bytes apart, tid is set in a redirect only.                     *)
(***************************************************************************)
EXTENDS Integers, Sequences, FiniteSets, SequencesExt

CONSTANTS
    PageSize,    \* page_size
    HeaderSize,  \* sizeof(Header), 12 in the code
    SlotSize,    \* sizeof(Slot) and sizeof(TID), 8 in the code
    Bytes,       \* the values of a byte
    ZeroByte     \* 0x00

ASSUME PageAssumption ==
    /\ PageSize \in Nat
    /\ HeaderSize \in 2..PageSize
    /\ SlotSize \in Nat \ {0}
    /\ ZeroByte \in Bytes

NoTID == <<>>

EmptySlot == [kind |-> "empty", offset |-> 0, size |-> 0, tid |-> NoTID]

RecordSlot(offset, size) ==
    [kind |-> "record", offset |-> offset, size |-> size, tid |-> NoTID]

NewPage ==
    [slots |-> <<>>, firstFree |-> 0, dataStart |-> PageSize,
     freeSpace |-> PageSize - HeaderSize,
     data |-> [b \in 0..PageSize - 1 |-> ZeroByte]]

SlotCount(pg) == Len(pg.slots)

SlotAt(pg, id) == pg.slots[id + 1]

IsEmpty(pg, id) == SlotAt(pg, id).kind = "empty"

(* The ids of the slots that have data on this page. *)
Stored(pg) == {id \in 0..SlotCount(pg) - 1 : SlotAt(pg, id).kind \in {"record", "target"}}

Area(slot) == slot.offset..(slot.offset + slot.size - 1)

(* The bytes of a page that belong to a record. *)
Used(pg) == UNION {Area(SlotAt(pg, id)) : id \in Stored(pg)}

(* memcpy and memset: the bytes from offset on become those of seq. *)
Copied(data, offset, seq) ==
    [b \in DOMAIN data |-> IF b \in offset..(offset + Len(seq) - 1)
                           THEN seq[b - offset + 1] ELSE data[b]]

BytesAt(data, offset, n) == [k \in 1..n |-> data[offset + k - 1]]

ZeroBytes(n) == [k \in 1..n |-> ZeroByte]

SlotsEnd(pg) == HeaderSize + SlotCount(pg) * SlotSize

ContinuousFreeSpace(pg) == pg.dataStart - SlotsEnd(pg)

(* One turn of the loop of compactify; dataStart is its last_data_offset. *)
Moved(id, pg) ==
    LET slot == SlotAt(pg, id)
        to == pg.dataStart - slot.size
    IN  [pg EXCEPT !.dataStart = to,
                   !.slots[id + 1].offset = to,
                   !.data = Copied(@, to, BytesAt(@, slot.offset, slot.size))]

(* compactify moves the records to the end of the page, highest offset first. *)
Compactify(pg) ==
    LET Lowest(ids) == CHOOSE i \in ids : \A j \in ids : SlotAt(pg, i).offset <= SlotAt(pg, j).offset
    IN  MapThenFoldSet(Moved, [pg EXCEPT !.dataStart = PageSize], LAMBDA id : id, Lowest, Stored(pg))

WithRoom(pg, n) == IF ContinuousFreeSpace(pg) < n THEN Compactify(pg) ELSE pg

(* The slot at id is given n bytes of zeros below data_start. *)
Placed(pg, id, n) ==
    [pg EXCEPT !.dataStart = @ - n,
               !.slots[id + 1] = RecordSlot(pg.dataStart - n, n),
               !.data = Copied(@, pg.dataStart - n, ZeroBytes(n))]

(***************************************************************************)
(* allocate.  The loop over the slots behind the reused one has no break:  *)
(* first_free_slot becomes the last empty slot.                            *)
(***************************************************************************)
AllocatedSlot(pg) == pg.firstFree

AppendedSlot(pg, n) ==
    LET q == WithRoom(pg, n + SlotSize)
    IN  [q EXCEPT !.firstFree = @ + 1,
                  !.freeSpace = @ - (n + SlotSize),
                  !.slots = Append(@, EmptySlot)]

(* Mutant of ReusedSlot: first_free_slot is not looked for. *)
ReusedTwice(pg, n) == LET q == WithRoom(pg, n) IN [q EXCEPT !.freeSpace = @ - n]

ReusedSlot(pg, n) ==
    LET q == WithRoom(pg, n)
        later == {i \in (pg.firstFree + 1)..(SlotCount(pg) - 1) : IsEmpty(q, i)}
    IN  [q EXCEPT !.firstFree = IF later = {} THEN SlotCount(pg) ELSE Max(later),
                  !.freeSpace = @ - n]

Allocate(pg, n) ==
    Placed(IF pg.firstFree = SlotCount(pg) THEN AppendedSlot(pg, n) ELSE ReusedSlot(pg, n),
           AllocatedSlot(pg), n)

(* The assertions of allocate (slotted_page.cc:14,24,33,49). *)
AllocateAsserts(pg, n) ==
    /\ ContinuousFreeSpace(pg) >= 0
    /\ \/ pg.firstFree = SlotCount(pg) /\ pg.freeSpace >= n + SlotSize
       \/ pg.firstFree < SlotCount(pg) /\ pg.freeSpace >= n

(* The data of a slot is given up; data_start follows if it was the lowest. *)
Vacated(pg, id) ==
    LET slot == SlotAt(pg, id)
    IN  [pg EXCEPT !.freeSpace = @ + slot.size,
                   !.dataStart = IF slot.offset = @ THEN @ + slot.size ELSE @,
                   !.slots[id + 1] = EmptySlot]

(***************************************************************************)
(* relocate.  A slot of size 0 at offset 1 is what resize makes of a       *)
(* redirect; it ends as a record of zeros, like any slot that grows from   *)
(* nothing.  A slot that grows loses its mark as a redirect target.        *)
(***************************************************************************)
Shrunk(pg, id, n) == [pg EXCEPT !.freeSpace = @ + SlotAt(pg, id).size - n,
                                !.slots[id + 1].size = n]

(* Mutant of Grown: the bytes are read after the slot was vacated. *)
GrownFromCompacted(pg, id, n) ==
    LET slot == SlotAt(pg, id)
        q == WithRoom(Vacated(pg, id), n)
        r == Placed([q EXCEPT !.freeSpace = @ - n], id, n)
    IN  [r EXCEPT !.data = Copied(@, r.dataStart, BytesAt(q.data, slot.offset, slot.size))]

Grown(pg, id, n) ==
    LET slot == SlotAt(pg, id)
        q == WithRoom(Vacated(pg, id), n)
        r == Placed([q EXCEPT !.freeSpace = @ - n], id, n)
    IN  [r EXCEPT !.data = Copied(@, r.dataStart, BytesAt(pg.data, slot.offset, slot.size))]

Relocate(pg, id, n) ==
    IF SlotAt(pg, id).size >= n THEN Shrunk(pg, id, n) ELSE Grown(pg, id, n)

(* Mutant of Erase: free_space does not get the slots back. *)
EraseKeepsSlots(pg, id) ==
    LET q == [Vacated(pg, id) EXCEPT !.firstFree = IF id < @ THEN id ELSE @]
        used == {i \in 0..SlotCount(q) - 1 : ~IsEmpty(q, i)}
        count == IF id # SlotCount(q) - 1 THEN SlotCount(q)
                 ELSE IF used = {} THEN 0 ELSE Max(used) + 1
    IN  [q EXCEPT !.slots = SubSeq(@, 1, count)]

(* erase: empty slots at the end of the directory are given up with it. *)
Erase(pg, id) ==
    LET q == [Vacated(pg, id) EXCEPT !.firstFree = IF id < @ THEN id ELSE @]
        used == {i \in 0..SlotCount(q) - 1 : ~IsEmpty(q, i)}
        count == IF id # SlotCount(q) - 1 THEN SlotCount(q)
                 ELSE IF used = {} THEN 0 ELSE Max(used) + 1
    IN  [q EXCEPT !.slots = SubSeq(@, 1, count),
                  !.freeSpace = @ + (SlotCount(q) - count) * SlotSize]

------------------------------------------------------------------------------

(* free_space counts the bytes that are neither header nor directory nor record. *)
FreeSpaceIsExact(pg) ==
    pg.freeSpace = PageSize - SlotsEnd(pg) - Cardinality(Used(pg))

(* Records overlap neither each other nor the directory, none is below data_start. *)
RecordsApart(pg) ==
    /\ SlotsEnd(pg) <= pg.dataStart
    /\ \A i \in Stored(pg) :
          /\ Area(SlotAt(pg, i)) \subseteq pg.dataStart..PageSize - 1
          /\ \A j \in Stored(pg) \ {i} :
                Area(SlotAt(pg, i)) \cap Area(SlotAt(pg, j)) = {}

SoundPage(pg) == FreeSpaceIsExact(pg) /\ RecordsApart(pg)
==============================================================================
