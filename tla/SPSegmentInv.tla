---------------------------- MODULE SPSegmentInv ----------------------------
(***************************************************************************)
(* The inductive invariant of the slotted-page segment, by parts: what is  *)
(* true of every page, of the inventory, and of every record of the client *)
(* and the slot or two slots it is found by.  The parts take the segment   *)
(* as an argument, so that they can be said of the states between the      *)
(* steps of a method.                                                      *)
(***************************************************************************)
EXTENDS SPSegment

Address == Nat \X Nat

(* What a byte of a page may be; a redirect target begins with a TID. *)
Content == Bytes \cup {AnyByte} \cup (Address \X (1..TIDSize))

SlotType ==
    [kind : {"empty", "record", "target", "redirect"}, offset : Nat, size : Nat,
     tid : Address \cup {NoTID}]

PageType ==
    [slots : Seq(SlotType), firstFree : Nat, dataStart : Nat, freeSpace : Nat,
     data : [0..PageSize - 1 -> Content]]

SegmentType == [pages : Seq(PageType), fsi : Seq(0..15)]

------------------------------------------------------------------------------
(* Pages. *)

GoodPage(pg) ==
    /\ pg \in PageType
    /\ SoundPage(pg)
    /\ pg.dataStart <= PageSize
    /\ \A id \in Stored(pg) : SlotAt(pg, id).size > 0

(* The bytes of a record. *)
Held(pg, id) == BytesAt(pg.data, SlotAt(pg, id).offset, SlotAt(pg, id).size)

(* Slot i of the page is in use. *)
Taken(pg, i) == i \in 0..SlotCount(pg) - 1 /\ ~IsEmpty(pg, i)

(* Slot id is in page q what it is in page p, only its record may have moved. *)
Kept(p, q, id) ==
    /\ SlotAt(q, id).kind = SlotAt(p, id).kind
    /\ SlotAt(q, id).size = SlotAt(p, id).size
    /\ SlotAt(q, id).tid = SlotAt(p, id).tid
    /\ id \in Stored(p) => Held(q, id) = Held(p, id)

(***************************************************************************)
(* A page between calls, and its entry in the inventory.  The slot that is *)
(* reused next may lie behind the directory, where there is no slot.       *)
(***************************************************************************)
GoodEntry(pg, code) ==
    /\ GoodPage(pg) /\ ~Taken(pg, pg.firstFree)
    /\ DecodeFreeSpace(code) <= pg.freeSpace

GoodSegment(sg) ==
    /\ sg \in SegmentType /\ Len(sg.fsi) = Len(sg.pages)
    /\ \A k \in DOMAIN sg.pages : GoodEntry(sg.pages[k], sg.fsi[k])

------------------------------------------------------------------------------
(* Records. *)

InUse(sg, tid) == tid[1] \in 0..Len(sg.pages) - 1 /\ Taken(PageOf(sg, tid), tid[2])

(* The slot of an address has data, and the data. *)
StoredAt(sg, tid) ==
    tid \in Address /\ tid[1] \in 0..Len(sg.pages) - 1 /\ tid[2] \in Stored(PageOf(sg, tid))

HeldAt(sg, tid) == Held(PageOf(sg, tid), tid[2])

(* Location, in any segment. *)
WhereIn(sg, tid) == IF SlotOf(sg, tid).kind = "redirect" THEN SlotOf(sg, tid).tid ELSE tid

(* A TID of the client leads to its record; behind a redirect the record carries the TID. *)
RecordFound(sg, tid) ==
    /\ tid \in Address /\ InUse(sg, tid) /\ SlotOf(sg, tid).kind \in {"record", "redirect"}
    /\ StoredAt(sg, WhereIn(sg, tid))
    /\ SlotOf(sg, tid).kind = "redirect" =>
          LET to == SlotOf(sg, tid).tid
          IN  /\ to[1] # tid[1] /\ SlotOf(sg, to).size > TIDSize
              /\ \A k \in 1..TIDSize : HeldAt(sg, to)[k] = TIDBytes(tid)[k]

(* The record behind m bytes of its slot is what the client knows of it. *)
HoldsRecord(sg, to, m, rec) ==
    /\ SlotOf(sg, to).size >= m + rec.size
    /\ \A k \in 1..Len(rec.known) : HeldAt(sg, to)[m + k] = rec.known[k]

RecordRead(sg, tid, rec) ==
    IF SlotOf(sg, tid).kind = "redirect"
    THEN SlotOf(sg, SlotOf(sg, tid).tid).kind = "target" /\ HoldsRecord(sg, SlotOf(sg, tid).tid, TIDSize, rec)
    ELSE SlotOf(sg, tid).kind = "record" /\ HoldsRecord(sg, tid, 0, rec)

GoodRecord(rec) ==
    rec \in [size : Nat \ {0}, known : Seq(Bytes)] /\ Len(rec.known) <= rec.size

(***************************************************************************)
(* The records of the client, all of them and no others, each in a slot of *)
(* its own.  One that was resized inside its target is found, though it    *)
(* may not be read as it was written.                                      *)
(***************************************************************************)
GoodRecords(sg, r, sp) ==
    /\ \A tid \in DOMAIN r :
          RecordFound(sg, tid) /\ GoodRecord(r[tid]) /\ (tid \notin sp => RecordRead(sg, tid, r[tid]))
    /\ \A x, y \in DOMAIN r : WhereIn(sg, x) = WhereIn(sg, y) => x = y
    /\ \A a \in Address : StoredAt(sg, a) => \E tid \in DOMAIN r : WhereIn(sg, tid) = a

Good(sg, r, sp) == GoodSegment(sg) /\ GoodRecords(sg, r, sp)

SegmentInv == Good(segment, records, spoiled)
==============================================================================
