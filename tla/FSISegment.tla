------------------------------ MODULE FSISegment -----------------------------
(***************************************************************************)
(* The free-space inventory (class FSISegment of task-slotted-pages): four *)
(* bits per slotted page, on a scale that is linear in the upper half and  *)
(* logarithmic in the lower.  The inventory is a sequence of these codes,  *)
(* entry p + 1 for page p: how nibbles are packed into pages is left out.  *)
(***************************************************************************)
EXTENDS SlottedPage

(* look_up_table. *)
FreeSize == PageSize - HeaderSize

HalfPageSize == FreeSize \div 2

LookUpTable ==
    [code \in 0..15 |->
        IF code >= 8 THEN FreeSize - (15 - code) * (HalfPageSize \div 8)
        ELSE IF code = 0 THEN 0
        ELSE HalfPageSize \div <<64, 32, 16, 8, 4, 2, 1>>[code]]

(* Mutant of EncodeFreeSpace: rounds up. *)
EncodeRoundedUp(free) == Min({code \in 0..15 : LookUpTable[code] >= free})

EncodeFreeSpace(free) == Max({code \in 0..15 : free >= LookUpTable[code]})

DecodeFreeSpace(code) == LookUpTable[code]

Update(fsi, p, free) == [fsi EXCEPT ![p + 1] = EncodeFreeSpace(free)]

(* find: the first page whose entry promises the space, else a new page. *)
Find(fsi, required) ==
    LET fitting == {p \in 0..Len(fsi) - 1 : DecodeFreeSpace(fsi[p + 1]) >= required}
    IN  IF fitting = {} THEN Len(fsi) ELSE Min(fitting)

(* find charges the entry of the page it has found. *)
Charged(fsi, p, required) ==
    Update(fsi, p, DecodeFreeSpace(fsi[p + 1]) - required)
==============================================================================
