--------------------------- MODULE SPSegmentProofs ---------------------------
(***************************************************************************)
(* The records of a segment survive whatever is done to them and to their  *)
(* neighbours: for every page, header and slot size, every number of pages *)
(* and records and every sequence of calls.                                *)
(*                                                                         *)
(* The proof goes from a page to the segment to the records.  compactify   *)
(* moves the records of a page one after the other without touching those  *)
(* still to be moved (CompactifyShifts).  Each method of a page keeps all  *)
(* slots but its own (PageStep), each method of the segment all addresses  *)
(* but those of the record at hand (SegmentStep), a redirect and its two   *)
(* pages being several such steps; so all other records are found and read *)
(* as before (OthersKept), and it is left to see what became of the one.   *)
(***************************************************************************)
EXTENDS SPSegmentInv, ListLemmas

------------------------------------------------------------------------------
(* compactify moves the records of ever larger sets. *)

(* The ids of stored records are slots of the directory, and finitely many. *)
LEMMA StoredFinite ==
    ASSUME NEW pg, pg \in PageType
    PROVE  /\ IsFiniteSet(Stored(pg))
           /\ \A id \in Stored(pg) : id \in Nat /\ id + 1 \in DOMAIN pg.slots /\ SlotAt(pg, id) \in SlotType
  <1>1. pg.slots \in Seq(SlotType)
    BY DEF PageType
  <1>2. PICK n \in Nat : n = Len(pg.slots) /\ DOMAIN pg.slots = 1..n
    BY <1>1
  <1>3. Stored(pg) \subseteq 0..n - 1
    BY <1>2 DEF Stored, SlotCount
  <1>4. IsFiniteSet(0..n - 1)
    BY <1>2, FS_Interval
  <1>5. IsFiniteSet(Stored(pg))
    BY <1>3, <1>4, FS_Subset
  <1>6. ASSUME NEW id \in Stored(pg)
        PROVE  id \in Nat /\ id + 1 \in DOMAIN pg.slots /\ SlotAt(pg, id) \in SlotType
    <2>1. id \in Nat /\ id + 1 \in 1..n
      BY <1>2, <1>3
    <2>2. QED
      BY <1>1, <1>2, <2>1 DEF SlotAt
  <1>7. QED
    BY <1>5, <1>6

(* A set of stored records has one that begins first. *)
LEMMA FirstRecord ==
    ASSUME NEW pg, pg \in PageType, NEW ids \in SUBSET Stored(pg), ids # {}
    PROVE  \E i \in ids : \A j \in ids : SlotAt(pg, i).offset <= SlotAt(pg, j).offset
  <1> DEFINE T == {SlotAt(pg, i).offset : i \in ids}
  <1>1. \A i \in ids : SlotAt(pg, i).offset \in Nat
    BY StoredFinite DEF SlotType
  <1>2. T \in SUBSET Nat /\ T # {}
    BY <1>1
  <1>3. Min(T) \in T /\ \A y \in T : Min(T) <= y
    BY <1>2, NatMinimum
  <1>4. QED
    BY <1>3

(***************************************************************************)
(* Compactify moves the records of ever larger sets: f is the page after   *)
(* those of a set.                                                         *)
(***************************************************************************)
Stages(pg, f) ==
    /\ Compactify(pg) = f[Stored(pg)]
    /\ f[{}] = [pg EXCEPT !.dataStart = PageSize]
    /\ \A s \in SUBSET Stored(pg) : s # {} =>
          \E id \in s : /\ \A j \in s : SlotAt(pg, id).offset <= SlotAt(pg, j).offset
                        /\ f[s] = Moved(id, f[s \ {id}])

(* There are such stages. *)
LEMMA CompactifySteps ==
    ASSUME NEW pg, pg \in PageType
    PROVE  \E f : Stages(pg, f)
  <1> DEFINE S == Stored(pg)
             Base == [pg EXCEPT !.dataStart = PageSize]
             Low(s) == CHOOSE i \in s : \A j \in s : SlotAt(pg, i).offset <= SlotAt(pg, j).offset
             Turn(f, s) == IF s = {} THEN Base ELSE Moved(Low(s), f[s \ {Low(s)}])
             IsFold(f) == f = [s \in SUBSET S |-> Turn(f, s)]
             Upto(f, k) == \A s \in SUBSET S : Cardinality(s) <= k => f[s] = Turn(f, s)
  <1>1. Compactify(pg) = (CHOOSE f : IsFold(f))[S]
    BY DEF Compactify, MapThenFoldSet
  <1>2. ASSUME NEW s \in SUBSET S, s # {}
        PROVE  Low(s) \in s /\ \A j \in s : SlotAt(pg, Low(s)).offset <= SlotAt(pg, j).offset
    BY <1>2, FirstRecord
  <1>3. ASSUME NEW s \in SUBSET S PROVE IsFiniteSet(s) /\ Cardinality(s) \in Nat
    BY StoredFinite, FS_Subset, FS_CardinalityType
  <1>4. ASSUME NEW s \in SUBSET S, s # {}
        PROVE  /\ s \ {Low(s)} \in SUBSET S
               /\ Cardinality(s) \in Nat /\ Cardinality(s \ {Low(s)}) = Cardinality(s) - 1
    BY <1>2, <1>3, <1>4, FS_RemoveElement
  <1> HIDE DEF Base, Low
  <1>5. ASSUME NEW k \in Nat, NEW f, k > 0 => Upto(f, k - 1), NEW g,
               g = [s \in SUBSET S |-> IF k > 0 /\ Cardinality(s) <= k - 1 THEN f[s] ELSE Turn(f, s)]
        PROVE  Upto(g, k)
    <2>1. ASSUME NEW s \in SUBSET S, Cardinality(s) <= k
          PROVE  g[s] = Turn(g, s)
      <3>1. g[s] = Turn(f, s)
        <4>1. CASE k > 0 /\ Cardinality(s) <= k - 1
          BY <1>5, <4>1
        <4>2. CASE ~(k > 0 /\ Cardinality(s) <= k - 1)
          BY <1>5, <4>2
        <4>3. QED
          BY <4>1, <4>2
      <3>2. CASE s = {}
        BY <3>1, <3>2
      <3>3. CASE s # {}
        <4>1. /\ s \ {Low(s)} \in SUBSET S
              /\ Cardinality(s) \in Nat /\ Cardinality(s \ {Low(s)}) = Cardinality(s) - 1
          BY <1>4, <3>3
        <4>2. k > 0 /\ Cardinality(s \ {Low(s)}) <= k - 1
          <5>1. Cardinality(s \ {Low(s)}) \in Nat
            BY <1>3, <4>1
          <5>2. QED
            BY <2>1, <4>1, <5>1
        <4>3. g[s \ {Low(s)}] = f[s \ {Low(s)}]
          BY <1>5, <4>1, <4>2
        <4>4. QED
          BY <3>1, <3>3, <4>3
      <3>4. QED
        BY <3>2, <3>3
    <2>2. QED
      BY <2>1
  <1>6. ASSUME NEW k \in Nat PROVE \E f : Upto(f, k)
    <2> DEFINE Bad == {j \in Nat : ~\E f : Upto(f, j)}
    <2>1. SUFFICES ASSUME Bad # {} PROVE FALSE
      BY <1>6
    <2>2. PICK j \in Bad : \A i \in Bad : j <= i
      BY <2>1, NatMinimum
    <2>3. PICK f : j > 0 => Upto(f, j - 1)
      <3>1. CASE j = 0
        BY <3>1
      <3>2. CASE j > 0
        <4>1. j - 1 \in Nat /\ ~(j <= j - 1)
          BY <3>2
        <4>2. j - 1 \notin Bad
          BY <2>2, <4>1
        <4>3. \E f : Upto(f, j - 1)
          BY <4>1, <4>2
        <4>4. QED
          BY <4>3
      <3>3. QED
        BY <2>2, <3>1, <3>2
    <2> HIDE DEF Upto
    <2>4. \E g : Upto(g, j)
      BY <1>5, <2>2, <2>3
    <2>5. QED
      BY <2>2, <2>4
  <1>7. \E f : IsFold(f)
    <2>1. S \in SUBSET S /\ Cardinality(S) \in Nat
      BY <1>3
    <2>2. PICK f : Upto(f, Cardinality(S))
      BY <1>6, <2>1
    <2>3. ASSUME NEW s \in SUBSET S PROVE f[s] = Turn(f, s)
      <3>1. Cardinality(s) <= Cardinality(S)
        BY StoredFinite, FS_Subset
      <3>2. QED
        BY <2>2, <3>1
    <2> DEFINE g == [s \in SUBSET S |-> f[s]]
    <2>4. ASSUME NEW s \in SUBSET S PROVE g[s] = Turn(g, s)
      <3>1. CASE s = {}
        BY <2>3, <3>1
      <3>2. CASE s # {}
        <4>1. g[s \ {Low(s)}] = f[s \ {Low(s)}]
          BY <1>4, <3>2
        <4>2. QED
          BY <2>3, <3>2, <4>1
      <3>3. QED
        BY <3>1, <3>2
    <2>5. g = [s \in SUBSET S |-> g[s]]
      OBVIOUS
    <2> HIDE DEF g
    <2>6. g = [s \in SUBSET S |-> Turn(g, s)]
      BY <2>4, <2>5, Zenon
    <2>7. QED
      BY <2>6
  <1> DEFINE f == CHOOSE h : IsFold(h)
  <1>8. IsFold(f)
    BY <1>7
  <1>9. \A s \in SUBSET S : f[s] = Turn(f, s)
    <2> HIDE DEF f
    <2>1. f = [s \in SUBSET S |-> Turn(f, s)]
      BY <1>8
    <2> HIDE DEF Turn
    <2>2. QED
      BY <2>1, Zenon
  <1> HIDE DEF f
  <1>10. ASSUME NEW s \in SUBSET S, s # {}
         PROVE  \E id \in s : /\ \A j \in s : SlotAt(pg, id).offset <= SlotAt(pg, j).offset
                              /\ f[s] = Moved(id, f[s \ {id}])
    BY <1>2, <1>9, <1>10
  <1>11. f[{}] = Base
    BY <1>9
  <1>12. Compactify(pg) = f[S]
    BY <1>1 DEF f
  <1>13. QED
    <2>1. Stages(pg, f)
      BY <1>10, <1>11, <1>12 DEF Base, Stages
    <2>2. QED
      BY <2>1

(* Two records of a page: one ends before the other begins. *)
EndsBefore(s, t) == s.offset + s.size <= t.offset

(* RecordsApart by where records begin and end. *)
Placing(pg) ==
    \A i \in Stored(pg) :
        LET s == SlotAt(pg, i)
        IN  /\ pg.dataStart <= s.offset /\ s.offset + s.size <= PageSize
            /\ \A j \in Stored(pg) \ {i} : EndsBefore(s, SlotAt(pg, j)) \/ EndsBefore(SlotAt(pg, j), s)

(* Records of sizes above 0 are apart when they are placed one behind the other. *)
LEMMA ApartIffPlacing ==
    ASSUME NEW pg, pg \in PageType, \A id \in Stored(pg) : SlotAt(pg, id).size > 0
    PROVE  RecordsApart(pg) <=> SlotsEnd(pg) <= pg.dataStart /\ Placing(pg)
  <1>1. \A id \in Stored(pg) : SlotAt(pg, id).offset \in Nat /\ SlotAt(pg, id).size \in Nat \ {0}
    BY StoredFinite DEF SlotType
  <1>2. pg.dataStart \in Nat /\ PageSize \in Nat
    BY PageAssumption DEF PageType
  <1>3. ASSUME NEW s, s.offset \in Nat, s.size \in Nat \ {0}
        PROVE  Area(s) \subseteq pg.dataStart..PageSize - 1
                  <=> pg.dataStart <= s.offset /\ s.offset + s.size <= PageSize
    <2>1. PICK o \in Nat, n \in Nat \ {0} : o = s.offset /\ n = s.size
      BY <1>3
    <2>2. o \in o..(o + n - 1) /\ o + n - 1 \in o..(o + n - 1)
      BY <2>1
    <2>3. o..(o + n - 1) \subseteq pg.dataStart..PageSize - 1
             <=> pg.dataStart <= o /\ o + n <= PageSize
      BY <1>2, <2>2
    <2>4. QED
      BY <2>1, <2>3 DEF Area
  <1>4. ASSUME NEW s, s.offset \in Nat, s.size \in Nat \ {0}, NEW t, t.offset \in Nat, t.size \in Nat \ {0}
        PROVE  Area(s) \cap Area(t) = {} <=> EndsBefore(s, t) \/ EndsBefore(t, s)
    <2>1. PICK o \in Nat, n \in Nat \ {0} : o = s.offset /\ n = s.size
      BY <1>4
    <2>2. PICK p \in Nat, m \in Nat \ {0} : p = t.offset /\ m = t.size
      BY <1>4
    <2>3. o \in o..(o + n - 1) /\ p \in p..(p + m - 1)
      BY <2>1, <2>2
    <2>4. (o..(o + n - 1)) \cap (p..(p + m - 1)) = {} <=> o + n <= p \/ p + m <= o
      BY <2>3
    <2>5. QED
      BY <2>1, <2>2, <2>4 DEF Area, EndsBefore
  <1>5. ASSUME NEW i \in Stored(pg)
        PROVE  Area(SlotAt(pg, i)) \subseteq pg.dataStart..PageSize - 1
                  <=> pg.dataStart <= SlotAt(pg, i).offset
                         /\ SlotAt(pg, i).offset + SlotAt(pg, i).size <= PageSize
    BY <1>1, <1>3
  <1>6. ASSUME NEW i \in Stored(pg), NEW j \in Stored(pg)
        PROVE  Area(SlotAt(pg, i)) \cap Area(SlotAt(pg, j)) = {}
                  <=> EndsBefore(SlotAt(pg, i), SlotAt(pg, j)) \/ EndsBefore(SlotAt(pg, j), SlotAt(pg, i))
    BY <1>1, <1>4
  <1>7. QED
    BY <1>5, <1>6, Zenon DEF RecordsApart, Placing

(* The records of a page lie between data_start and its end, and overlap nowhere. *)
LEMMA GoodPlacing ==
    ASSUME NEW pg, GoodPage(pg)
    PROVE  /\ SlotsEnd(pg) <= pg.dataStart /\ Placing(pg)
           /\ \A id \in Stored(pg) :
                 SlotAt(pg, id).offset \in Nat /\ SlotAt(pg, id).size \in Nat \ {0}
  BY ApartIffPlacing, StoredFinite DEF GoodPage, SoundPage, SlotType

(* A page whose records are in order, whatever its free_space says. *)
Laid(pg) == pg \in PageType /\ RecordsApart(pg) /\ \A id \in Stored(pg) : SlotAt(pg, id).size > 0

(* The bytes of some records of a page. *)
AreaOf(pg, ids) == UNION {Area(SlotAt(pg, i)) : i \in ids}

(* The bytes of one more record add its size. *)
LEMMA AreaOfAdded ==
    ASSUME NEW pg, Laid(pg), NEW ids \in SUBSET Stored(pg), NEW x \in Stored(pg) \ ids
    PROVE  /\ IsFiniteSet(AreaOf(pg, ids)) /\ Cardinality(AreaOf(pg, ids)) \in Nat
           /\ Cardinality(AreaOf(pg, ids \cup {x})) = Cardinality(AreaOf(pg, ids)) + SlotAt(pg, x).size
  <1> DEFINE U == AreaOf(pg, ids)
             A == Area(SlotAt(pg, x))
  <1>1. ASSUME NEW i \in Stored(pg) PROVE Area(SlotAt(pg, i)) \subseteq pg.dataStart..PageSize - 1
    BY DEF Laid, RecordsApart
  <1>2. U \subseteq pg.dataStart..PageSize - 1
    BY <1>1 DEF AreaOf
  <1>3. pg.dataStart \in Int /\ PageSize - 1 \in Int
    BY PageAssumption DEF Laid, PageType
  <1>4. IsFiniteSet(pg.dataStart..PageSize - 1)
    BY <1>3, FS_Interval
  <1>5. IsFiniteSet(U) /\ Cardinality(U) \in Nat
    BY <1>2, <1>4, FS_Subset, FS_CardinalityType
  <1>6. IsFiniteSet(A) /\ Cardinality(A) = SlotAt(pg, x).size
    <2>1. PICK o \in Nat, n \in Nat \ {0} : o = SlotAt(pg, x).offset /\ n = SlotAt(pg, x).size
      BY StoredFinite DEF Laid, SlotType
    <2>2. o \in Int /\ o + n - 1 \in Int /\ ~(o > o + n - 1) /\ (o + n - 1) - o + 1 = n
      BY <2>1
    <2>3. IsFiniteSet(o..(o + n - 1)) /\ Cardinality(o..(o + n - 1)) = n
      BY <2>2, FS_Interval
    <2>4. QED
      BY <2>1, <2>3 DEF Area
  <1>7. U \cap A = {}
    BY DEF Laid, RecordsApart, AreaOf
  <1>8. AreaOf(pg, ids \cup {x}) = U \cup A
    BY DEF AreaOf
  <1>9. Cardinality(U \cup A) = Cardinality(U) + Cardinality(A) - Cardinality(U \cap A)
    BY <1>5, <1>6, FS_Union
  <1>10. Cardinality(U \cap A) = 0
    BY <1>7, FS_EmptySet
  <1> HIDE DEF U, A
  <1>11. Cardinality(A) \in Nat
    BY <1>6, FS_CardinalityType
  <1>12. Cardinality(U \cup A) = Cardinality(U) + SlotAt(pg, x).size
    BY <1>5, <1>6, <1>9, <1>10, <1>11
  <1>13. QED
    BY <1>5, <1>8, <1>12 DEF U

(* Page q is page pg after compactify has moved the records of ids. *)
Shifted(pg, ids, q) ==
    /\ q \in PageType
    /\ q.firstFree = pg.firstFree /\ q.freeSpace = pg.freeSpace
    /\ Len(q.slots) = Len(pg.slots)
    /\ \A id \in 0..SlotCount(pg) - 1 :
          /\ SlotAt(q, id) = [SlotAt(pg, id) EXCEPT !.offset = SlotAt(q, id).offset]
          /\ id \notin ids => SlotAt(q, id) = SlotAt(pg, id)
    /\ q.dataStart = PageSize - Cardinality(AreaOf(pg, ids))
    /\ \A i \in ids :
          /\ q.dataStart <= SlotAt(q, i).offset /\ SlotAt(q, i).offset + SlotAt(q, i).size <= PageSize
          /\ \A j \in ids \ {i} :
                EndsBefore(SlotAt(q, i), SlotAt(q, j)) \/ EndsBefore(SlotAt(q, j), SlotAt(q, i))
    /\ \A i \in Stored(pg) : Held(q, i) = Held(pg, i)

(* Page r is q after the record of slot x, n bytes at offset o, has moved to another offset. *)
MovedTo(q, x, to, o, n, r) ==
    /\ r \in PageType
    /\ r.firstFree = q.firstFree /\ r.freeSpace = q.freeSpace
    /\ Len(r.slots) = Len(q.slots) /\ r.dataStart = to
    /\ SlotAt(r, x) = [SlotAt(q, x) EXCEPT !.offset = to]
    /\ \A id \in 0..SlotCount(q) - 1 : id # x => SlotAt(r, id) = SlotAt(q, id)
    /\ \A b \in 0..PageSize - 1 :
          r.data[b] = IF to <= b /\ b < to + n THEN q.data[o + (b - to)] ELSE q.data[b]

(* What Moved does, with offsets as numbers. *)
LEMMA MovedFields ==
    ASSUME NEW q, q \in PageType, NEW x \in 0..SlotCount(q) - 1, NEW to \in Nat, NEW o \in Nat, NEW n \in Nat,
           o = SlotAt(q, x).offset, n = SlotAt(q, x).size, to = q.dataStart - n, o + n <= PageSize, to + n <= PageSize
    PROVE  MovedTo(q, x, to, o, n, Moved(x, q))
  <1> DEFINE block == BytesAt(q.data, o, n)
             r == [q EXCEPT !.dataStart = to, !.slots[x + 1].offset = to, !.data = Copied(@, to, block)]
  <1>1. Moved(x, q) = r
    BY DEF Moved, SlotAt
  <1>2. q.slots \in Seq(SlotType) /\ q.data \in [0..PageSize - 1 -> Content] /\ PageSize \in Nat
    BY PageAssumption DEF PageType
  <1>3. x + 1 \in DOMAIN q.slots /\ x \in Nat
    BY <1>2 DEF SlotCount
  <1>4. r.slots = [q.slots EXCEPT ![x + 1].offset = to]
    BY <1>2 DEF PageType
  <1>5. q.slots[x + 1] \in SlotType
    BY <1>2, <1>3
  <1>6. [q.slots[x + 1] EXCEPT !.offset = to] \in SlotType
    BY <1>5 DEF SlotType
  <1>7. r.slots = [q.slots EXCEPT ![x + 1] = [q.slots[x + 1] EXCEPT !.offset = to]]
    BY <1>4, <1>3
  <1>8. r.slots \in Seq(SlotType) /\ Len(r.slots) = Len(q.slots)
    BY <1>2, <1>3, <1>6, <1>7
  <1>9. block \in [1..n -> Content] /\ DOMAIN block = 1..n /\ Len(block) = n
    <2>1. ASSUME NEW k \in 1..n PROVE q.data[o + k - 1] \in Content
      <3>1. o + k - 1 \in 0..PageSize - 1
        BY PageAssumption
      <3>2. QED
        BY <1>2, <3>1
    <2>2. block \in [1..n -> Content]
      BY <2>1 DEF BytesAt
    <2>3. QED
      BY <2>2
  <1>10. DOMAIN q.data = 0..PageSize - 1
    BY <1>2
  <1>11. Copied(q.data, to, block)
            = [b \in 0..PageSize - 1 |-> IF b \in to..(to + n - 1) THEN block[b - to + 1] ELSE q.data[b]]
    BY <1>9, <1>10 DEF Copied
  <1>12. r.data = Copied(q.data, to, block)
    BY DEF PageType
  <1>13. ASSUME NEW b \in 0..PageSize - 1
         PROVE  r.data[b] = IF to <= b /\ b < to + n THEN q.data[o + (b - to)] ELSE q.data[b]
    <2>1. r.data[b] = IF b \in to..(to + n - 1) THEN block[b - to + 1] ELSE q.data[b]
      BY <1>11, <1>12
    <2>2. b \in to..(to + n - 1) <=> to <= b /\ b < to + n
      BY <1>2
    <2>3. CASE to <= b /\ b < to + n
      <3>1. b - to + 1 \in 1..n /\ o + (b - to + 1) - 1 = o + (b - to)
        BY <1>2, <2>3, SMTT(30)
      <3>2. block[b - to + 1] = q.data[o + (b - to)]
        BY <3>1 DEF BytesAt
      <3>3. QED
        BY <2>1, <2>2, <2>3, <3>2
    <2>4. QED
      BY <2>1, <2>2, <2>3
  <1>14. r.data \in [0..PageSize - 1 -> Content]
    <2>1. ASSUME NEW b \in 0..PageSize - 1
          PROVE  (IF b \in to..(to + n - 1) THEN block[b - to + 1] ELSE q.data[b]) \in Content
      <3>1. CASE b \in to..(to + n - 1)
        <4>1. b - to + 1 \in 1..n
          BY <3>1
        <4>2. QED
          BY <1>9, <3>1, <4>1
      <3>2. QED
        BY <1>2, <3>1
    <2>2. QED
      BY <1>11, <1>12, <2>1
  <1>15. r \in PageType /\ r.firstFree = q.firstFree /\ r.freeSpace = q.freeSpace /\ r.dataStart = to
    <2>1. r = [q EXCEPT !.dataStart = to, !.slots = r.slots, !.data = r.data]
      BY DEF PageType
    <2> HIDE DEF r
    <2>2. QED
      BY <1>8, <1>14, <2>1 DEF PageType
  <1>16. SlotAt(r, x) = [SlotAt(q, x) EXCEPT !.offset = to]
    BY <1>3, <1>2, <1>7 DEF SlotAt
  <1>17. ASSUME NEW id \in 0..SlotCount(q) - 1, id # x PROVE SlotAt(r, id) = SlotAt(q, id)
    <2>1. id + 1 \in DOMAIN q.slots
      BY <1>2 DEF SlotCount
    <2>2. id + 1 # x + 1
      <3>1. id \in Int /\ x \in Int
        BY <1>3, <1>2
      <3>2. QED
        BY <1>17, <3>1
    <2> HIDE DEF r
    <2>3. QED
      BY <1>3, <1>7, <2>1, <2>2 DEF SlotAt
  <1> HIDE DEF r
  <1>18. QED
    BY <1>1, <1>8, <1>13, <1>15, <1>16, <1>17 DEF MovedTo

(* A record whose bytes are where they were. *)
LEMMA HeldUntouched ==
    ASSUME NEW q, NEW r, NEW i, NEW a \in Nat, NEW m \in Nat, a + m <= PageSize,
           a = SlotAt(q, i).offset, m = SlotAt(q, i).size,
           a = SlotAt(r, i).offset, m = SlotAt(r, i).size,
           \A b \in 0..PageSize - 1 : a <= b /\ b < a + m => r.data[b] = q.data[b]
    PROVE  Held(r, i) = Held(q, i)
  <1>1. ASSUME NEW k \in 1..m PROVE r.data[a + k - 1] = q.data[a + k - 1]
    <2>1. a + k - 1 \in 0..PageSize - 1 /\ a <= a + k - 1 /\ a + k - 1 < a + m
      BY PageAssumption
    <2>2. QED
      BY <2>1
  <1>2. [k \in 1..m |-> r.data[a + k - 1]] = [k \in 1..m |-> q.data[a + k - 1]]
    BY <1>1
  <1>3. QED
    BY <1>2 DEF Held, BytesAt

(* One turn of the loop of compactify moves the highest record that is left. *)
LEMMA ShiftStep ==
    ASSUME NEW pg, GoodPage(pg), NEW ids \in SUBSET Stored(pg), NEW x \in Stored(pg) \ ids,
           \A i \in ids : SlotAt(pg, x).offset <= SlotAt(pg, i).offset,
           \A j \in Stored(pg) \ ids : SlotAt(pg, j).offset <= SlotAt(pg, x).offset,
           NEW q, Shifted(pg, ids, q)
    PROVE  Shifted(pg, ids \cup {x}, Moved(x, q))
  <1>1. PICK o \in Nat, n \in Nat \ {0} :
           o = SlotAt(pg, x).offset /\ n = SlotAt(pg, x).size /\ o + n <= PageSize
    BY GoodPlacing DEF Placing
  <1>2. /\ x \in 0..SlotCount(pg) - 1 /\ SlotCount(q) = SlotCount(pg)
        /\ SlotAt(q, x) = SlotAt(pg, x)
    BY DEF Stored, Shifted, SlotCount
  <1>3. ASSUME NEW i \in Stored(pg), i # x
        PROVE  EndsBefore(SlotAt(pg, x), SlotAt(pg, i)) \/ EndsBefore(SlotAt(pg, i), SlotAt(pg, x))
    BY <1>3, GoodPlacing DEF Placing
  <1>4. ASSUME NEW i \in ids
        PROVE  o + n <= SlotAt(pg, i).offset
    <2>1. PICK a \in Nat, m \in Nat \ {0} : a = SlotAt(pg, i).offset /\ m = SlotAt(pg, i).size
      BY GoodPlacing
    <2>2. o <= a /\ (o + n <= a \/ a + m <= o)
      BY <1>1, <1>3, <2>1 DEF EndsBefore
    <2>3. QED
      BY <2>1, <2>2
  <1>5. PICK c \in Nat : c = Cardinality(AreaOf(pg, ids)) /\ c <= PageSize - (o + n)
    <2>1. ASSUME NEW i \in ids PROVE Area(SlotAt(pg, i)) \subseteq (o + n)..PageSize - 1
      <3>1. PICK a \in Nat, m \in Nat \ {0} :
               a = SlotAt(pg, i).offset /\ m = SlotAt(pg, i).size /\ a + m <= PageSize
        BY GoodPlacing DEF Placing
      <3>2. o + n <= a
        BY <1>4, <3>1
      <3>3. a..(a + m - 1) \subseteq (o + n)..PageSize - 1
        BY <3>1, <3>2, PageAssumption
      <3>4. QED
        BY <3>1, <3>3 DEF Area
    <2>2. AreaOf(pg, ids) \subseteq (o + n)..PageSize - 1
      BY <2>1 DEF AreaOf
    <2>3. PICK e \in Int : e = o + n /\ PageSize - 1 \in Int
      BY PageAssumption
    <2>4. IsFiniteSet(e..PageSize - 1)
             /\ Cardinality(e..PageSize - 1) = IF e > PageSize - 1 THEN 0 ELSE PageSize - 1 - e + 1
      BY <2>3, FS_Interval
    <2>5. Cardinality(e..PageSize - 1) = PageSize - e
      BY <1>1, <2>3, <2>4, PageAssumption
    <2>6. Cardinality(AreaOf(pg, ids)) <= PageSize - e
      BY <2>2, <2>3, <2>4, <2>5, FS_Subset
    <2>7. Cardinality(AreaOf(pg, ids)) \in Nat
      BY AreaOfAdded DEF GoodPage, SoundPage, Laid
    <2>8. QED
      BY <2>3, <2>6, <2>7
  <1>6. q.dataStart = PageSize - c
    BY <1>5 DEF Shifted
  <1>7. PICK to \in Nat : to = q.dataStart - n /\ to + n = q.dataStart /\ to + n <= PageSize /\ o <= to
    BY <1>1, <1>5, <1>6, PageAssumption
  <1> DEFINE r == Moved(x, q)
  <1>8. q \in PageType
    BY DEF Shifted
  <1>9. /\ r \in PageType
        /\ r.firstFree = q.firstFree /\ r.freeSpace = q.freeSpace
        /\ Len(r.slots) = Len(q.slots) /\ r.dataStart = to
        /\ SlotAt(r, x) = [SlotAt(q, x) EXCEPT !.offset = to]
        /\ \A id \in 0..SlotCount(q) - 1 : id # x => SlotAt(r, id) = SlotAt(q, id)
        /\ \A b \in 0..PageSize - 1 :
              r.data[b] = IF to <= b /\ b < to + n THEN q.data[o + (b - to)] ELSE q.data[b]
    <2>1. x \in 0..SlotCount(q) - 1 /\ o = SlotAt(q, x).offset /\ n = SlotAt(q, x).size
      BY <1>1, <1>2
    <2>2. to = q.dataStart - n /\ o + n <= PageSize /\ to + n <= PageSize /\ n \in Nat
      BY <1>1, <1>7
    <2>3. MovedTo(q, x, to, o, n, r)
      BY <1>8, <2>1, <2>2, MovedFields DEF r
    <2>4. QED
      BY <2>3 DEF MovedTo
  <1> HIDE DEF r
  <1>10. SlotAt(r, x).offset = to /\ SlotAt(r, x).size = n
    <2>1. SlotAt(q, x) \in SlotType
      BY <1>2, StoredFinite DEF GoodPage
    <2>2. QED
      BY <1>1, <1>2, <1>9, <2>1 DEF SlotType
  <1>11. ASSUME NEW id \in 0..SlotCount(pg) - 1
         PROVE  /\ SlotAt(r, id) = [SlotAt(pg, id) EXCEPT !.offset = SlotAt(r, id).offset]
                /\ id \notin ids \cup {x} => SlotAt(r, id) = SlotAt(pg, id)
    <2>1. CASE id = x
      <3>1. SlotAt(r, x) = [SlotAt(pg, x) EXCEPT !.offset = to]
        BY <1>2, <1>9
      <3>2. QED
        BY <1>10, <2>1, <3>1
    <2>2. CASE id # x
      <3>1. SlotAt(r, id) = SlotAt(q, id)
        BY <1>2, <1>9, <2>2
      <3>2. QED
        BY <2>2, <3>1 DEF Shifted
    <2>3. QED
      BY <2>1, <2>2
  <1>12. r.dataStart = PageSize - Cardinality(AreaOf(pg, ids \cup {x}))
    <2>1. Cardinality(AreaOf(pg, ids \cup {x})) = c + n
      BY <1>1, <1>5, AreaOfAdded DEF GoodPage, SoundPage, Laid
    <2>2. to = PageSize - (c + n)
      BY <1>1, <1>6, <1>7, PageAssumption
    <2>3. QED
      BY <1>9, <2>1, <2>2
  <1>13. ASSUME NEW i \in ids
         PROVE  /\ SlotAt(r, i) = SlotAt(q, i)
                /\ \E a \in Nat, m \in Nat \ {0} :
                      a = SlotAt(q, i).offset /\ m = SlotAt(q, i).size /\ to + n <= a /\ a + m <= PageSize
    <2>1. i \in 0..SlotCount(pg) - 1 /\ i # x
      BY DEF Stored
    <2>2. SlotAt(q, i) = [SlotAt(pg, i) EXCEPT !.offset = SlotAt(q, i).offset]
      BY <2>1 DEF Shifted
    <2>3. SlotAt(pg, i) \in SlotType /\ SlotAt(pg, i).size \in Nat \ {0}
      BY StoredFinite, GoodPlacing DEF GoodPage
    <2>4. SlotAt(q, i).size \in Nat \ {0}
      BY <2>2, <2>3 DEF SlotType
    <2>5. q.dataStart <= SlotAt(q, i).offset /\ SlotAt(q, i).offset + SlotAt(q, i).size <= PageSize
      BY DEF Shifted
    <2>6. SlotAt(q, i).offset \in Nat
      <3>1. q.slots \in Seq(SlotType) /\ i + 1 \in DOMAIN q.slots
        BY <1>2, <1>8, <2>1 DEF PageType, SlotCount
      <3>2. SlotAt(q, i) \in SlotType
        BY <3>1 DEF SlotAt
      <3>3. QED
        BY <3>2 DEF SlotType
    <2>7. QED
      BY <1>2, <1>7, <1>9, <2>1, <2>4, <2>5, <2>6
  <1>14. ASSUME NEW i \in ids \cup {x}
         PROVE  /\ r.dataStart <= SlotAt(r, i).offset /\ SlotAt(r, i).offset + SlotAt(r, i).size <= PageSize
                /\ \A j \in (ids \cup {x}) \ {i} :
                     EndsBefore(SlotAt(r, i), SlotAt(r, j)) \/ EndsBefore(SlotAt(r, j), SlotAt(r, i))
    <2>1. ASSUME NEW j \in ids PROVE EndsBefore(SlotAt(r, x), SlotAt(r, j))
      BY <1>10, <1>13 DEF EndsBefore
    <2>2. CASE i = x
      <3>1. r.dataStart <= SlotAt(r, x).offset
        BY <1>7, <1>9, <1>10
      <3>2. SlotAt(r, x).offset + SlotAt(r, x).size <= PageSize
        BY <1>7, <1>10
      <3>3. QED
        BY <2>1, <2>2, <3>1, <3>2
    <2>3. CASE i # x
      <3>1. r.dataStart <= SlotAt(r, i).offset /\ SlotAt(r, i).offset + SlotAt(r, i).size <= PageSize
        <4>1. PICK a \in Nat, m \in Nat \ {0} :
                      a = SlotAt(r, i).offset /\ m = SlotAt(r, i).size /\ to + n <= a /\ a + m <= PageSize
          BY <1>13, <2>3
        <4>2. QED
          BY <1>1, <1>7, <1>9, <4>1
      <3>2. ASSUME NEW j \in ids \ {i}
            PROVE  EndsBefore(SlotAt(r, i), SlotAt(r, j)) \/ EndsBefore(SlotAt(r, j), SlotAt(r, i))
        <4>1. EndsBefore(SlotAt(q, i), SlotAt(q, j)) \/ EndsBefore(SlotAt(q, j), SlotAt(q, i))
          BY <2>3 DEF Shifted
        <4>2. QED
          BY <1>13, <2>3, <4>1
      <3>3. QED
        BY <2>1, <2>3, <3>1, <3>2
    <2>4. QED
      BY <2>2, <2>3
  <1>15. ASSUME NEW i \in Stored(pg) PROVE Held(r, i) = Held(q, i)
    <2>1. CASE i = x
      <3>1. Held(r, x) = [k \in 1..n |-> r.data[to + k - 1]]
        BY <1>10 DEF Held, BytesAt
      <3>2. Held(q, x) = [k \in 1..n |-> q.data[o + k - 1]]
        BY <1>1, <1>2 DEF Held, BytesAt
      <3>3. ASSUME NEW k \in 1..n PROVE r.data[to + k - 1] = q.data[o + k - 1]
        <4>1. /\ to + k - 1 \in 0..PageSize - 1 /\ to <= to + k - 1 /\ to + k - 1 < to + n
              /\ o + (to + k - 1 - to) = o + k - 1
          BY <1>1, <1>7, PageAssumption
        <4>2. QED
          BY <1>9, <4>1
      <3>4. QED
        BY <2>1, <3>1, <3>2, <3>3
    <2>2. CASE i \in ids
      <3>1. PICK a \in Nat, m \in Nat \ {0} :
                 a = SlotAt(q, i).offset /\ m = SlotAt(q, i).size /\ to + n <= a /\ a + m <= PageSize
        BY <1>13, <2>2
      <3>2. \A b \in 0..PageSize - 1 : a <= b /\ b < a + m => r.data[b] = q.data[b]
        <4>1. ASSUME NEW b \in 0..PageSize - 1, a <= b PROVE ~(to <= b /\ b < to + n)
          BY <1>1, <1>7, <3>1, <4>1
        <4>2. QED
          BY <1>9, <4>1
      <3>3. QED
        BY <1>13, <2>2, <3>1, <3>2, HeldUntouched
    <2>3. CASE i \notin ids \cup {x}
      <3>1. i \in 0..SlotCount(pg) - 1
        BY DEF Stored
      <3>2. SlotAt(q, i) = SlotAt(pg, i) /\ SlotAt(r, i) = SlotAt(pg, i)
        BY <1>11, <2>3, <3>1 DEF Shifted
      <3>3. PICK a \in Nat, m \in Nat \ {0} : a = SlotAt(pg, i).offset /\ m = SlotAt(pg, i).size
        BY GoodPlacing
      <3>4. a <= o /\ (o + n <= a \/ a + m <= o)
        BY <1>1, <1>3, <2>3, <3>3 DEF EndsBefore
      <3>5. a + m <= o /\ a + m <= PageSize
        BY <1>1, <3>3, <3>4, PageAssumption
      <3>6. \A b \in 0..PageSize - 1 : a <= b /\ b < a + m => r.data[b] = q.data[b]
        <4>1. ASSUME NEW b \in 0..PageSize - 1, b < a + m PROVE ~(to <= b /\ b < to + n)
          BY <1>7, <3>5, <4>1
        <4>2. QED
          BY <1>9, <4>1
      <3>7. QED
        BY <3>2, <3>3, <3>5, <3>6, HeldUntouched
    <2>4. QED
      BY <2>1, <2>2, <2>3
  <1>16. \A i \in Stored(pg) : Held(r, i) = Held(pg, i)
    BY <1>15 DEF Shifted
  <1>17. r \in PageType /\ r.firstFree = pg.firstFree /\ r.freeSpace = pg.freeSpace
            /\ Len(r.slots) = Len(pg.slots)
    BY <1>9 DEF Shifted
  <1>18. QED
    BY <1>11, <1>12, <1>14, <1>16, <1>17 DEF Shifted, r

(* Before the first turn nothing has moved. *)
LEMMA ShiftedNone ==
    ASSUME NEW pg, GoodPage(pg)
    PROVE  Shifted(pg, {}, [pg EXCEPT !.dataStart = PageSize])
  <1> DEFINE q == [pg EXCEPT !.dataStart = PageSize]
  <1>1. pg \in PageType /\ PageSize \in Nat
    BY PageAssumption DEF GoodPage
  <1>2. /\ q \in PageType /\ q.firstFree = pg.firstFree /\ q.freeSpace = pg.freeSpace
        /\ q.slots = pg.slots /\ q.data = pg.data /\ q.dataStart = PageSize
    BY <1>1 DEF PageType
  <1> HIDE DEF q
  <1>3. \A id : SlotAt(q, id) = SlotAt(pg, id) /\ Held(q, id) = Held(pg, id)
    BY <1>2 DEF SlotAt, Held
  <1>4. AreaOf(pg, {}) = {}
    BY DEF AreaOf
  <1>5. Cardinality({}) = 0
    BY FS_EmptySet
  <1>6. q.dataStart = PageSize - Cardinality(AreaOf(pg, {}))
    BY <1>1, <1>2, <1>4, <1>5
  <1>7. ASSUME NEW id \in 0..SlotCount(pg) - 1
        PROVE  SlotAt(q, id) = [SlotAt(pg, id) EXCEPT !.offset = SlotAt(q, id).offset]
    <2>1. SlotAt(pg, id) \in SlotType
      <3>1. pg.slots \in Seq(SlotType) /\ id + 1 \in DOMAIN pg.slots
        BY <1>1 DEF PageType, SlotCount
      <3>2. QED
        BY <3>1 DEF SlotAt
    <2>2. QED
      BY <1>3, <2>1 DEF SlotType
  <1>8. QED
    BY <1>2, <1>3, <1>6, <1>7 DEF Shifted, q

(* compactify moves all records. *)
LEMMA CompactifyShifts ==
    ASSUME NEW pg, GoodPage(pg)
    PROVE  Shifted(pg, Stored(pg), Compactify(pg))
  <1> DEFINE S == Stored(pg)
             At(i) == SlotAt(pg, i).offset
             Upper(s) == \A i \in s, j \in S \ s : At(j) <= At(i)
  <1>1. pg \in PageType
    BY DEF GoodPage
  <1>20. PICK f : Stages(pg, f)
    BY <1>1, CompactifySteps
  <1>2.          /\ Compactify(pg) = f[Stored(pg)]
                 /\ f[{}] = [pg EXCEPT !.dataStart = PageSize]
                 /\ \A s \in SUBSET Stored(pg) : s # {} =>
                       \E id \in s : /\ \A j \in s : SlotAt(pg, id).offset <= SlotAt(pg, j).offset
                                     /\ f[s] = Moved(id, f[s \ {id}])
    BY <1>20 DEF Stages
  <1> DEFINE Bad == {k \in Nat : \E s \in SUBSET S : /\ Cardinality(s) = k /\ Upper(s)
                                                     /\ ~Shifted(pg, s, f[s])}
  <1>3. ASSUME NEW s \in SUBSET S PROVE IsFiniteSet(s) /\ Cardinality(s) \in Nat
    BY <1>1, StoredFinite, FS_Subset, FS_CardinalityType
  <1>4. Bad = {}
    <2>1. SUFFICES ASSUME Bad # {} PROVE FALSE
      OBVIOUS
    <2>2. PICK k \in Bad : \A i \in Bad : k <= i
      BY <2>1, NatMinimum
    <2>3. PICK s \in SUBSET S : Cardinality(s) = k /\ Upper(s) /\ ~Shifted(pg, s, f[s])
      BY <2>2
    <2>4. s # {}
      <3>1. Shifted(pg, {}, f[{}])
        BY <1>2, ShiftedNone, Zenon
      <3>2. QED
        BY <2>3, <3>1
    <2>5. PICK x \in s : (\A j \in s : At(x) <= At(j)) /\ f[s] = Moved(x, f[s \ {x}])
      BY <1>2, <2>4
    <2> DEFINE ids == s \ {x}
    <2>6. ids \in SUBSET S /\ x \in S \ ids /\ ids \cup {x} = s
      BY <2>3
    <2>7. \A i \in ids : At(x) <= At(i)
      BY <2>5
    <2>8. \A j \in S \ ids : At(j) <= At(x)
      <3>1. At(x) \in Nat
        BY <2>6, GoodPlacing
      <3>2. QED
        BY <2>3, <2>5, <3>1
    <2>9. Upper(ids)
      BY <2>3, <2>5
    <2>10. Cardinality(ids) \in Nat /\ Cardinality(ids) = k - 1
      <3>1. IsFiniteSet(s) /\ Cardinality(ids) \in Nat
        BY <1>3, <2>6
      <3>2. QED
        BY <2>3, <3>1, FS_RemoveElement
    <2>11. ~(k <= k - 1)
      BY <2>2
    <2>12. Shifted(pg, ids, f[ids])
      BY <2>2, <2>6, <2>9, <2>10, <2>11
    <2> HIDE DEF ids
    <2>13. Shifted(pg, ids \cup {x}, Moved(x, f[ids]))
      BY <2>6, <2>7, <2>8, <2>12, ShiftStep
    <2>14. QED
      BY <2>3, <2>5, <2>6, <2>13 DEF ids
  <1>5. Upper(S)
    OBVIOUS
  <1>6. Cardinality(S) \in Nat
    BY <1>3
  <1>7. QED
    BY <1>2, <1>4, <1>5, <1>6

(* Records of the same sizes fill the same number of bytes, wherever they are. *)
LEMMA SameSizesSameBytes ==
    ASSUME NEW p, Laid(p), NEW q, Laid(q), Stored(q) = Stored(p),
           \A i \in Stored(p) : SlotAt(q, i).size = SlotAt(p, i).size
    PROVE  Cardinality(Used(q)) = Cardinality(Used(p))
  <1> DEFINE S == Stored(p)
             Differ(s) == Cardinality(AreaOf(q, s)) # Cardinality(AreaOf(p, s))
             Bad == {k \in Nat : \E s \in SUBSET S : Cardinality(s) = k /\ Differ(s)}
  <1>1. ASSUME NEW s \in SUBSET S PROVE IsFiniteSet(s) /\ Cardinality(s) \in Nat
    BY StoredFinite, FS_Subset, FS_CardinalityType DEF Laid
  <1>2. Bad = {}
    <2>1. SUFFICES ASSUME Bad # {} PROVE FALSE
      OBVIOUS
    <2>2. PICK k \in Bad : \A i \in Bad : k <= i
      BY <2>1, NatMinimum
    <2>3. PICK s \in SUBSET S : Cardinality(s) = k /\ Differ(s)
      BY <2>2
    <2>4. s # {}
      BY <2>3 DEF AreaOf
    <2>5. PICK x \in s : TRUE
      BY <2>4
    <2> DEFINE ids == s \ {x}
    <2>6. ids \in SUBSET S /\ x \in S \ ids /\ ids \cup {x} = s
      BY <2>3
    <2>7. Cardinality(ids) \in Nat /\ Cardinality(ids) = k - 1
      <3>1. IsFiniteSet(s) /\ Cardinality(ids) \in Nat
        BY <1>1, <2>6
      <3>2. QED
        BY <2>3, <3>1, FS_RemoveElement
    <2>8. ~(k <= k - 1)
      BY <2>2
    <2>9. ~Differ(ids)
      BY <2>2, <2>6, <2>7, <2>8
    <2> HIDE DEF ids
    <2>10. Cardinality(AreaOf(p, s)) = Cardinality(AreaOf(p, ids)) + SlotAt(p, x).size
      BY <2>6, AreaOfAdded
    <2>11. Cardinality(AreaOf(q, s)) = Cardinality(AreaOf(q, ids)) + SlotAt(q, x).size
      BY <2>6, AreaOfAdded
    <2>12. QED
      BY <2>3, <2>6, <2>9, <2>10, <2>11
  <1>3. ~Differ(S)
    BY <1>1, <1>2
  <1>4. AreaOf(p, S) = Used(p) /\ AreaOf(q, S) = Used(q)
    BY DEF AreaOf, Used
  <1>5. QED
    BY <1>3, <1>4

(* What compactify does to a page: only offsets change, and all free space is in one piece. *)
LEMMA CompactifyKeeps ==
    ASSUME NEW pg, GoodPage(pg)
    PROVE  LET q == Compactify(pg)
           IN  /\ GoodPage(q) /\ ContinuousFreeSpace(q) = q.freeSpace
               /\ q.firstFree = pg.firstFree /\ q.freeSpace = pg.freeSpace
               /\ SlotCount(q) = SlotCount(pg)
               /\ \A id \in 0..SlotCount(pg) - 1 : Kept(pg, q, id)
  <1> DEFINE q == Compactify(pg)
  <1>1. Shifted(pg, Stored(pg), q)
    BY CompactifyShifts
  <1> HIDE DEF q
  <1>2. pg \in PageType /\ q \in PageType /\ SlotCount(q) = SlotCount(pg)
        /\ q.firstFree = pg.firstFree /\ q.freeSpace = pg.freeSpace
    BY <1>1 DEF Shifted, GoodPage, SlotCount
  <1>3. ASSUME NEW id \in 0..SlotCount(pg) - 1
        PROVE  /\ SlotAt(q, id).kind = SlotAt(pg, id).kind /\ SlotAt(q, id).size = SlotAt(pg, id).size
               /\ SlotAt(q, id).tid = SlotAt(pg, id).tid
    <2>1. SlotAt(q, id) = [SlotAt(pg, id) EXCEPT !.offset = SlotAt(q, id).offset]
      BY <1>1 DEF Shifted
    <2>2. SlotAt(pg, id) \in SlotType
      <3>1. pg.slots \in Seq(SlotType) /\ id + 1 \in DOMAIN pg.slots
        BY <1>2 DEF PageType, SlotCount
      <3>2. QED
        BY <3>1 DEF SlotAt
    <2> DEFINE o == SlotAt(q, id).offset
    <2> HIDE DEF o
    <2>3. SlotAt(q, id) = [SlotAt(pg, id) EXCEPT !.offset = o]
      BY <2>1 DEF o
    <2>4. QED
      BY <2>2, <2>3 DEF SlotType
  <1>4. Stored(q) = Stored(pg)
    BY <1>2, <1>3 DEF Stored
  <1>5. \A id \in 0..SlotCount(pg) - 1 : Kept(pg, q, id)
    BY <1>1, <1>3 DEF Kept, Shifted
  <1>6. Cardinality(Used(pg)) \in Nat /\ q.dataStart = PageSize - Cardinality(Used(pg))
    <2>1. AreaOf(pg, Stored(pg)) = Used(pg)
      BY DEF AreaOf, Used
    <2>2. IsFiniteSet(AreaOf(pg, Stored(pg)))
      <3>1. AreaOf(pg, Stored(pg)) \subseteq pg.dataStart..PageSize - 1
        BY DEF GoodPage, SoundPage, RecordsApart, AreaOf
      <3>2. pg.dataStart \in Int /\ PageSize - 1 \in Int
        BY <1>2, PageAssumption DEF PageType
      <3>3. IsFiniteSet(pg.dataStart..PageSize - 1)
        BY <3>2, FS_Interval
      <3>4. QED
        BY <3>1, <3>3, FS_Subset
    <2>3. QED
      BY <1>1, <2>1, <2>2, FS_CardinalityType DEF Shifted
  <1>7. SlotsEnd(q) = SlotsEnd(pg) /\ SlotsEnd(pg) \in Nat
    <2>1. SlotCount(pg) \in Nat
      BY <1>2 DEF PageType, SlotCount
    <2>2. QED
      BY <1>2, <2>1, PageAssumption DEF SlotsEnd
  <1>8. q.freeSpace = PageSize - SlotsEnd(pg) - Cardinality(Used(pg)) /\ q.freeSpace \in Nat
    BY <1>2 DEF GoodPage, SoundPage, FreeSpaceIsExact, PageType
  <1>9. ContinuousFreeSpace(q) = q.freeSpace /\ SlotsEnd(q) <= q.dataStart
    BY <1>6, <1>7, <1>8, PageAssumption DEF ContinuousFreeSpace
  <1>10. \A id \in Stored(q) : SlotAt(q, id).size > 0
    <2>1. ASSUME NEW id \in Stored(q) PROVE SlotAt(q, id).size > 0
      <3>1. id \in Stored(pg) /\ id \in 0..SlotCount(pg) - 1
        BY <1>4, <2>1 DEF Stored
      <3>2. QED
        BY <1>3, <3>1 DEF GoodPage
    <2>2. QED
      BY <2>1
  <1>11. Placing(q)
    BY <1>1, <1>4 DEF Shifted, Placing
  <1>12. RecordsApart(q)
    BY <1>2, <1>9, <1>10, <1>11, ApartIffPlacing
  <1>13. FreeSpaceIsExact(q)
    <2>1. Laid(pg) /\ Laid(q)
      BY <1>2, <1>10, <1>12 DEF GoodPage, SoundPage, Laid
    <2>2. Cardinality(Used(q)) = Cardinality(Used(pg))
      <3>1. \A id \in Stored(pg) : SlotAt(q, id).size = SlotAt(pg, id).size
        BY <1>3 DEF Stored
      <3>2. QED
        BY <1>4, <2>1, <3>1, SameSizesSameBytes
    <2>3. QED
      BY <1>2, <1>7, <1>8, <2>2 DEF FreeSpaceIsExact
  <1>14. q.dataStart <= PageSize
    BY <1>6, PageAssumption
  <1>15. QED
    BY <1>2, <1>5, <1>9, <1>10, <1>12, <1>13, <1>14 DEF GoodPage, SoundPage, q

------------------------------------------------------------------------------
(* A step of a page keeps all slots but some. *)

(* Page q is page p after a change to the slots of S: all others are kept. *)
PageStep(p, q, S) ==
    /\ GoodPage(q)
    /\ \A i : i \notin S => (Taken(q, i) <=> Taken(p, i))
    /\ \A i : i \notin S /\ Taken(p, i) => Kept(p, q, i)

(* Two changes are one change to the slots of both. *)
LEMMA PageStepsCompose ==
    ASSUME NEW p, NEW q, NEW r, NEW S, NEW T, PageStep(p, q, S), PageStep(q, r, T)
    PROVE  PageStep(p, r, S \cup T)
  <1>1. GoodPage(r)
    BY DEF PageStep
  <1>2. ASSUME NEW i, i \notin S \cup T PROVE Taken(r, i) <=> Taken(p, i)
    BY <1>2 DEF PageStep
  <1>3. ASSUME NEW i, i \notin S \cup T, Taken(p, i) PROVE Kept(p, r, i)
    <2>1. Kept(p, q, i) /\ Taken(q, i) /\ Kept(q, r, i)
      BY <1>3 DEF PageStep
    <2>2. i \in Stored(p) => i \in Stored(q)
      BY <2>1 DEF Stored, Kept, Taken
    <2>3. QED
      BY <2>1, <2>2 DEF Kept
  <1>4. QED
    BY <1>1, <1>2, <1>3 DEF PageStep

(* The numbers of a page. *)
LEMMA PageNumbers ==
    ASSUME NEW pg, pg \in PageType
    PROVE  /\ SlotCount(pg) \in Nat /\ SlotsEnd(pg) \in Nat /\ pg.dataStart \in Nat
           /\ pg.freeSpace \in Nat /\ pg.firstFree \in Nat /\ PageSize \in Nat
           /\ ContinuousFreeSpace(pg) = pg.dataStart - SlotsEnd(pg)
           /\ DOMAIN pg.slots = 1..SlotCount(pg)
  <1>1. pg.slots \in Seq(SlotType) /\ pg.dataStart \in Nat /\ pg.freeSpace \in Nat /\ pg.firstFree \in Nat
    BY DEF PageType
  <1>2. SlotCount(pg) \in Nat /\ DOMAIN pg.slots = 1..SlotCount(pg)
    BY <1>1 DEF SlotCount
  <1>3. SlotsEnd(pg) \in Nat
    BY <1>2, PageAssumption DEF SlotsEnd
  <1>4. QED
    BY <1>1, <1>2, <1>3, PageAssumption DEF ContinuousFreeSpace

(* A slot of the directory. *)
LEMMA SlotTyped ==
    ASSUME NEW pg, pg \in PageType, NEW i \in 0..SlotCount(pg) - 1
    PROVE  /\ SlotAt(pg, i) \in SlotType /\ i \in Nat /\ i + 1 \in DOMAIN pg.slots
           /\ SlotAt(pg, i).size \in Nat /\ SlotAt(pg, i).offset \in Nat
  <1>1. i \in Nat /\ i + 1 \in DOMAIN pg.slots /\ pg.slots \in Seq(SlotType)
    BY PageNumbers DEF PageType
  <1>2. SlotAt(pg, i) \in SlotType
    BY <1>1 DEF SlotAt
  <1>3. QED
    BY <1>1, <1>2 DEF SlotType

(* A page has room for n bytes in one piece after WithRoom, if it has room at all. *)
LEMMA WithRoomKeeps ==
    ASSUME NEW pg, GoodPage(pg), NEW n \in Nat, n <= pg.freeSpace
    PROVE  LET q == WithRoom(pg, n)
           IN  /\ PageStep(pg, q, {}) /\ ContinuousFreeSpace(q) >= n
               /\ q.firstFree = pg.firstFree /\ q.freeSpace = pg.freeSpace
               /\ SlotCount(q) = SlotCount(pg)
               /\ \A i \in 0..SlotCount(pg) - 1 :
                     SlotAt(q, i).kind = SlotAt(pg, i).kind /\ SlotAt(q, i).size = SlotAt(pg, i).size
  <1>1. ContinuousFreeSpace(pg) \in Int /\ pg.freeSpace \in Nat
    BY PageNumbers DEF GoodPage
  <1>2. CASE ContinuousFreeSpace(pg) < n
    <2> DEFINE q == Compactify(pg)
    <2>1. /\ GoodPage(q) /\ ContinuousFreeSpace(q) = q.freeSpace
          /\ q.firstFree = pg.firstFree /\ q.freeSpace = pg.freeSpace
          /\ SlotCount(q) = SlotCount(pg)
          /\ \A id \in 0..SlotCount(pg) - 1 : Kept(pg, q, id)
      BY CompactifyKeeps
    <2> HIDE DEF q
    <2>2. WithRoom(pg, n) = q
      BY <1>2 DEF WithRoom, q
    <2>3. PageStep(pg, q, {})
      BY <2>1 DEF PageStep, Taken, IsEmpty, Kept
    <2>4. QED
      BY <1>1, <2>1, <2>2, <2>3 DEF Kept
  <1>3. CASE ~(ContinuousFreeSpace(pg) < n)
    <2>1. WithRoom(pg, n) = pg
      BY <1>3 DEF WithRoom
    <2>2. PageStep(pg, pg, {})
      BY DEF PageStep, Kept
    <2>3. QED
      BY <1>1, <1>3, <2>1, <2>2
  <1>4. QED
    BY <1>2, <1>3

(* The size of slot x, if it has data. *)
SizeIn(pg, x) == IF x \in Stored(pg) THEN SlotAt(pg, x).size ELSE 0

(* The bytes in use are those of slot x and those of the others. *)
LEMMA UsedSplits ==
    ASSUME NEW pg, Laid(pg), NEW x
    PROVE  /\ Cardinality(AreaOf(pg, Stored(pg) \ {x})) \in Nat /\ SizeIn(pg, x) \in Nat
           /\ Cardinality(Used(pg)) = Cardinality(AreaOf(pg, Stored(pg) \ {x})) + SizeIn(pg, x)
  <1>1. Used(pg) = AreaOf(pg, Stored(pg))
    BY DEF Used, AreaOf
  <1>2. CASE x \in Stored(pg)
    <2>1. (Stored(pg) \ {x}) \cup {x} = Stored(pg)
      BY <1>2
    <2>2. SlotAt(pg, x).size \in Nat
      BY <1>2, StoredFinite DEF Laid, SlotType
    <2> DEFINE ids == Stored(pg) \ {x}
    <2>3. ids \in SUBSET Stored(pg) /\ x \in Stored(pg) \ ids
      BY <1>2
    <2> HIDE DEF ids
    <2>4. /\ Cardinality(AreaOf(pg, ids)) \in Nat
          /\ Cardinality(AreaOf(pg, ids \cup {x})) = Cardinality(AreaOf(pg, ids)) + SlotAt(pg, x).size
      BY <2>3, AreaOfAdded
    <2>5. QED
      BY <1>1, <1>2, <2>1, <2>2, <2>4 DEF SizeIn, ids
  <1>3. CASE x \notin Stored(pg)
    <2>1. Stored(pg) \ {x} = Stored(pg)
      BY <1>3
    <2>2. Cardinality(AreaOf(pg, Stored(pg))) \in Nat
      <3>1. AreaOf(pg, Stored(pg)) \subseteq pg.dataStart..PageSize - 1
        BY DEF Laid, RecordsApart, AreaOf
      <3>2. pg.dataStart \in Int /\ PageSize - 1 \in Int
        BY PageNumbers DEF Laid
      <3>3. IsFiniteSet(pg.dataStart..PageSize - 1)
        BY <3>2, FS_Interval
      <3>4. QED
        BY <3>1, <3>3, FS_Subset, FS_CardinalityType
    <2>3. QED
      BY <1>1, <1>3, <2>1, <2>2 DEF SizeIn
  <1>4. QED
    BY <1>2, <1>3

(* The area of slot x is above data_start and clear of all other records. *)
FreshArea(q, x) ==
    LET s == SlotAt(q, x)
    IN  /\ s.size > 0 /\ q.dataStart <= s.offset /\ s.offset + s.size <= PageSize
        /\ \A j \in Stored(q) \ {x} : EndsBefore(s, SlotAt(q, j)) \/ EndsBefore(SlotAt(q, j), s)

(***************************************************************************)
(* A page stays good when one slot changes: all others are where they      *)
(* were, this one is clear of them, and free_space makes up for it and for *)
(* the directory.                                                          *)
(***************************************************************************)
LEMMA OneArea ==
    ASSUME NEW p, GoodPage(p), NEW q, q \in PageType, NEW x,
           Stored(q) \ {x} = Stored(p) \ {x},
           \A i \in Stored(p) \ {x} : /\ SlotAt(q, i).offset = SlotAt(p, i).offset
                                      /\ SlotAt(q, i).size = SlotAt(p, i).size
                                      /\ q.dataStart <= SlotAt(p, i).offset,
           SlotsEnd(q) <= q.dataStart, q.dataStart <= PageSize,
           x \in Stored(q) => FreshArea(q, x),
           q.freeSpace + SlotsEnd(q) + SizeIn(q, x) = p.freeSpace + SlotsEnd(p) + SizeIn(p, x)
    PROVE  GoodPage(q)
  <1>1. SlotsEnd(p) <= p.dataStart /\ Placing(p)
    BY GoodPlacing
  <1>2. ASSUME NEW i \in Stored(q) PROVE SlotAt(q, i).size > 0
    <2>1. CASE i = x
      BY <2>1 DEF FreshArea
    <2>2. CASE i # x
      <3>1. i \in Stored(p) \ {x}
        BY <2>2
      <3>2. QED
        BY <3>1 DEF GoodPage
    <2>3. QED
      BY <2>1, <2>2
  <1>3. ASSUME NEW i \in Stored(q)
        PROVE  /\ q.dataStart <= SlotAt(q, i).offset
               /\ SlotAt(q, i).offset + SlotAt(q, i).size <= PageSize
               /\ \A j \in Stored(q) \ {i} :
                     EndsBefore(SlotAt(q, i), SlotAt(q, j)) \/ EndsBefore(SlotAt(q, j), SlotAt(q, i))
    <2>1. CASE i = x
      BY <2>1 DEF FreshArea
    <2>2. CASE i # x
      <3>1. i \in Stored(p) \ {x}
        BY <2>2
      <3>2. q.dataStart <= SlotAt(q, i).offset /\ SlotAt(q, i).offset + SlotAt(q, i).size <= PageSize
        BY <1>1, <3>1 DEF Placing
      <3>3. ASSUME NEW j \in Stored(q) \ {i}
            PROVE  EndsBefore(SlotAt(q, i), SlotAt(q, j)) \/ EndsBefore(SlotAt(q, j), SlotAt(q, i))
        <4>1. CASE j = x
          BY <2>2, <4>1 DEF FreshArea
        <4>2. CASE j # x
          <5>1. j \in Stored(p) \ {i}
            BY <4>2
          <5>2. EndsBefore(SlotAt(p, i), SlotAt(p, j)) \/ EndsBefore(SlotAt(p, j), SlotAt(p, i))
            BY <1>1, <3>1, <5>1 DEF Placing
          <5>3. QED
            BY <3>1, <4>2, <5>1, <5>2 DEF EndsBefore
        <4>3. QED
          BY <4>1, <4>2
      <3>4. QED
        BY <3>2, <3>3
    <2>3. QED
      BY <2>1, <2>2
  <1>4. Placing(q)
    BY <1>3 DEF Placing
  <1>5. RecordsApart(q)
    BY <1>2, <1>4, ApartIffPlacing
  <1>6. Laid(p) /\ Laid(q)
    BY <1>2, <1>5 DEF Laid, GoodPage, SoundPage
  <1>7. AreaOf(q, Stored(q) \ {x}) = AreaOf(p, Stored(p) \ {x})
    <2>1. \A i \in Stored(p) \ {x} : Area(SlotAt(q, i)) = Area(SlotAt(p, i))
      BY DEF Area
    <2>2. QED
      BY <2>1 DEF AreaOf
  <1>8. PICK c \in Nat : c = Cardinality(AreaOf(p, Stored(p) \ {x}))
    BY <1>6, UsedSplits
  <1>9. Cardinality(Used(q)) = c + SizeIn(q, x) /\ SizeIn(q, x) \in Nat
    BY <1>6, <1>7, <1>8, UsedSplits
  <1>10. Cardinality(Used(p)) = c + SizeIn(p, x) /\ SizeIn(p, x) \in Nat
    BY <1>6, <1>8, UsedSplits
  <1>11. p.freeSpace = PageSize - SlotsEnd(p) - Cardinality(Used(p))
    BY DEF GoodPage, SoundPage, FreeSpaceIsExact
  <1>12. q.freeSpace = PageSize - SlotsEnd(q) - Cardinality(Used(q))
    <2>1. q.freeSpace \in Nat /\ SlotsEnd(q) \in Nat /\ PageSize \in Nat
      BY PageNumbers
    <2>2. p.freeSpace \in Nat /\ SlotsEnd(p) \in Nat
      BY <1>6, PageNumbers DEF Laid
    <2>3. QED
      BY <1>9, <1>10, <1>11, <2>1, <2>2
  <1>13. QED
    BY <1>2, <1>5, <1>12 DEF GoodPage, SoundPage, FreeSpaceIsExact

------------------------------------------------------------------------------
(* The parts of the methods of a page. *)

(* Page q has slot s in place x, and all other slots of p. *)
SlotSet(p, q, x, s) ==
    /\ SlotCount(q) = SlotCount(p) /\ SlotAt(q, x) = s
    /\ \A i \in 0..SlotCount(p) - 1 : i # x => SlotAt(q, i) = SlotAt(p, i)

(* An assignment to a slot. *)
Assigned(p, q, x, s) == q.slots = [p.slots EXCEPT ![x + 1] = s]

(* The directory after an assignment to a slot. *)
LEMMA SlotAssigned ==
    ASSUME NEW p, p \in PageType, NEW x \in 0..SlotCount(p) - 1, NEW s \in SlotType,
           NEW q, Assigned(p, q, x, s)
    PROVE  q.slots \in Seq(SlotType) /\ SlotSet(p, q, x, s)
  <1>0. q.slots = [p.slots EXCEPT ![x + 1] = s]
    BY DEF Assigned
  <1>1. p.slots \in Seq(SlotType) /\ x \in Nat /\ x + 1 \in DOMAIN p.slots
    BY SlotTyped DEF PageType
  <1>2. q.slots \in Seq(SlotType) /\ Len(q.slots) = Len(p.slots) /\ q.slots[x + 1] = s
    BY <1>0, <1>1
  <1>3. ASSUME NEW i \in 0..SlotCount(p) - 1, i # x PROVE SlotAt(q, i) = SlotAt(p, i)
    <2>1. i \in Nat /\ i + 1 \in DOMAIN p.slots
      BY SlotTyped
    <2>2. i + 1 # x + 1
      BY <1>1, <1>3, <2>1
    <2>3. QED
      BY <1>0, <1>1, <2>1, <2>2 DEF SlotAt
  <1>4. QED
    BY <1>2, <1>3 DEF SlotSet, SlotCount, SlotAt

(* The stored records but for that of the slot are the same, and so is the end of the directory. *)
LEMMA SlotSetStored ==
    ASSUME NEW p, p \in PageType, NEW q, NEW x \in 0..SlotCount(p) - 1, NEW s, SlotSet(p, q, x, s)
    PROVE  /\ Stored(q) \ {x} = Stored(p) \ {x} /\ SlotsEnd(q) = SlotsEnd(p)
           /\ x \in Stored(q) <=> s.kind \in {"record", "target"}
           /\ \A i \in Stored(p) \ {x} : SlotAt(q, i) = SlotAt(p, i)
  BY DEF SlotSet, Stored, SlotsEnd

(* A change of one slot that leaves the bytes of the others is a page step. *)
LEMMA PageStepOfSlot ==
    ASSUME NEW p, p \in PageType, NEW q, GoodPage(q), NEW x \in 0..SlotCount(p) - 1, NEW s, SlotSet(p, q, x, s),
           \A i \in Stored(p) \ {x} : Held(q, i) = Held(p, i)
    PROVE  PageStep(p, q, {x})
  <1>1. \A i : i # x => (Taken(q, i) <=> Taken(p, i))
    BY DEF Taken, SlotSet, IsEmpty
  <1>2. \A i : i # x /\ Taken(p, i) => Kept(p, q, i)
    BY DEF Taken, SlotSet, Kept
  <1>3. QED
    BY <1>1, <1>2 DEF PageStep

(* memcpy of m bytes to offset at. *)
CopiedTo(data, at, m, bytes, copy) ==
    /\ copy \in [0..PageSize - 1 -> Content]
    /\ \A b \in 0..PageSize - 1 :
          copy[b] = IF at <= b /\ b < at + m THEN bytes[b - at + 1] ELSE data[b]

(* The bytes of a page after memcpy. *)
LEMMA CopiedBytes ==
    ASSUME NEW data \in [0..PageSize - 1 -> Content], NEW at \in Nat, NEW m \in Nat,
           NEW bytes \in [1..m -> Content]
    PROVE  CopiedTo(data, at, m, bytes, Copied(data, at, bytes))
  <1> DEFINE copy == Copied(data, at, bytes)
  <1>1. Len(bytes) = m
    OBVIOUS
  <1>2. DOMAIN data = 0..PageSize - 1
    OBVIOUS
  <1>3. copy = [b \in 0..PageSize - 1 |-> IF b \in at..(at + m - 1) THEN bytes[b - at + 1] ELSE data[b]]
    BY <1>1, <1>2 DEF Copied
  <1> HIDE DEF copy
  <1>4. ASSUME NEW b \in 0..PageSize - 1
        PROVE  /\ (IF b \in at..(at + m - 1) THEN bytes[b - at + 1] ELSE data[b]) \in Content
               /\ copy[b] = IF at <= b /\ b < at + m THEN bytes[b - at + 1] ELSE data[b]
    <2>1. b \in Int
      BY PageAssumption
    <2>2. b \in at..(at + m - 1) <=> at <= b /\ b < at + m
      BY <2>1
    <2>3. b \in at..(at + m - 1) => b - at + 1 \in 1..m
      BY <2>1
    <2>4. bytes[b - at + 1] \in Content \/ b \notin at..(at + m - 1)
      BY <2>3
    <2>5. data[b] \in Content
      OBVIOUS
    <2>6. QED
      BY <1>3, <2>2, <2>4, <2>5
  <1>5. copy \in [0..PageSize - 1 -> Content]
    BY <1>3, <1>4
  <1>6. QED
    BY <1>4, <1>5 DEF CopiedTo, copy

(* The slots of relocate, allocate and erase are slots. *)
LEMMA SlotKinds ==
    ASSUME NEW o \in Nat, NEW n \in Nat
    PROVE  EmptySlot \in SlotType /\ RecordSlot(o, n) \in SlotType
  BY DEF EmptySlot, RecordSlot, SlotType

(* The data of a slot is given up. *)
VacatedFrom(pg, q, x) ==
    /\ PageStep(pg, q, {x}) /\ SlotSet(pg, q, x, EmptySlot)
    /\ q.data = pg.data /\ q.firstFree = pg.firstFree
    /\ q.freeSpace = pg.freeSpace + SizeIn(pg, x)

(* A record that is given up leaves its bytes to the free space. *)
LEMMA VacatedKeeps ==
    ASSUME NEW pg, GoodPage(pg), NEW x \in Stored(pg)
    PROVE  VacatedFrom(pg, Vacated(pg, x), x)
  <1> DEFINE q == Vacated(pg, x)
  <1>1. pg \in PageType /\ x \in 0..SlotCount(pg) - 1
    BY DEF GoodPage, Stored
  <1>2. PICK o \in Nat, n \in Nat \ {0} : o = SlotAt(pg, x).offset /\ n = SlotAt(pg, x).size
    BY GoodPlacing
  <1>3. pg.dataStart <= o /\ o + n <= PageSize /\ SlotsEnd(pg) <= pg.dataStart
    BY <1>2, GoodPlacing DEF Placing
  <1> DEFINE start == IF o = pg.dataStart THEN pg.dataStart + n ELSE pg.dataStart
  <1>4. q = [pg EXCEPT !.freeSpace = @ + n, !.dataStart = start, !.slots[x + 1] = EmptySlot]
    BY <1>2 DEF Vacated
  <1>5. start \in Nat /\ pg.dataStart <= start /\ pg.freeSpace + n \in Nat
    BY <1>1, PageNumbers
  <1> HIDE DEF start, q
  <1>6. /\ q.slots = [pg.slots EXCEPT ![x + 1] = EmptySlot] /\ q.data = pg.data
        /\ q.firstFree = pg.firstFree /\ q.freeSpace = pg.freeSpace + n /\ q.dataStart = start
    BY <1>1, <1>4 DEF PageType
  <1>7. q.slots \in Seq(SlotType) /\ SlotSet(pg, q, x, EmptySlot)
    BY <1>1, <1>6, SlotAssigned, SlotKinds DEF Assigned
  <1>8. q \in PageType
    <2>1. q = [pg EXCEPT !.freeSpace = q.freeSpace, !.dataStart = start, !.slots = q.slots]
      BY <1>1, <1>4 DEF PageType, q
    <2>2. QED
      BY <1>1, <1>5, <1>6, <1>7, <2>1 DEF PageType
  <1>9. /\ Stored(q) \ {x} = Stored(pg) \ {x} /\ SlotsEnd(q) = SlotsEnd(pg) /\ x \notin Stored(q)
        /\ \A i \in Stored(pg) \ {x} : SlotAt(q, i) = SlotAt(pg, i)
    <2>1. EmptySlot.kind \notin {"record", "target"}
      BY DEF EmptySlot
    <2>2. QED
      BY <1>1, <1>7, <2>1, SlotSetStored
  <1>10. ASSUME NEW i \in Stored(pg) \ {x} PROVE q.dataStart <= SlotAt(pg, i).offset
    <2>1. PICK a \in Nat, m \in Nat \ {0} : a = SlotAt(pg, i).offset /\ m = SlotAt(pg, i).size
      BY GoodPlacing
    <2>2. pg.dataStart <= a /\ (o + n <= a \/ a + m <= o)
      BY <1>2, <2>1, GoodPlacing DEF Placing, EndsBefore
    <2>3. pg.dataStart \in Nat
      BY <1>1, PageNumbers
    <2>4. QED
      BY <1>6, <2>1, <2>2, <2>3 DEF start
  <1>11. SizeIn(pg, x) = n /\ SizeIn(q, x) = 0
    BY <1>2, <1>9 DEF SizeIn
  <1>12. GoodPage(q)
    <2>1. SlotsEnd(q) <= q.dataStart /\ q.dataStart <= PageSize
      <3>1. pg.dataStart <= PageSize /\ pg.dataStart \in Nat /\ SlotsEnd(pg) \in Nat
        BY <1>1, PageNumbers DEF GoodPage
      <3>2. start <= PageSize
        BY <1>3, <3>1 DEF start
      <3>3. QED
        BY <1>3, <1>5, <1>6, <1>9, <3>1, <3>2
    <2>2. q.freeSpace + SlotsEnd(q) + SizeIn(q, x) = pg.freeSpace + SlotsEnd(pg) + SizeIn(pg, x)
      BY <1>1, <1>6, <1>9, <1>11, PageNumbers
    <2>3. QED
      BY <1>8, <1>9, <1>10, <2>1, <2>2, OneArea
  <1>13. ASSUME NEW i \in Stored(pg) \ {x} PROVE Held(q, i) = Held(pg, i)
    BY <1>6, <1>9 DEF Held
  <1>14. PageStep(pg, q, {x})
    BY <1>1, <1>7, <1>12, <1>13, PageStepOfSlot
  <1>15. QED
    BY <1>6, <1>7, <1>11, <1>14 DEF VacatedFrom, q

(* A slot without data is given n bytes of zeros. *)
PlacedIn(pg, q, x, n) ==
    /\ PageStep(pg, q, {x}) /\ SlotSet(pg, q, x, RecordSlot(q.dataStart, n)) /\ x \in Stored(q)
    /\ q.firstFree = pg.firstFree /\ q.freeSpace = pg.freeSpace - n
    /\ Held(q, x) = ZeroBytes(n)

(* A record that is placed below data_start, where there is room for it, overlaps no other. *)
LEMMA PlacedKeeps ==
    ASSUME NEW pg, GoodPage(pg), NEW x \in 0..SlotCount(pg) - 1, x \notin Stored(pg),
           NEW n \in Nat \ {0}, n <= pg.freeSpace, ContinuousFreeSpace(pg) >= n
    PROVE  PlacedIn(pg, Placed([pg EXCEPT !.freeSpace = @ - n], x, n), x, n)
  <1> DEFINE q == Placed([pg EXCEPT !.freeSpace = @ - n], x, n)
  <1>1. pg \in PageType
    BY DEF GoodPage
  <1>2. PICK to \in Nat : to = pg.dataStart - n /\ SlotsEnd(pg) <= to /\ to + n = pg.dataStart
                          /\ to + n <= PageSize
    <2>1. /\ pg.dataStart \in Nat /\ SlotsEnd(pg) \in Nat /\ PageSize \in Nat
          /\ pg.dataStart - SlotsEnd(pg) >= n
      BY <1>1, PageNumbers
    <2>2. pg.dataStart <= PageSize
      BY DEF GoodPage
    <2>3. PICK d \in Nat, e \in Nat : d = pg.dataStart /\ e = SlotsEnd(pg)
      BY <2>1
    <2>4. d - n \in Nat /\ e <= d - n /\ (d - n) + n = d /\ d <= PageSize
      BY <2>1, <2>2, <2>3
    <2>5. QED
      BY <2>3, <2>4
  <1> DEFINE zeros == ZeroBytes(n)
  <1>3. zeros \in [1..n -> Content]
    BY PageAssumption DEF ZeroBytes, Content
  <1>4. q = [pg EXCEPT !.freeSpace = @ - n, !.dataStart = to, !.slots[x + 1] = RecordSlot(to, n),
                       !.data = Copied(@, to, zeros)]
    BY <1>1, <1>2 DEF Placed, PageType
  <1>5. pg.freeSpace - n \in Nat
    BY <1>1, PageNumbers
  <1> HIDE DEF q, zeros
  <1>6. /\ q.slots = [pg.slots EXCEPT ![x + 1] = RecordSlot(to, n)] /\ q.data = Copied(pg.data, to, zeros)
        /\ q.firstFree = pg.firstFree /\ q.freeSpace = pg.freeSpace - n /\ q.dataStart = to
    BY <1>1, <1>4 DEF PageType
  <1>7. q.slots \in Seq(SlotType) /\ SlotSet(pg, q, x, RecordSlot(to, n))
    BY <1>1, <1>6, SlotAssigned, SlotKinds DEF Assigned
  <1>8. pg.data \in [0..PageSize - 1 -> Content]
    BY <1>1 DEF PageType
  <1>9. CopiedTo(pg.data, to, n, zeros, q.data)
    BY <1>3, <1>6, <1>8, CopiedBytes
  <1>10. q \in PageType
    <2>1. q = [pg EXCEPT !.freeSpace = q.freeSpace, !.dataStart = to, !.slots = q.slots, !.data = q.data]
      BY <1>1, <1>4 DEF PageType, q
    <2>2. q.data \in [0..PageSize - 1 -> Content]
      BY <1>9 DEF CopiedTo
    <2>3. QED
      BY <1>1, <1>5, <1>6, <1>7, <2>1, <2>2 DEF PageType
  <1>11. /\ Stored(q) \ {x} = Stored(pg) \ {x} /\ SlotsEnd(q) = SlotsEnd(pg) /\ x \in Stored(q)
         /\ \A i \in Stored(pg) \ {x} : SlotAt(q, i) = SlotAt(pg, i)
    <2>1. RecordSlot(to, n).kind = "record"
      BY DEF RecordSlot
    <2>2. QED
      BY <1>1, <1>7, <2>1, SlotSetStored
  <1>12. SlotAt(q, x).offset = to /\ SlotAt(q, x).size = n
    BY <1>7 DEF SlotSet, RecordSlot
  <1>13. ASSUME NEW i \in Stored(pg) \ {x}
         PROVE  \E a \in Nat, m \in Nat \ {0} :
                   a = SlotAt(pg, i).offset /\ m = SlotAt(pg, i).size /\ to + n <= a /\ a + m <= PageSize
    BY <1>2, GoodPlacing DEF Placing
  <1>14. FreshArea(q, x)
    <2>1. ASSUME NEW j \in Stored(q) \ {x} PROVE EndsBefore(SlotAt(q, x), SlotAt(q, j))
      <3>1. SlotAt(q, j) = SlotAt(pg, j) /\ j \in Stored(pg) \ {x}
        BY <1>11
      <3>2. to + n <= SlotAt(pg, j).offset
        BY <1>13, <3>1
      <3>3. QED
        BY <1>12, <3>1, <3>2 DEF EndsBefore
    <2>2. QED
      BY <1>2, <1>6, <1>12, <2>1 DEF FreshArea
  <1>15. GoodPage(q)
    <2>1. SizeIn(pg, x) = 0 /\ SizeIn(q, x) = n
      BY <1>11, <1>12 DEF SizeIn
    <2>2. q.freeSpace + SlotsEnd(q) + SizeIn(q, x) = pg.freeSpace + SlotsEnd(pg) + SizeIn(pg, x)
      BY <1>1, <1>6, <1>11, <2>1, PageNumbers
    <2>3. ASSUME NEW i \in Stored(pg) \ {x} PROVE q.dataStart <= SlotAt(pg, i).offset
      BY <1>6, <1>13
    <2>4. SlotsEnd(q) <= q.dataStart /\ q.dataStart <= PageSize
      BY <1>1, <1>2, <1>6, <1>11, PageNumbers
    <2>5. QED
      BY <1>10, <1>11, <1>14, <2>2, <2>3, <2>4, OneArea
  <1>16. ASSUME NEW i \in Stored(pg) \ {x} PROVE Held(q, i) = Held(pg, i)
    <2>1. PICK a \in Nat, m \in Nat \ {0} :
             a = SlotAt(pg, i).offset /\ m = SlotAt(pg, i).size /\ to + n <= a /\ a + m <= PageSize
      BY <1>13
    <2>2. \A b \in 0..PageSize - 1 : a <= b /\ b < a + m => q.data[b] = pg.data[b]
      <3>1. ASSUME NEW b \in 0..PageSize - 1, a <= b PROVE ~(to <= b /\ b < to + n)
        BY <1>2, <2>1, <3>1
      <3>2. QED
        BY <1>9, <3>1 DEF CopiedTo
    <2>3. SlotAt(q, i) = SlotAt(pg, i)
      BY <1>11
    <2>4. QED
      BY <2>1, <2>2, <2>3, HeldUntouched
  <1>17. Held(q, x) = ZeroBytes(n)
    <2>1. Held(q, x) = [k \in 1..n |-> q.data[to + k - 1]]
      BY <1>12 DEF Held, BytesAt
    <2>2. ASSUME NEW k \in 1..n PROVE q.data[to + k - 1] = ZeroByte
      <3>1. /\ to + k - 1 \in 0..PageSize - 1 /\ to <= to + k - 1 /\ to + k - 1 < to + n
            /\ to + k - 1 - to + 1 = k
        <4>1. PICK e \in Nat : e = k /\ 1 <= e /\ e <= n
          OBVIOUS
        <4>2. to + e <= PageSize /\ PageSize \in Nat
          BY <1>2, <4>1, PageAssumption
        <4>3. QED
          BY <1>2, <4>1, <4>2
      <3>2. q.data[to + k - 1] = zeros[k]
        BY <1>9, <3>1 DEF CopiedTo
      <3>3. QED
        BY <3>2 DEF zeros, ZeroBytes
    <2>3. QED
      BY <2>1, <2>2 DEF ZeroBytes
  <1>18. PageStep(pg, q, {x})
    BY <1>1, <1>7, <1>15, <1>16, PageStepOfSlot
  <1>19. QED
    BY <1>6, <1>7, <1>11, <1>17, <1>18 DEF PlacedIn, q

(* Slots and numbers of a page alone make it good. *)
LEMMA SameLayout ==
    ASSUME NEW pg, GoodPage(pg), NEW q, q \in PageType, q.slots = pg.slots, q.dataStart = pg.dataStart,
           q.freeSpace = pg.freeSpace
    PROVE  /\ GoodPage(q) /\ Stored(q) = Stored(pg) /\ SlotCount(q) = SlotCount(pg)
           /\ \A i : SlotAt(q, i) = SlotAt(pg, i) /\ (Taken(q, i) <=> Taken(pg, i))
  <1>1. SlotCount(q) = SlotCount(pg) /\ SlotsEnd(q) = SlotsEnd(pg)
    BY DEF SlotCount, SlotsEnd
  <1>2. \A i : SlotAt(q, i) = SlotAt(pg, i)
    BY DEF SlotAt
  <1>3. Stored(q) = Stored(pg)
    BY <1>1, <1>2 DEF Stored
  <1>4. Used(q) = Used(pg)
    BY <1>2, <1>3 DEF Used
  <1>5. FreeSpaceIsExact(q) /\ RecordsApart(q)
    BY <1>1, <1>2, <1>3, <1>4 DEF GoodPage, SoundPage, FreeSpaceIsExact, RecordsApart
  <1>6. q.dataStart <= PageSize /\ \A id \in Stored(q) : SlotAt(q, id).size > 0
    BY <1>2, <1>3 DEF GoodPage
  <1>7. GoodPage(q)
    BY <1>5, <1>6 DEF GoodPage, SoundPage
  <1>8. \A i : Taken(q, i) <=> Taken(pg, i)
    BY <1>1, <1>2 DEF Taken, IsEmpty
  <1>9. QED
    BY <1>1, <1>2, <1>3, <1>7, <1>8

(* memcpy into a record. *)
WrittenIn(pg, q, x, m, bytes) ==
    /\ PageStep(pg, q, {x}) /\ q.slots = pg.slots
    /\ q.firstFree = pg.firstFree /\ q.freeSpace = pg.freeSpace
    /\ Held(q, x) = [k \in 1..SlotAt(pg, x).size |-> IF k <= m THEN bytes[k] ELSE Held(pg, x)[k]]

(* memcpy into a record changes its bytes only. *)
LEMMA WrittenKeeps ==
    ASSUME NEW pg, GoodPage(pg), NEW x \in Stored(pg), NEW m \in Nat, m <= SlotAt(pg, x).size,
           NEW bytes \in [1..m -> Content]
    PROVE  WrittenIn(pg, [pg EXCEPT !.data = Copied(@, SlotAt(pg, x).offset, bytes)], x, m, bytes)
  <1> DEFINE q == [pg EXCEPT !.data = Copied(@, SlotAt(pg, x).offset, bytes)]
  <1>1. pg \in PageType /\ x \in 0..SlotCount(pg) - 1
    BY DEF GoodPage, Stored
  <1>2. PICK o \in Nat, n \in Nat \ {0} : o = SlotAt(pg, x).offset /\ n = SlotAt(pg, x).size
    BY GoodPlacing
  <1>3. pg.dataStart <= o /\ o + n <= PageSize
    BY <1>2, GoodPlacing DEF Placing
  <1>4. q = [pg EXCEPT !.data = Copied(pg.data, o, bytes)]
    BY <1>2
  <1> HIDE DEF q
  <1>5. /\ q.slots = pg.slots /\ q.data = Copied(pg.data, o, bytes) /\ q.firstFree = pg.firstFree
        /\ q.freeSpace = pg.freeSpace /\ q.dataStart = pg.dataStart
    BY <1>1, <1>4 DEF PageType
  <1>6. pg.data \in [0..PageSize - 1 -> Content]
    BY <1>1 DEF PageType
  <1>7. CopiedTo(pg.data, o, m, bytes, q.data)
    BY <1>5, <1>6, CopiedBytes
  <1>8. q \in PageType
    <2>1. q.data \in [0..PageSize - 1 -> Content]
      BY <1>7 DEF CopiedTo
    <2>2. q = [pg EXCEPT !.data = q.data]
      BY <1>1, <1>4, <1>5
    <2>3. QED
      BY <1>1, <2>1, <2>2 DEF PageType
  <1>9. /\ GoodPage(q) /\ Stored(q) = Stored(pg) /\ SlotCount(q) = SlotCount(pg)
        /\ \A i : SlotAt(q, i) = SlotAt(pg, i)
    BY <1>5, <1>8, SameLayout
  <1>10. ASSUME NEW i \in Stored(pg) \ {x} PROVE Held(q, i) = Held(pg, i)
    <2>1. PICK a \in Nat, e \in Nat \ {0} : a = SlotAt(pg, i).offset /\ e = SlotAt(pg, i).size /\ a + e <= PageSize
      BY GoodPlacing DEF Placing
    <2>2. o + n <= a \/ a + e <= o
      BY <1>2, <2>1, GoodPlacing DEF Placing, EndsBefore
    <2>3. \A b \in 0..PageSize - 1 : a <= b /\ b < a + e => q.data[b] = pg.data[b]
      <3>1. ASSUME NEW b \in 0..PageSize - 1, a <= b, b < a + e PROVE ~(o <= b /\ b < o + m)
        BY <1>2, <2>1, <2>2, <3>1, SMTT(30)
      <3>2. QED
        BY <1>7, <3>1 DEF CopiedTo
    <2>4. QED
      BY <1>9, <2>1, <2>3, HeldUntouched
  <1>11. SlotSet(pg, q, x, SlotAt(pg, x))
    BY <1>9 DEF SlotSet
  <1>12. PageStep(pg, q, {x})
    BY <1>1, <1>9, <1>10, <1>11, PageStepOfSlot
  <1>13. Held(q, x) = [k \in 1..n |-> IF k <= m THEN bytes[k] ELSE Held(pg, x)[k]]
    <2>1. Held(q, x) = [k \in 1..n |-> q.data[o + k - 1]]
      BY <1>2, <1>9 DEF Held, BytesAt
    <2>2. ASSUME NEW k \in 1..n PROVE q.data[o + k - 1] = IF k <= m THEN bytes[k] ELSE Held(pg, x)[k]
      <3>1. PICK e \in Nat : e = k /\ 1 <= e /\ e <= n
        OBVIOUS
      <3>2. /\ o + e - 1 \in 0..PageSize - 1 /\ o <= o + e - 1 /\ (o + e - 1 < o + m <=> e <= m)
            /\ o + e - 1 - o + 1 = e
        BY <1>3, <3>1, PageAssumption
      <3>3. q.data[o + k - 1] = IF k <= m THEN bytes[k] ELSE pg.data[o + k - 1]
        BY <1>7, <3>1, <3>2 DEF CopiedTo
      <3>4. Held(pg, x)[k] = pg.data[o + k - 1]
        BY <1>2 DEF Held, BytesAt
      <3>5. QED
        BY <3>3, <3>4
    <2>3. QED
      BY <2>1, <2>2
  <1>14. QED
    BY <1>2, <1>5, <1>12, <1>13 DEF WrittenIn, q

(* An empty slot is given n bytes: first some that are copied there, then zeros. *)
GrownFrom(pg, x, n, bytes) ==
    LET q == WithRoom(pg, n)
        r == Placed([q EXCEPT !.freeSpace = @ - n], x, n)
    IN  [r EXCEPT !.data = Copied(@, r.dataStart, bytes)]

GrownIn(pg, q, x, n, m, bytes) ==
    /\ PageStep(pg, q, {x}) /\ SlotCount(q) = SlotCount(pg) /\ x \in Stored(q)
    /\ SlotAt(q, x).kind = "record" /\ SlotAt(q, x).size = n
    /\ q.firstFree = pg.firstFree /\ q.freeSpace = pg.freeSpace - n
    /\ Held(q, x) = [k \in 1..n |-> IF k <= m THEN bytes[k] ELSE ZeroByte]

(* An empty slot that grows holds the bytes copied there, and zeros behind them. *)
LEMMA GrownFromKeeps ==
    ASSUME NEW pg, GoodPage(pg), NEW x \in 0..SlotCount(pg) - 1, x \notin Stored(pg),
           NEW n \in Nat \ {0}, n <= pg.freeSpace, NEW m \in Nat, m <= n, NEW bytes \in [1..m -> Content]
    PROVE  GrownIn(pg, GrownFrom(pg, x, n, bytes), x, n, m, bytes)
  <1> DEFINE q == WithRoom(pg, n)
             r == Placed([q EXCEPT !.freeSpace = @ - n], x, n)
             t == [r EXCEPT !.data = Copied(@, SlotAt(r, x).offset, bytes)]
  <1>1. /\ PageStep(pg, q, {}) /\ ContinuousFreeSpace(q) >= n
        /\ q.firstFree = pg.firstFree /\ q.freeSpace = pg.freeSpace /\ SlotCount(q) = SlotCount(pg)
        /\ \A i \in 0..SlotCount(pg) - 1 : SlotAt(q, i).kind = SlotAt(pg, i).kind
    BY WithRoomKeeps
  <1> HIDE DEF q
  <1>2. x \notin Stored(q) /\ GoodPage(q)
    BY <1>1 DEF Stored, PageStep
  <1>3. PlacedIn(q, r, x, n)
    BY <1>1, <1>2, PlacedKeeps
  <1> HIDE DEF r
  <1>4. /\ GoodPage(r) /\ x \in Stored(r) /\ SlotAt(r, x) = RecordSlot(r.dataStart, n)
        /\ SlotCount(r) = SlotCount(pg)
    BY <1>1, <1>3 DEF PlacedIn, SlotSet, PageStep
  <1>5. SlotAt(r, x).size = n /\ SlotAt(r, x).offset = r.dataStart /\ SlotAt(r, x).kind = "record"
    BY <1>4 DEF RecordSlot
  <1>6. WrittenIn(r, t, x, m, bytes)
    BY <1>4, <1>5, WrittenKeeps
  <1>7. GrownFrom(pg, x, n, bytes) = t
    BY <1>5 DEF GrownFrom, q, r
  <1> HIDE DEF t
  <1>8. GoodPage(t) /\ SlotCount(t) = SlotCount(pg) /\ SlotAt(t, x) = SlotAt(r, x) /\ x \in Stored(t)
    BY <1>4, <1>6 DEF WrittenIn, SlotCount, SlotAt, Stored, PageStep
  <1>9. PageStep(pg, t, {x})
    <2>1. PageStep(pg, r, {} \cup {x})
      BY <1>1, <1>3, PageStepsCompose DEF PlacedIn
    <2>2. PageStep(pg, t, ({} \cup {x}) \cup {x})
      BY <1>6, <2>1, PageStepsCompose DEF WrittenIn
    <2>3. ({} \cup {x}) \cup {x} = {x}
      OBVIOUS
    <2>4. QED
      BY <2>2, <2>3
  <1>10. t.firstFree = pg.firstFree /\ t.freeSpace = pg.freeSpace - n
    BY <1>1, <1>3, <1>6 DEF PlacedIn, WrittenIn
  <1>11. Held(t, x) = [k \in 1..n |-> IF k <= m THEN bytes[k] ELSE ZeroByte]
    <2>1. Held(t, x) = [k \in 1..n |-> IF k <= m THEN bytes[k] ELSE Held(r, x)[k]]
      BY <1>5, <1>6 DEF WrittenIn
    <2>2. Held(r, x) = [k \in 1..n |-> ZeroByte]
      BY <1>3 DEF PlacedIn, ZeroBytes
    <2>3. QED
      BY <2>1, <2>2
  <1>12. QED
    BY <1>5, <1>7, <1>8, <1>9, <1>10, <1>11 DEF GrownIn

(* The bytes of a record are of a page. *)
LEMMA HeldBytes ==
    ASSUME NEW pg, GoodPage(pg), NEW x \in Stored(pg)
    PROVE  Held(pg, x) \in [1..SlotAt(pg, x).size -> Content]
  <1>1. PICK o \in Nat, n \in Nat \ {0} : o = SlotAt(pg, x).offset /\ n = SlotAt(pg, x).size /\ o + n <= PageSize
    BY GoodPlacing DEF Placing
  <1>2. pg.data \in [0..PageSize - 1 -> Content]
    BY DEF GoodPage, PageType
  <1>3. ASSUME NEW k \in 1..n PROVE pg.data[o + k - 1] \in Content
    <2>1. o + k - 1 \in 0..PageSize - 1
      BY <1>1, PageAssumption
    <2>2. QED
      BY <1>2, <2>1
  <1>4. QED
    BY <1>1, <1>3 DEF Held, BytesAt

(* A slot is given up for one without data, a redirect among them; the bytes stay where they are. *)
UnstoredIn(pg, q, x, s) ==
    /\ PageStep(pg, q, {x}) /\ SlotSet(pg, q, x, s)
    /\ q.firstFree = pg.firstFree /\ q.freeSpace = pg.freeSpace + SizeIn(pg, x)
    /\ q.data = pg.data

(* A slot that gives up its data, for a redirect or for nothing. *)
LEMMA UnstoredKeeps ==
    ASSUME NEW pg, GoodPage(pg), NEW x \in 0..SlotCount(pg) - 1,
           NEW s \in SlotType, s.kind \notin {"record", "target"}, NEW q,
           q = [pg EXCEPT !.slots[x + 1] = s, !.freeSpace = @ + SizeIn(pg, x)]
    PROVE  UnstoredIn(pg, q, x, s)
  <1>1. pg \in PageType /\ SizeIn(pg, x) \in Nat
    BY UsedSplits DEF GoodPage, SoundPage, Laid
  <1>2. /\ q.slots = [pg.slots EXCEPT ![x + 1] = s] /\ q.data = pg.data /\ q.dataStart = pg.dataStart
        /\ q.firstFree = pg.firstFree /\ q.freeSpace = pg.freeSpace + SizeIn(pg, x)
    BY <1>1 DEF PageType
  <1>3. q.slots \in Seq(SlotType) /\ SlotSet(pg, q, x, s)
    <2>1. Assigned(pg, q, x, s)
      BY <1>2 DEF Assigned
    <2>2. QED
      BY <1>1, <2>1, SlotAssigned
  <1>4. q \in PageType
    <2>1. q = [pg EXCEPT !.freeSpace = q.freeSpace, !.slots = q.slots]
      BY <1>1, <1>2 DEF PageType
    <2>2. q.freeSpace \in Nat
      BY <1>1, <1>2, PageNumbers
    <2>3. QED
      BY <1>1, <1>3, <2>1, <2>2 DEF PageType
  <1>5. /\ Stored(q) \ {x} = Stored(pg) \ {x} /\ SlotsEnd(q) = SlotsEnd(pg) /\ x \notin Stored(q)
        /\ \A i \in Stored(pg) \ {x} : SlotAt(q, i) = SlotAt(pg, i)
    BY <1>1, <1>3, SlotSetStored
  <1>6. GoodPage(q)
    <2>1. SizeIn(q, x) = 0
      BY <1>5 DEF SizeIn
    <2>2. q.freeSpace + SlotsEnd(q) + SizeIn(q, x) = pg.freeSpace + SlotsEnd(pg) + SizeIn(pg, x)
      BY <1>1, <1>2, <1>5, <2>1, PageNumbers
    <2>3. SlotsEnd(q) <= q.dataStart /\ q.dataStart <= PageSize
      BY <1>2, <1>5, GoodPlacing DEF GoodPage
    <2>4. \A i \in Stored(pg) \ {x} : q.dataStart <= SlotAt(pg, i).offset
      BY <1>2, GoodPlacing DEF Placing
    <2>5. QED
      BY <1>4, <1>5, <2>2, <2>3, <2>4, OneArea
  <1>7. \A i \in Stored(pg) \ {x} : Held(q, i) = Held(pg, i)
    BY <1>2, <1>5 DEF Held
  <1>8. PageStep(pg, q, {x})
    BY <1>1, <1>3, <1>6, <1>7, PageStepOfSlot
  <1>9. QED
    BY <1>2, <1>3, <1>8 DEF UnstoredIn

(***************************************************************************)
(* A stored slot keeps its offset, and n of its bytes: relocate to a       *)
(* smaller size, or the mark of a redirect target.                         *)
(***************************************************************************)
ResizedIn(pg, q, x, n, kind) ==
    /\ PageStep(pg, q, {x}) /\ SlotCount(q) = SlotCount(pg) /\ x \in Stored(q)
    /\ SlotAt(q, x).kind = kind /\ SlotAt(q, x).size = n
    /\ q.firstFree = pg.firstFree /\ q.freeSpace = pg.freeSpace + SlotAt(pg, x).size - n
    /\ \A k \in 1..n : Held(q, x)[k] = Held(pg, x)[k]

(* A record that is made smaller where it is keeps its first bytes. *)
LEMMA CutKeeps ==
    ASSUME NEW pg, GoodPage(pg), NEW x \in Stored(pg), NEW n \in Nat \ {0}, n <= SlotAt(pg, x).size,
           NEW kind \in {"record", "target"}, NEW q,
           q = [pg EXCEPT !.slots[x + 1] = [SlotAt(pg, x) EXCEPT !.size = n, !.kind = kind],
                          !.freeSpace = @ + SlotAt(pg, x).size - n]
    PROVE  ResizedIn(pg, q, x, n, kind) /\ q.dataStart = pg.dataStart /\ q.data = pg.data
             /\ SlotAt(q, x).offset = SlotAt(pg, x).offset
  <1>1. pg \in PageType /\ x \in 0..SlotCount(pg) - 1
    BY DEF GoodPage, Stored
  <1> DEFINE s == [SlotAt(pg, x) EXCEPT !.size = n, !.kind = kind]
  <1>2. PICK o \in Nat, m \in Nat \ {0} : o = SlotAt(pg, x).offset /\ m = SlotAt(pg, x).size
    BY GoodPlacing
  <1>3. SlotAt(pg, x) \in SlotType
    BY <1>1, SlotTyped
  <1>4. s \in SlotType /\ s.kind = kind /\ s.size = n /\ s.offset = o
    BY <1>2, <1>3 DEF SlotType
  <1> HIDE DEF s
  <1>5. /\ q.slots = [pg.slots EXCEPT ![x + 1] = s] /\ q.data = pg.data /\ q.dataStart = pg.dataStart
        /\ q.firstFree = pg.firstFree /\ q.freeSpace = pg.freeSpace + m - n
    BY <1>1, <1>2 DEF PageType, s
  <1>6. q.slots \in Seq(SlotType) /\ SlotSet(pg, q, x, s)
    <2>1. Assigned(pg, q, x, s)
      BY <1>5 DEF Assigned
    <2>2. QED
      BY <1>1, <1>4, <2>1, SlotAssigned
  <1>7. q \in PageType
    <2>1. q = [pg EXCEPT !.freeSpace = q.freeSpace, !.slots = q.slots]
      BY <1>1, <1>5 DEF PageType
    <2>2. q.freeSpace \in Nat
      BY <1>1, <1>2, <1>5, PageNumbers
    <2>3. QED
      BY <1>1, <1>6, <2>1, <2>2 DEF PageType
  <1>8. /\ Stored(q) \ {x} = Stored(pg) \ {x} /\ SlotsEnd(q) = SlotsEnd(pg) /\ x \in Stored(q)
        /\ \A i \in Stored(pg) \ {x} : SlotAt(q, i) = SlotAt(pg, i)
    <2>1. s.kind \in {"record", "target"}
      BY <1>4
    <2>2. QED
      <3>1. SlotSet(pg, q, x, s)
        BY <1>6
      <3>2. QED
        BY <1>1, <2>1, <3>1, SlotSetStored
  <1>9. SlotAt(q, x) = s
    BY <1>6 DEF SlotSet
  <1>10. FreshArea(q, x)
    <2>1. q.dataStart <= o /\ o + n <= PageSize
      BY <1>2, <1>5, GoodPlacing, PageAssumption DEF Placing
    <2>2. ASSUME NEW j \in Stored(q) \ {x} PROVE EndsBefore(SlotAt(q, x), SlotAt(q, j)) \/ EndsBefore(SlotAt(q, j), SlotAt(q, x))
      <3>1. PICK a \in Nat, e \in Nat \ {0} : a = SlotAt(pg, j).offset /\ e = SlotAt(pg, j).size
        BY <1>8, GoodPlacing
      <3>2. o + m <= a \/ a + e <= o
        BY <1>2, <1>8, <3>1, GoodPlacing DEF Placing, EndsBefore
      <3>3. o + n <= a \/ a + e <= o
        BY <1>2, <3>1, <3>2
      <3>4. QED
        BY <1>4, <1>8, <1>9, <3>1, <3>3 DEF EndsBefore
    <2>3. QED
      BY <1>4, <1>9, <2>1, <2>2 DEF FreshArea
  <1>11. GoodPage(q)
    <2>1. SizeIn(q, x) = n /\ SizeIn(pg, x) = m
      BY <1>2, <1>4, <1>8, <1>9 DEF SizeIn
    <2>2. q.freeSpace + SlotsEnd(q) + SizeIn(q, x) = pg.freeSpace + SlotsEnd(pg) + SizeIn(pg, x)
      BY <1>1, <1>5, <1>8, <2>1, PageNumbers
    <2>3. SlotsEnd(q) <= q.dataStart /\ q.dataStart <= PageSize
      BY <1>5, <1>8, GoodPlacing DEF GoodPage
    <2>4. \A i \in Stored(pg) \ {x} : q.dataStart <= SlotAt(pg, i).offset
      BY <1>5, GoodPlacing DEF Placing
    <2>5. QED
      BY <1>7, <1>8, <1>10, <2>2, <2>3, <2>4, OneArea
  <1>12. \A i \in Stored(pg) \ {x} : Held(q, i) = Held(pg, i)
    BY <1>5, <1>8 DEF Held
  <1>13. PageStep(pg, q, {x})
    BY <1>1, <1>6, <1>11, <1>12, PageStepOfSlot
  <1>14. ASSUME NEW k \in 1..n PROVE Held(q, x)[k] = Held(pg, x)[k]
    <2>1. k \in 1..m
      BY <1>2
    <2>2. Held(q, x)[k] = pg.data[o + k - 1]
      BY <1>4, <1>5, <1>9 DEF Held, BytesAt
    <2>3. Held(pg, x)[k] = pg.data[o + k - 1]
      BY <1>2, <2>1 DEF Held, BytesAt
    <2>4. QED
      BY <2>2, <2>3
  <1>15. QED
    BY <1>2, <1>4, <1>5, <1>6, <1>8, <1>9, <1>13, <1>14 DEF ResizedIn, SlotSet

(* relocate: the slot has n bytes, and as many of its old bytes as fit. *)
RelocatedIn(pg, q, x, n) ==
    /\ PageStep(pg, q, {x}) /\ SlotCount(q) = SlotCount(pg) /\ x \in Stored(q)
    /\ SlotAt(q, x).kind \in {"record", SlotAt(pg, x).kind} /\ SlotAt(q, x).size = n
    /\ q.firstFree = pg.firstFree
    /\ \A k \in 1..n : k <= SlotAt(pg, x).size => Held(q, x)[k] = Held(pg, x)[k]

(***************************************************************************)
(* relocate gives a record another size, in place or by compactify, and    *)
(* keeps the bytes both have.                                              *)
(***************************************************************************)
LEMMA RelocateKeeps ==
    ASSUME NEW pg, GoodPage(pg), NEW x \in Stored(pg), NEW n \in Nat \ {0},
           n <= pg.freeSpace + SlotAt(pg, x).size
    PROVE  RelocatedIn(pg, Relocate(pg, x, n), x, n)
  <1> DEFINE q == Relocate(pg, x, n)
  <1>1. pg \in PageType /\ x \in 0..SlotCount(pg) - 1 /\ SlotAt(pg, x).kind \in {"record", "target"}
    BY DEF GoodPage, Stored
  <1>2. PICK m \in Nat \ {0} : m = SlotAt(pg, x).size
    BY GoodPlacing
  <1>3. CASE m >= n
    <2> DEFINE r == [pg EXCEPT !.slots[x + 1] = [SlotAt(pg, x) EXCEPT !.size = n, !.kind = SlotAt(pg, x).kind],
                               !.freeSpace = @ + SlotAt(pg, x).size - n]
    <2>1. q = [pg EXCEPT !.freeSpace = @ + SlotAt(pg, x).size - n, !.slots[x + 1].size = n]
      BY <1>2, <1>3 DEF Relocate, Shrunk
    <2>2. SlotAt(pg, x) \in SlotType /\ SlotAt(pg, x) = pg.slots[x + 1] /\ x + 1 \in DOMAIN pg.slots
      BY <1>1, SlotTyped DEF SlotAt
    <2>3. [SlotAt(pg, x) EXCEPT !.size = n] = [SlotAt(pg, x) EXCEPT !.size = n, !.kind = SlotAt(pg, x).kind]
      BY <2>2 DEF SlotType
    <2>4. q = r
      BY <1>1, <2>1, <2>2, <2>3 DEF PageType
    <2>5. ResizedIn(pg, r, x, n, SlotAt(pg, x).kind)
      BY <1>1, <1>2, <1>3, CutKeeps
    <2> HIDE DEF r, q
    <2>6. QED
      BY <2>4, <2>5 DEF ResizedIn, RelocatedIn, q
  <1>4. CASE ~(m >= n)
    <2> DEFINE v == Vacated(pg, x)
               bytes == Held(pg, x)
    <2>1. VacatedFrom(pg, v, x)
      BY VacatedKeeps
    <2>2. bytes \in [1..m -> Content]
      BY <1>2, HeldBytes
    <2>3. q = GrownFrom(v, x, n, bytes)
      BY <1>2, <1>4 DEF Relocate, Grown, GrownFrom, Held
    <2> HIDE DEF v, bytes, q
    <2>4. /\ GoodPage(v) /\ x \in 0..SlotCount(v) - 1 /\ x \notin Stored(v)
          /\ v.freeSpace = pg.freeSpace + m
      <3>1. SlotAt(v, x).kind = "empty"
        BY <2>1 DEF VacatedFrom, SlotSet, EmptySlot
      <3>2. QED
        BY <1>1, <1>2, <2>1, <3>1 DEF VacatedFrom, PageStep, SlotSet, SizeIn, Stored
    <2>5. m <= n
      BY <1>2, <1>4
    <2>6. GrownIn(v, q, x, n, m, bytes)
      BY <1>2, <2>2, <2>3, <2>4, <2>5, GrownFromKeeps
    <2>7. PageStep(pg, q, {x} \cup {x}) /\ {x} \cup {x} = {x}
      BY <2>1, <2>6, PageStepsCompose DEF VacatedFrom, GrownIn
    <2>8. \A k \in 1..n : k <= m => Held(q, x)[k] = Held(pg, x)[k]
      BY <2>6 DEF GrownIn, bytes
    <2>9. SlotCount(q) = SlotCount(pg) /\ q.firstFree = pg.firstFree
      BY <2>1, <2>6 DEF GrownIn, VacatedFrom, SlotSet
    <2>10. QED
      BY <1>2, <2>6, <2>7, <2>8, <2>9 DEF GrownIn, RelocatedIn, q
  <1>5. QED
    BY <1>2, <1>3, <1>4

(* A byte that belongs to no record may become any. *)
LEMMA TidyKeeps ==
    ASSUME NEW pg, GoodPage(pg)
    PROVE  LET q == Tidy(pg)
           IN  /\ PageStep(pg, q, {}) /\ q.slots = pg.slots
               /\ q.firstFree = pg.firstFree /\ q.freeSpace = pg.freeSpace
  <1> DEFINE q == Tidy(pg)
             tidied == [b \in 0..PageSize - 1 |-> IF b \in Used(pg) THEN pg.data[b] ELSE AnyByte]
  <1>1. pg \in PageType /\ pg.data \in [0..PageSize - 1 -> Content]
    BY DEF GoodPage, PageType
  <1>2. q = [pg EXCEPT !.data = tidied]
    BY <1>1 DEF Tidy
  <1>3. tidied \in [0..PageSize - 1 -> Content]
    BY <1>1 DEF Content
  <1> HIDE DEF q, tidied
  <1>4. /\ q.slots = pg.slots /\ q.data = tidied /\ q.firstFree = pg.firstFree
        /\ q.freeSpace = pg.freeSpace /\ q.dataStart = pg.dataStart
    BY <1>1, <1>2 DEF PageType
  <1>5. q \in PageType
    BY <1>1, <1>2, <1>3 DEF PageType
  <1>6. /\ GoodPage(q) /\ Stored(q) = Stored(pg) /\ SlotCount(q) = SlotCount(pg)
        /\ \A i : SlotAt(q, i) = SlotAt(pg, i) /\ (Taken(q, i) <=> Taken(pg, i))
    BY <1>4, <1>5, SameLayout
  <1>7. ASSUME NEW i \in Stored(pg) PROVE Held(q, i) = Held(pg, i)
    <2>1. PICK a \in Nat, e \in Nat \ {0} : a = SlotAt(pg, i).offset /\ e = SlotAt(pg, i).size /\ a + e <= PageSize
      BY GoodPlacing DEF Placing
    <2>2. \A b \in 0..PageSize - 1 : a <= b /\ b < a + e => q.data[b] = pg.data[b]
      <3>1. ASSUME NEW b \in 0..PageSize - 1, a <= b, b < a + e PROVE b \in Used(pg)
        <4>1. b \in a..(a + e - 1)
          BY <3>1, PageAssumption
        <4>2. b \in Area(SlotAt(pg, i))
          BY <2>1, <4>1 DEF Area
        <4>3. QED
          BY <4>2 DEF Used
      <3>2. QED
        BY <1>4, <3>1 DEF tidied
    <2>3. QED
      BY <1>6, <2>1, <2>2, HeldUntouched
  <1>8. \A i : Taken(pg, i) => Kept(pg, q, i)
    BY <1>6, <1>7 DEF Kept
  <1>9. QED
    BY <1>4, <1>6, <1>8 DEF PageStep, q

------------------------------------------------------------------------------
(* erase, and allocate. *)

(* erase: the slot is not in use any more, empty slots at the end are gone. *)
ErasedIn(pg, q, x) ==
    /\ PageStep(pg, q, {x}) /\ ~Taken(q, x) /\ q.freeSpace >= pg.freeSpace
    /\ ~Taken(pg, pg.firstFree) => ~Taken(q, q.firstFree)

(* erase empties a slot, and with it the empty slots at the end of the directory. *)
LEMMA EraseKeeps ==
    ASSUME NEW pg, GoodPage(pg), NEW x \in Stored(pg)
    PROVE  ErasedIn(pg, Erase(pg, x), x)
  <1> DEFINE v == Vacated(pg, x)
             free == IF x < v.firstFree THEN x ELSE v.firstFree
             r == [v EXCEPT !.firstFree = IF x < @ THEN x ELSE @]
             used == {i \in 0..SlotCount(r) - 1 : ~IsEmpty(r, i)}
             count == IF x # SlotCount(r) - 1 THEN SlotCount(r)
                      ELSE IF used = {} THEN 0 ELSE Max(used) + 1
             q == [r EXCEPT !.slots = SubSeq(@, 1, count),
                            !.freeSpace = @ + (SlotCount(r) - count) * SlotSize]
  <1>1. Erase(pg, x) = q
    BY DEF Erase
  <1>2. VacatedFrom(pg, v, x)
    BY VacatedKeeps
  <1> HIDE DEF v
  <1>3. /\ GoodPage(v) /\ v \in PageType /\ SlotCount(v) = SlotCount(pg)
        /\ SlotAt(v, x) = EmptySlot /\ x \in 0..SlotCount(v) - 1 /\ v.data = pg.data
        /\ v.freeSpace >= pg.freeSpace /\ v.firstFree = pg.firstFree
    <2>1. SizeIn(pg, x) \in Nat
      BY UsedSplits DEF GoodPage, SoundPage, Laid
    <2>2. pg.freeSpace \in Nat
      BY PageNumbers DEF GoodPage
    <2>3. x \in 0..SlotCount(pg) - 1
      BY DEF Stored
    <2>4. QED
      BY <1>2, <2>1, <2>2, <2>3 DEF VacatedFrom, PageStep, SlotSet, GoodPage
  <1>4. x \in Nat /\ v.firstFree \in Nat /\ free \in Nat
    BY <1>3, SlotTyped, PageNumbers
  <1>5. r = [v EXCEPT !.firstFree = free]
    BY <1>3 DEF PageType
  <1> HIDE DEF r, free
  <1>6. /\ r \in PageType /\ r.slots = v.slots /\ r.freeSpace = v.freeSpace /\ r.firstFree = free
        /\ r.data = v.data /\ r.dataStart = v.dataStart
    BY <1>3, <1>4, <1>5 DEF PageType
  <1>7. /\ GoodPage(r) /\ Stored(r) = Stored(v) /\ SlotCount(r) = SlotCount(v)
        /\ \A i : SlotAt(r, i) = SlotAt(v, i) /\ (Taken(r, i) <=> Taken(v, i))
    BY <1>3, <1>6, SameLayout
  <1>8. PICK n \in Nat : n = SlotCount(r) /\ n > 0
    BY <1>3, <1>6, <1>7, PageNumbers
  <1>9. count \in 0..n /\ \A i \in 0..n - 1 : i >= count => IsEmpty(r, i)
    <2>1. CASE x # SlotCount(r) - 1
      BY <1>8, <2>1
    <2>2. CASE x = SlotCount(r) - 1 /\ used = {}
      <3>1. count = 0
        BY <2>2
      <3>2. QED
        BY <1>8, <2>2, <3>1
    <2>3. CASE x = SlotCount(r) - 1 /\ used # {}
      <3>1. n - 1 \in Nat /\ used \in SUBSET (0..n - 1)
        BY <1>8
      <3>2. Max(used) \in used /\ \A y \in used : y <= Max(used)
        BY <2>3, <3>1, NatMaximum
      <3>3. count = Max(used) + 1
        BY <2>3
      <3>4. PICK e \in 0..n - 1 : e = Max(used)
        BY <3>1, <3>2
      <3>5. count \in 0..n
        BY <3>3, <3>4
      <3>6. ASSUME NEW i \in 0..n - 1, i >= count PROVE IsEmpty(r, i)
        <4>1. ~(i <= e)
          BY <3>3, <3>4, <3>6
        <4>2. i \notin used
          BY <3>2, <3>4, <4>1
        <4>3. QED
          BY <1>8, <4>2
      <3>7. QED
        BY <3>5, <3>6
    <2>4. QED
      BY <2>1, <2>2, <2>3
  <1> HIDE DEF count, used
  <1>10. PICK c \in Nat : c = count /\ c <= n
    BY <1>8, <1>9
  <1>11. q = [r EXCEPT !.slots = SubSeq(r.slots, 1, c), !.freeSpace = r.freeSpace + (n - c) * SlotSize]
    BY <1>6, <1>8, <1>10 DEF PageType
  <1>12. (n - c) * SlotSize \in Nat /\ (n - c) * SlotSize + c * SlotSize = n * SlotSize
         /\ c * SlotSize \in Nat /\ n * SlotSize \in Nat
    <2>1. PICK d \in Nat : d = n - c /\ n = d + c
      <3>1. n - c \in Nat /\ n = (n - c) + c
        BY <1>8, <1>10
      <3>2. QED
        BY <3>1
    <2>2. SlotSize \in Nat
      BY PageAssumption
    <2>3. d * SlotSize \in Nat /\ c * SlotSize \in Nat /\ (d + c) * SlotSize = d * SlotSize + c * SlotSize
      BY <2>2
    <2>4. QED
      BY <2>1, <2>3
  <1> HIDE DEF q
  <1>13. r.slots \in Seq(SlotType) /\ Len(r.slots) = n /\ r.freeSpace \in Nat
    BY <1>6, <1>8 DEF PageType, SlotCount
  <1>14. /\ q.slots = SubSeq(r.slots, 1, c) /\ q.freeSpace = r.freeSpace + (n - c) * SlotSize
         /\ q.firstFree = free /\ q.data = r.data /\ q.dataStart = r.dataStart
    BY <1>6, <1>11 DEF PageType
  <1>15. /\ q.slots \in Seq(SlotType) /\ Len(q.slots) = c
         /\ \A k \in 1..c : q.slots[k] = r.slots[k]
    BY <1>10, <1>13, <1>14
  <1>16. q \in PageType
    <2>1. q.freeSpace \in Nat
      BY <1>12, <1>13, <1>14
    <2>2. q = [r EXCEPT !.slots = q.slots, !.freeSpace = q.freeSpace]
      BY <1>11, <1>14
    <2>3. QED
      BY <1>6, <1>15, <2>1, <2>2 DEF PageType
  <1>17. SlotCount(q) = c /\ \A i \in 0..c - 1 : SlotAt(q, i) = SlotAt(r, i)
    <2>1. ASSUME NEW i \in 0..c - 1 PROVE i + 1 \in 1..c
      BY <1>10
    <2>2. QED
      BY <1>15, <2>1 DEF SlotCount, SlotAt
  <1>18. ASSUME NEW i \in 0..n - 1, ~IsEmpty(r, i) PROVE i \in 0..c - 1
    BY <1>9, <1>10, <1>18
  <1>19. \A i \in 0..c - 1 : i \in 0..n - 1
    BY <1>10
  <1>20. Stored(q) = Stored(r)
    <2>1. ASSUME NEW i \in 0..n - 1, SlotAt(r, i).kind \in {"record", "target"} PROVE i \in 0..c - 1
      BY <1>18, <2>1 DEF IsEmpty
    <2>2. QED
      BY <1>8, <1>17, <1>19, <2>1 DEF Stored
  <1>21. \A i : Taken(q, i) <=> Taken(r, i)
    BY <1>8, <1>17, <1>18, <1>19 DEF Taken, IsEmpty
  <1>22. x \notin Stored(r) /\ ~Taken(r, x)
    BY <1>3, <1>7 DEF Stored, Taken, IsEmpty, EmptySlot
  <1>23. SlotsEnd(r) = HeaderSize + n * SlotSize /\ SlotsEnd(q) = HeaderSize + c * SlotSize
    BY <1>8, <1>17 DEF SlotsEnd
  <1>24. GoodPage(q)
    <2>1. \A i \in Stored(r) : SlotAt(q, i) = SlotAt(r, i)
      BY <1>17, <1>20 DEF Stored
    <2>2. SizeIn(q, x) = 0 /\ SizeIn(r, x) = 0
      BY <1>20, <1>22 DEF SizeIn
    <2>3. HeaderSize \in Nat
      BY PageAssumption
    <2>4. q.freeSpace + SlotsEnd(q) + SizeIn(q, x) = r.freeSpace + SlotsEnd(r) + SizeIn(r, x)
      BY <1>12, <1>13, <1>14, <1>23, <2>2, <2>3
    <2>5. SlotsEnd(r) <= r.dataStart /\ r.dataStart <= PageSize /\ r.dataStart \in Nat
      BY <1>6, <1>7, GoodPlacing, PageNumbers DEF GoodPage
    <2>6. SlotsEnd(q) <= q.dataStart /\ q.dataStart <= PageSize
      BY <1>12, <1>14, <1>23, <2>3, <2>5
    <2>7. \A i \in Stored(r) : r.dataStart <= SlotAt(r, i).offset
      BY <1>7, GoodPlacing DEF Placing
    <2>8. QED
      BY <1>7, <1>14, <1>16, <1>20, <1>22, <2>1, <2>4, <2>6, <2>7, OneArea
  <1>25. PageStep(r, q, {})
    <2>1. ASSUME NEW i, Taken(r, i) PROVE Kept(r, q, i)
      <3>1. SlotAt(q, i) = SlotAt(r, i)
        BY <1>8, <1>17, <1>18, <2>1 DEF Taken
      <3>2. QED
        BY <1>14, <3>1 DEF Kept, Held
    <2>2. QED
      BY <1>21, <1>24, <2>1 DEF PageStep
  <1>26. PageStep(v, r, {})
    BY <1>6, <1>7 DEF PageStep, Kept, Held
  <1>27. PageStep(pg, q, {x})
    <2>1. PageStep(pg, r, {x} \cup {})
      BY <1>2, <1>26, PageStepsCompose DEF VacatedFrom
    <2>2. PageStep(pg, q, ({x} \cup {}) \cup {})
      BY <1>25, <2>1, PageStepsCompose
    <2>3. ({x} \cup {}) \cup {} = {x}
      OBVIOUS
    <2>4. QED
      BY <2>2, <2>3
  <1>28. ~Taken(q, x)
    BY <1>21, <1>22
  <1>29. q.freeSpace >= pg.freeSpace
    <2>1. pg.freeSpace \in Nat /\ v.freeSpace \in Nat
      BY <1>3, PageNumbers DEF GoodPage
    <2>2. QED
      BY <1>3, <1>6, <1>12, <1>14, <2>1
  <1>30. ASSUME ~Taken(pg, pg.firstFree) PROVE ~Taken(q, q.firstFree)
    <2>1. CASE free = x
      BY <1>14, <1>28, <2>1
    <2>2. CASE free # x
      <3>1. free = pg.firstFree
        BY <1>3, <2>2 DEF free
      <3>2. QED
        BY <1>14, <1>27, <1>30, <2>2, <3>1 DEF PageStep
    <2>3. QED
      BY <2>1, <2>2
  <1>31. QED
    BY <1>1, <1>27, <1>28, <1>29, <1>30 DEF ErasedIn

(* allocate: the slot that first_free_slot names holds n bytes of zeros. *)
AllocatedIn(pg, q, n) ==
    LET f == AllocatedSlot(pg)
    IN  /\ PageStep(pg, q, {f}) /\ f \in Stored(q) /\ ~Taken(pg, f)
        /\ SlotAt(q, f).kind = "record" /\ SlotAt(q, f).size = n
        /\ Held(q, f) = ZeroBytes(n)
        /\ q.freeSpace >= pg.freeSpace - (n + SlotSize)
        /\ ~Taken(q, q.firstFree)

(* A slot is added to a page that has room for it. *)
LEMMA AppendKeeps ==
    ASSUME NEW pg, GoodPage(pg), pg.firstFree = SlotCount(pg), SlotSize <= pg.freeSpace,
           SlotSize <= ContinuousFreeSpace(pg), NEW q,
           q = [pg EXCEPT !.firstFree = @ + 1, !.freeSpace = @ - SlotSize, !.slots = Append(@, EmptySlot)]
    PROVE  /\ PageStep(pg, q, {}) /\ SlotCount(q) = SlotCount(pg) + 1
           /\ q.firstFree = SlotCount(q) /\ q.freeSpace = pg.freeSpace - SlotSize
           /\ ContinuousFreeSpace(q) = ContinuousFreeSpace(pg) - SlotSize
           /\ ~Taken(q, SlotCount(pg))
  <1>1. pg \in PageType
    BY DEF GoodPage
  <1>2. PICK n \in Nat : n = SlotCount(pg)
    BY <1>1, PageNumbers
  <1>3. pg.slots \in Seq(SlotType) /\ Len(pg.slots) = n /\ EmptySlot \in SlotType
    BY <1>1, <1>2, SlotKinds DEF PageType, SlotCount
  <1>4. /\ q.slots = Append(pg.slots, EmptySlot) /\ q.freeSpace = pg.freeSpace - SlotSize
        /\ q.firstFree = n + 1 /\ q.data = pg.data /\ q.dataStart = pg.dataStart
    BY <1>1, <1>2 DEF PageType
  <1>5. /\ q.slots \in Seq(SlotType) /\ Len(q.slots) = n + 1 /\ q.slots[n + 1] = EmptySlot
        /\ \A k \in 1..n : q.slots[k] = pg.slots[k]
    BY <1>3, <1>4
  <1>6. SlotSize \in Nat /\ HeaderSize \in Nat
    BY PageAssumption
  <1>7. q \in PageType
    <2>1. q.freeSpace \in Nat /\ q.firstFree \in Nat
      BY <1>1, <1>2, <1>4, <1>6, PageNumbers
    <2>2. q = [pg EXCEPT !.firstFree = q.firstFree, !.freeSpace = q.freeSpace, !.slots = q.slots]
      BY <1>1, <1>4
    <2>3. QED
      BY <1>1, <1>5, <2>1, <2>2 DEF PageType
  <1>8. SlotCount(q) = n + 1 /\ SlotAt(q, n) = EmptySlot
    BY <1>5 DEF SlotCount, SlotAt
  <1>9. ASSUME NEW i \in 0..n - 1 PROVE SlotAt(q, i) = SlotAt(pg, i)
    <2>1. i + 1 \in 1..n
      BY <1>2
    <2>2. QED
      BY <1>5, <2>1 DEF SlotAt
  <1>10. \A i : i \in 0..n <=> i \in 0..n - 1 \/ i = n
    BY <1>2
  <1>11. SlotCount(q) - 1 = n /\ n \notin 0..n - 1
    BY <1>2, <1>8
  <1>12. EmptySlot.kind = "empty"
    BY DEF EmptySlot
  <1>13. Stored(q) = Stored(pg)
    BY <1>2, <1>8, <1>9, <1>10, <1>11, <1>12 DEF Stored
  <1>14. \A i : Taken(q, i) <=> Taken(pg, i)
    BY <1>2, <1>8, <1>9, <1>10, <1>11, <1>12 DEF Taken, IsEmpty
  <1>15. SlotsEnd(q) = SlotsEnd(pg) + SlotSize
    <2>1. (n + 1) * SlotSize = n * SlotSize + SlotSize /\ n * SlotSize \in Nat
      BY <1>6
    <2>2. QED
      BY <1>2, <1>6, <1>8, <2>1 DEF SlotsEnd
  <1>16. ContinuousFreeSpace(q) = ContinuousFreeSpace(pg) - SlotSize
    BY <1>1, <1>4, <1>6, <1>15, PageNumbers DEF ContinuousFreeSpace
  <1>17. GoodPage(q)
    <2>1. n \notin Stored(pg)
      BY <1>2, <1>11 DEF Stored
    <2>2. SizeIn(q, n) = 0 /\ SizeIn(pg, n) = 0
      BY <1>13, <2>1 DEF SizeIn
    <2>3. q.freeSpace + SlotsEnd(q) + SizeIn(q, n) = pg.freeSpace + SlotsEnd(pg) + SizeIn(pg, n)
      BY <1>1, <1>4, <1>6, <1>15, <2>2, PageNumbers
    <2>4. SlotsEnd(q) <= q.dataStart /\ q.dataStart <= PageSize
      <3>1. SlotsEnd(pg) \in Nat /\ pg.dataStart \in Nat /\ ContinuousFreeSpace(pg) = pg.dataStart - SlotsEnd(pg)
        BY <1>1, PageNumbers
      <3>2. QED
        BY <1>4, <1>6, <1>15, <3>1 DEF GoodPage
    <2>5. \A i \in Stored(pg) \ {n} : SlotAt(q, i) = SlotAt(pg, i) /\ q.dataStart <= SlotAt(pg, i).offset
      BY <1>2, <1>4, <1>9, GoodPlacing DEF Stored, Placing
    <2>6. QED
      BY <1>7, <1>13, <2>1, <2>3, <2>4, <2>5, OneArea
  <1>18. PageStep(pg, q, {})
    <2>1. ASSUME NEW i, Taken(pg, i) PROVE Kept(pg, q, i)
      <3>1. SlotAt(q, i) = SlotAt(pg, i)
        BY <1>2, <1>9, <2>1 DEF Taken
      <3>2. QED
        BY <1>4, <3>1 DEF Kept, Held
    <2>2. QED
      BY <1>14, <1>17, <2>1 DEF PageStep
  <1>19. ~Taken(q, n)
    BY <1>8, <1>12 DEF Taken, IsEmpty
  <1>20. QED
    BY <1>2, <1>4, <1>8, <1>16, <1>18, <1>19

(* Page w is page pg with room for n bytes, and with another first free slot. *)
Prepared(pg, w, n) ==
    LET f == pg.firstFree
    IN  /\ GoodPage(w) /\ PageStep(pg, w, {}) /\ f \in 0..SlotCount(w) - 1 /\ f \notin Stored(w)
        /\ ~Taken(w, w.firstFree) /\ w.firstFree # f
        /\ n <= w.freeSpace /\ ContinuousFreeSpace(w) >= n /\ w.freeSpace >= pg.freeSpace - SlotSize

(* The bytes of a record are taken from the free space. *)
PlacedFree(w, x, n) == Placed([w EXCEPT !.freeSpace = @ - n], x, n)

(* The slot that allocate returns was not in use, and is all that has changed. *)
LEMMA AllocateKeeps ==
    ASSUME NEW pg, GoodPage(pg), ~Taken(pg, pg.firstFree), NEW n \in Nat \ {0}, AllocateAsserts(pg, n)
    PROVE  AllocatedIn(pg, Allocate(pg, n), n)
  <1> DEFINE f == pg.firstFree
             q == Allocate(pg, n)
  <1>1. pg \in PageType
    BY DEF GoodPage
  <1>2. f \in Nat /\ SlotCount(pg) \in Nat /\ pg.freeSpace \in Nat /\ SlotSize \in Nat \ {0}
    BY <1>1, PageNumbers, PageAssumption
  <1>3. ASSUME NEW w, Prepared(pg, w, n), q = PlacedFree(w, f, n)
        PROVE  AllocatedIn(pg, q, n)
    <2>0. /\ GoodPage(w) /\ PageStep(pg, w, {}) /\ f \in 0..SlotCount(w) - 1 /\ f \notin Stored(w)
          /\ ~Taken(w, w.firstFree) /\ w.firstFree # f
          /\ n <= w.freeSpace /\ ContinuousFreeSpace(w) >= n /\ w.freeSpace >= pg.freeSpace - SlotSize
      BY <1>3 DEF Prepared
    <2>1. PlacedIn(w, q, f, n)
      BY <1>3, <2>0, PlacedKeeps DEF PlacedFree
    <2> HIDE DEF q
    <2>2. PageStep(pg, q, {} \cup {f}) /\ {} \cup {f} = {f}
      BY <2>0, <2>1, PageStepsCompose DEF PlacedIn
    <2>3. SlotAt(q, f).kind = "record" /\ SlotAt(q, f).size = n
      BY <2>1 DEF PlacedIn, SlotSet, RecordSlot
    <2>4. ~Taken(q, q.firstFree)
      BY <2>0, <2>1 DEF PlacedIn, PageStep
    <2>5. q.freeSpace >= pg.freeSpace - (n + SlotSize)
      <3>1. w.freeSpace \in Nat
        BY <2>0, PageNumbers DEF GoodPage
      <3>2. q.freeSpace = w.freeSpace - n
        BY <2>1 DEF PlacedIn
      <3>3. QED
        BY <1>2, <2>0, <3>1, <3>2
    <2>6. QED
      BY <2>1, <2>2, <2>3, <2>4, <2>5 DEF AllocatedIn, AllocatedSlot, PlacedIn
  <1>4. CASE f = SlotCount(pg)
    <2> DEFINE r == WithRoom(pg, n + SlotSize)
               w == [r EXCEPT !.firstFree = @ + 1, !.freeSpace = @ - SlotSize, !.slots = Append(@, EmptySlot)]
    <2>1. n + SlotSize \in Nat /\ n + SlotSize <= pg.freeSpace
      BY <1>2, <1>4 DEF AllocateAsserts
    <2>2. /\ PageStep(pg, r, {}) /\ ContinuousFreeSpace(r) >= n + SlotSize
          /\ r.firstFree = pg.firstFree /\ r.freeSpace = pg.freeSpace /\ SlotCount(r) = SlotCount(pg)
      BY <2>1, WithRoomKeeps
    <2> HIDE DEF r
    <2>3. GoodPage(r) /\ r \in PageType /\ r.freeSpace \in Nat /\ ContinuousFreeSpace(r) \in Int
      BY <2>2, PageNumbers DEF PageStep, GoodPage
    <2>4. SlotSize <= r.freeSpace /\ SlotSize <= ContinuousFreeSpace(r) /\ r.firstFree = SlotCount(r)
      BY <1>2, <1>4, <2>1, <2>2, <2>3
    <2>5. /\ PageStep(r, w, {}) /\ SlotCount(w) = SlotCount(r) + 1
          /\ w.firstFree = SlotCount(w) /\ w.freeSpace = r.freeSpace - SlotSize
          /\ ContinuousFreeSpace(w) = ContinuousFreeSpace(r) - SlotSize
          /\ ~Taken(w, SlotCount(r))
      BY <2>3, <2>4, AppendKeeps
    <2>6. q = PlacedFree(w, f, n)
      <3>1. AppendedSlot(pg, n) = [w EXCEPT !.freeSpace = @ - n]
        <4>1. r.freeSpace - (n + SlotSize) = r.freeSpace - SlotSize - n
          BY <1>2, <2>3
        <4>2. AppendedSlot(pg, n) = [r EXCEPT !.firstFree = @ + 1, !.freeSpace = r.freeSpace - (n + SlotSize),
                                              !.slots = Append(@, EmptySlot)]
          BY DEF AppendedSlot, r
        <4>3. [w EXCEPT !.freeSpace = @ - n]
                 = [r EXCEPT !.firstFree = @ + 1, !.freeSpace = r.freeSpace - SlotSize - n,
                             !.slots = Append(@, EmptySlot)]
          BY <2>3 DEF PageType
        <4>4. QED
          BY <4>1, <4>2, <4>3
      <3>2. q = Placed(AppendedSlot(pg, n), f, n)
        BY <1>4 DEF Allocate, AllocatedSlot
      <3>3. QED
        BY <3>1, <3>2 DEF PlacedFree
    <2> HIDE DEF w, q
    <2>7. PageStep(pg, w, {} \cup {}) /\ {} \cup {} = {}
      BY <2>2, <2>5, PageStepsCompose
    <2>8. f \in 0..SlotCount(w) - 1 /\ ~Taken(w, f) /\ w.firstFree # f
      BY <1>2, <1>4, <2>2, <2>5
    <2>9. f \notin Stored(w)
      BY <2>8 DEF Stored, Taken, IsEmpty
    <2>10. ~Taken(w, w.firstFree)
      <3>1. SlotCount(w) \in Nat /\ SlotCount(w) \notin 0..SlotCount(w) - 1
        BY <1>2, <2>2, <2>5
      <3>2. QED
        BY <2>5, <3>1 DEF Taken
    <2>11. n <= w.freeSpace /\ ContinuousFreeSpace(w) >= n /\ w.freeSpace >= pg.freeSpace - SlotSize
      BY <1>2, <2>1, <2>2, <2>3, <2>5
    <2>12. Prepared(pg, w, n)
      BY <2>5, <2>7, <2>8, <2>9, <2>10, <2>11 DEF Prepared, PageStep
    <2>13. QED
      BY <1>3, <2>6, <2>12 DEF q
  <1>5. CASE f < SlotCount(pg)
    <2> DEFINE r == WithRoom(pg, n)
               later == {i \in (f + 1)..(SlotCount(pg) - 1) : IsEmpty(r, i)}
               next == IF later = {} THEN SlotCount(pg) ELSE Max(later)
               w == [r EXCEPT !.firstFree = next]
    <2>1. n <= pg.freeSpace
      BY <1>2, <1>5 DEF AllocateAsserts
    <2>2. /\ PageStep(pg, r, {}) /\ ContinuousFreeSpace(r) >= n
          /\ r.firstFree = pg.firstFree /\ r.freeSpace = pg.freeSpace /\ SlotCount(r) = SlotCount(pg)
      BY <2>1, WithRoomKeeps
    <2>3. q = PlacedFree(w, f, n)
      <3>1. q = Placed(ReusedSlot(pg, n), f, n)
        BY <1>2, <1>5 DEF Allocate, AllocatedSlot
      <3>2. ReusedSlot(pg, n) = [r EXCEPT !.firstFree = next, !.freeSpace = @ - n]
        BY DEF ReusedSlot
      <3> HIDE DEF next, r
      <3>3. r \in PageType
        BY <2>2 DEF PageStep, GoodPage
      <3>4. [w EXCEPT !.freeSpace = @ - n] = [r EXCEPT !.firstFree = next, !.freeSpace = @ - n]
        BY <3>3 DEF PageType
      <3>5. QED
        BY <3>1, <3>2, <3>4 DEF PlacedFree
    <2> HIDE DEF r
    <2>4. GoodPage(r) /\ r \in PageType
      BY <2>2 DEF PageStep, GoodPage
    <2>5. next \in Nat /\ next # f /\ ~Taken(r, next)
      <3>1. CASE later = {}
        <4>1. next = SlotCount(pg) /\ SlotCount(pg) \notin 0..SlotCount(pg) - 1
          BY <1>2, <3>1
        <4>2. QED
          BY <1>2, <1>5, <2>2, <4>1 DEF Taken
      <3>2. CASE later # {}
        <4>1. SlotCount(pg) - 1 \in Nat /\ later \in SUBSET (0..SlotCount(pg) - 1)
          BY <1>2, <1>5
        <4>2. Max(later) \in later
          BY <3>2, <4>1, NatMaximum
        <4>3. next \in later
          BY <3>2, <4>2
        <4>4. QED
          BY <1>2, <4>3 DEF Taken
      <3>3. QED
        BY <3>1, <3>2
    <2> HIDE DEF next, later
    <2>6. /\ w \in PageType /\ w.slots = r.slots /\ w.freeSpace = r.freeSpace /\ w.dataStart = r.dataStart
          /\ w.data = r.data /\ w.firstFree = next
      BY <2>4, <2>5 DEF PageType
    <2> HIDE DEF w, q
    <2>7. /\ GoodPage(w) /\ SlotCount(w) = SlotCount(r)
          /\ \A i : SlotAt(w, i) = SlotAt(r, i) /\ (Taken(w, i) <=> Taken(r, i))
      BY <2>4, <2>6, SameLayout
    <2>8. PageStep(r, w, {})
      BY <2>6, <2>7 DEF PageStep, Kept, Held
    <2>9. PageStep(pg, w, {} \cup {}) /\ {} \cup {} = {}
      BY <2>2, <2>8, PageStepsCompose
    <2>10. f \in 0..SlotCount(w) - 1 /\ ~Taken(w, f)
      BY <1>2, <1>5, <2>2, <2>7, <2>9 DEF PageStep
    <2>11. f \notin Stored(w)
      BY <2>10 DEF Stored, Taken, IsEmpty
    <2>12. ContinuousFreeSpace(w) = ContinuousFreeSpace(r)
      BY <2>6, <2>7 DEF ContinuousFreeSpace, SlotsEnd
    <2>13. n <= w.freeSpace /\ ContinuousFreeSpace(w) >= n /\ w.freeSpace >= pg.freeSpace - SlotSize
      BY <1>2, <2>1, <2>2, <2>6, <2>12
    <2>14. Prepared(pg, w, n)
      BY <2>5, <2>6, <2>7, <2>9, <2>10, <2>11, <2>13 DEF Prepared
    <2>15. QED
      BY <1>3, <2>3, <2>14 DEF q
  <1>6. QED
    BY <1>2, <1>4, <1>5 DEF AllocateAsserts

------------------------------------------------------------------------------
(* The inventory, and steps of the segment. *)

(* The codes of the inventory decode to numbers, and code 0 to nothing. *)
LEMMA DecodedIsNumber ==
    /\ \A code \in 0..15 : DecodeFreeSpace(code) \in Int
    /\ DecodeFreeSpace(0) = 0
  <1>1. FreeSize \in Nat
    BY PageAssumption DEF FreeSize
  <1>2. HalfPageSize \in Nat
    BY <1>1 DEF HalfPageSize
  <1>3. ASSUME NEW code \in 0..15 PROVE LookUpTable[code] \in Int
    <2>1. LookUpTable[code] = IF code >= 8 THEN FreeSize - (15 - code) * (HalfPageSize \div 8)
                              ELSE IF code = 0 THEN 0
                              ELSE HalfPageSize \div <<64, 32, 16, 8, 4, 2, 1>>[code]
      BY DEF LookUpTable
    <2>2. CASE code >= 8
      <3>1. HalfPageSize \div 8 \in Int /\ 15 - code \in Int
        BY <1>2
      <3>2. (15 - code) * (HalfPageSize \div 8) \in Int
        BY <3>1
      <3>3. QED
        BY <1>1, <2>1, <2>2, <3>2
    <2>3. CASE code = 0
      BY <2>1, <2>3
    <2>4. CASE code \in 1..7
      <3>1. <<64, 32, 16, 8, 4, 2, 1>>[code] \in Nat \ {0}
        BY <2>4
      <3>2. PICK d \in Nat \ {0} : d = <<64, 32, 16, 8, 4, 2, 1>>[code]
        BY <3>1
      <3>3. HalfPageSize \div d \in Int
        BY <1>2
      <3>4. QED
        BY <2>1, <2>4, <3>2, <3>3
    <2>5. QED
      BY <2>2, <2>3, <2>4
  <1>4. LookUpTable[0] = 0
    BY DEF LookUpTable
  <1>5. QED
    BY <1>3, <1>4 DEF DecodeFreeSpace

(* A code never promises more than was encoded. *)
LEMMA EncodedIsLess ==
    ASSUME NEW free \in Nat
    PROVE  EncodeFreeSpace(free) \in 0..15 /\ DecodeFreeSpace(EncodeFreeSpace(free)) <= free
  <1> DEFINE T == {code \in 0..15 : free >= LookUpTable[code]}
  <1>1. LookUpTable[0] = 0
    BY DecodedIsNumber DEF DecodeFreeSpace
  <1>2. 0 \in T
    BY <1>1
  <1>3. T \in SUBSET (0..15) /\ T # {} /\ 15 \in Nat
    BY <1>2
  <1>4. Max(T) \in T
    BY <1>3, NatMaximum
  <1>5. EncodeFreeSpace(free) = Max(T)
    BY DEF EncodeFreeSpace
  <1> HIDE DEF T
  <1>6. PICK code \in T : code = Max(T)
    BY <1>4
  <1>7. code \in 0..15 /\ free >= LookUpTable[code]
    BY DEF T
  <1>8. LookUpTable[code] \in Int
    BY <1>7, DecodedIsNumber DEF DecodeFreeSpace
  <1>9. QED
    BY <1>5, <1>6, <1>7, <1>8 DEF DecodeFreeSpace

(* find returns a page that promises the space, or none of the pages. *)
LEMMA FindFits ==
    ASSUME NEW fsi \in Seq(0..15), NEW required
    PROVE  \/ Find(fsi, required) = Len(fsi)
           \/ /\ Find(fsi, required) \in 0..Len(fsi) - 1
              /\ DecodeFreeSpace(fsi[Find(fsi, required) + 1]) >= required
  <1> DEFINE fitting == {p \in 0..Len(fsi) - 1 : DecodeFreeSpace(fsi[p + 1]) >= required}
  <1>1. CASE fitting = {}
    BY <1>1 DEF Find
  <1>2. CASE fitting # {}
    <2>1. fitting \in SUBSET Nat
      OBVIOUS
    <2>2. Min(fitting) \in fitting
      BY <1>2, <2>1, NatMinimum
    <2>3. Find(fsi, required) = Min(fitting)
      BY <1>2 DEF Find
    <2>4. QED
      BY <2>2, <2>3
  <1>3. QED
    BY <1>1, <1>2

(* Segment t is sg after a change to the slots of S: all others are kept. *)
SegmentStep(sg, t, S) ==
    /\ GoodSegment(t)
    /\ \A tid \in Address \ S : InUse(t, tid) <=> InUse(sg, tid)
    /\ \A tid \in Address \ S : InUse(sg, tid) => Kept(PageOf(sg, tid), PageOf(t, tid), tid[2])

(* Two changes are one change to the slots of both. *)
LEMMA SegmentStepsCompose ==
    ASSUME NEW sg, NEW t, NEW u, NEW S, NEW T, SegmentStep(sg, t, S), SegmentStep(t, u, T)
    PROVE  SegmentStep(sg, u, S \cup T)
  <1>1. GoodSegment(u)
    BY DEF SegmentStep
  <1>2. \A tid \in Address \ (S \cup T) : InUse(u, tid) <=> InUse(sg, tid)
    BY DEF SegmentStep
  <1>3. ASSUME NEW tid \in Address \ (S \cup T), InUse(sg, tid)
        PROVE  Kept(PageOf(sg, tid), PageOf(u, tid), tid[2])
    <2>1. Kept(PageOf(sg, tid), PageOf(t, tid), tid[2]) /\ Kept(PageOf(t, tid), PageOf(u, tid), tid[2])
          /\ Taken(PageOf(t, tid), tid[2])
      BY <1>3 DEF SegmentStep, InUse
    <2>2. tid[2] \in Stored(PageOf(sg, tid)) => tid[2] \in Stored(PageOf(t, tid))
      BY <2>1 DEF Stored, Kept, Taken
    <2>3. QED
      BY <2>1, <2>2 DEF Kept
  <1>4. QED
    BY <1>1, <1>2, <1>3 DEF SegmentStep

(* A page is replaced and its entry in the inventory set. *)
Changed(sg, p, q, code) ==
    [pages |-> [sg.pages EXCEPT ![p + 1] = q], fsi |-> [sg.fsi EXCEPT ![p + 1] = code]]

(* The page of number p. *)
PageAt(sg, p) == sg.pages[p + 1]

(* A page of a good segment is good, and so is its entry in the inventory. *)
LEMMA PageFound ==
    ASSUME NEW sg, GoodSegment(sg), NEW p \in 0..Len(sg.pages) - 1
    PROVE  /\ p \in Nat /\ p + 1 \in DOMAIN sg.pages /\ p + 1 \in DOMAIN sg.fsi
           /\ GoodEntry(PageAt(sg, p), sg.fsi[p + 1]) /\ GoodPage(PageAt(sg, p))
           /\ sg.fsi[p + 1] \in 0..15
           /\ \A i : PageOf(sg, <<p, i>>) = PageAt(sg, p)
  <1>1. sg.pages \in Seq(PageType) /\ sg.fsi \in Seq(0..15) /\ Len(sg.fsi) = Len(sg.pages)
    BY DEF GoodSegment, SegmentType
  <1>2. p \in Nat /\ p + 1 \in DOMAIN sg.pages /\ p + 1 \in DOMAIN sg.fsi
    BY <1>1
  <1>3. GoodEntry(sg.pages[p + 1], sg.fsi[p + 1])
    BY <1>2 DEF GoodSegment
  <1>4. sg.fsi[p + 1] \in 0..15
    BY <1>1, <1>2
  <1>5. QED
    BY <1>2, <1>3, <1>4 DEF GoodEntry, PageAt, PageOf

(* Page p of segment t is q, of which the inventory says code. *)
ChangedTo(sg, p, q, code, t) ==
    /\ t \in SegmentType /\ Len(t.pages) = Len(sg.pages) /\ Len(t.fsi) = Len(t.pages)
    /\ PageAt(t, p) = q /\ t.fsi[p + 1] = code
    /\ \A k \in DOMAIN sg.pages : k # p + 1 => t.pages[k] = sg.pages[k] /\ t.fsi[k] = sg.fsi[k]
    /\ \A o \in 0..Len(sg.pages) - 1 : o # p => PageAt(t, o) = PageAt(sg, o)

(* All other pages and entries are as they were. *)
LEMMA ChangedPages ==
    ASSUME NEW sg, GoodSegment(sg), NEW p \in 0..Len(sg.pages) - 1, NEW q \in PageType, NEW code \in 0..15
    PROVE  ChangedTo(sg, p, q, code, Changed(sg, p, q, code))
  <1> DEFINE t == Changed(sg, p, q, code)
  <1>1. sg.pages \in Seq(PageType) /\ sg.fsi \in Seq(0..15) /\ Len(sg.fsi) = Len(sg.pages)
    BY DEF GoodSegment, SegmentType
  <1>2. p \in Nat /\ p + 1 \in DOMAIN sg.pages /\ p + 1 \in DOMAIN sg.fsi
    BY PageFound
  <1>3. t.pages = [sg.pages EXCEPT ![p + 1] = q] /\ t.fsi = [sg.fsi EXCEPT ![p + 1] = code]
    BY DEF Changed
  <1>4. t.pages \in Seq(PageType) /\ Len(t.pages) = Len(sg.pages) /\ t.pages[p + 1] = q
    BY <1>1, <1>2, <1>3
  <1>5. t.fsi \in Seq(0..15) /\ Len(t.fsi) = Len(sg.fsi) /\ t.fsi[p + 1] = code
    BY <1>1, <1>2, <1>3
  <1>6. t \in SegmentType
    BY <1>4, <1>5 DEF SegmentType, Changed
  <1>7. \A k \in DOMAIN sg.pages : k # p + 1 => t.pages[k] = sg.pages[k] /\ t.fsi[k] = sg.fsi[k]
    BY <1>1, <1>3
  <1>8. ASSUME NEW o \in 0..Len(sg.pages) - 1, o # p PROVE PageAt(t, o) = PageAt(sg, o)
    <2>1. o \in Nat /\ o + 1 \in DOMAIN sg.pages
      BY PageFound
    <2>2. o + 1 # p + 1
      BY <1>2, <1>8, <2>1
    <2>3. QED
      BY <1>7, <2>1, <2>2 DEF PageAt
  <1>9. PageAt(t, p) = q
    BY <1>4 DEF PageAt
  <1> HIDE DEF t
  <1>10. QED
    BY <1>1, <1>4, <1>5, <1>6, <1>7, <1>8, <1>9 DEF ChangedTo, t

(***************************************************************************)
(* A step of a page, of which the inventory does not promise too much, is  *)
(* a step of the segment.                                                  *)
(***************************************************************************)
LEMMA PageReplaced ==
    ASSUME NEW sg, GoodSegment(sg), NEW p \in 0..Len(sg.pages) - 1, NEW q, NEW X, PageStep(PageAt(sg, p), q, X),
           ~Taken(q, q.firstFree), NEW code \in 0..15, DecodeFreeSpace(code) <= q.freeSpace
    PROVE  LET t == Changed(sg, p, q, code)
           IN  SegmentStep(sg, t, {p} \X X) /\ PageAt(t, p) = q /\ Len(t.pages) = Len(sg.pages)
  <1> DEFINE t == Changed(sg, p, q, code)
  <1>1. GoodPage(q) /\ q \in PageType
    BY DEF PageStep, GoodPage
  <1>0. ChangedTo(sg, p, q, code, t)
    BY <1>1, ChangedPages
  <1> HIDE DEF t
  <1>2. /\ t \in SegmentType /\ Len(t.pages) = Len(sg.pages) /\ Len(t.fsi) = Len(t.pages)
        /\ PageAt(t, p) = q /\ t.fsi[p + 1] = code
        /\ \A k \in DOMAIN sg.pages : k # p + 1 => t.pages[k] = sg.pages[k] /\ t.fsi[k] = sg.fsi[k]
        /\ \A o \in 0..Len(sg.pages) - 1 : o # p => PageAt(t, o) = PageAt(sg, o)
    BY <1>0 DEF ChangedTo
  <1>3. DOMAIN t.pages = DOMAIN sg.pages
    <2>1. t.pages \in Seq(PageType) /\ sg.pages \in Seq(PageType)
      BY <1>2 DEF GoodSegment, SegmentType
    <2>2. QED
      BY <1>2, <2>1
  <1>4. GoodSegment(t)
    <2>1. GoodEntry(q, code)
      BY <1>1 DEF GoodEntry
    <2>2. ASSUME NEW k \in DOMAIN t.pages PROVE GoodEntry(t.pages[k], t.fsi[k])
      <3>1. CASE k = p + 1
        BY <1>2, <2>1, <3>1 DEF PageAt
      <3>2. CASE k # p + 1
        BY <1>2, <1>3, <3>2 DEF GoodSegment
      <3>3. QED
        BY <3>1, <3>2
    <2>3. QED
      BY <1>2, <2>2 DEF GoodSegment
  <1>5. ASSUME NEW tid \in Address \ ({p} \X X)
        PROVE  /\ InUse(t, tid) <=> InUse(sg, tid)
               /\ InUse(sg, tid) => Kept(PageOf(sg, tid), PageOf(t, tid), tid[2])
    <2>1. tid = <<tid[1], tid[2]>>
      BY DEF Address
    <2>2. \A u : PageOf(u, tid) = PageAt(u, tid[1])
      BY DEF PageOf, PageAt
    <2>3. CASE tid[1] = p
      <3>1. tid[2] \notin X
        BY <2>1, <2>3
      <3>2. QED
        BY <1>2, <2>2, <2>3, <3>1 DEF InUse, PageStep
    <2>4. CASE tid[1] # p
      <3>1. tid[1] \in 0..Len(sg.pages) - 1 => PageAt(t, tid[1]) = PageAt(sg, tid[1])
        BY <1>2, <2>4
      <3>2. QED
        BY <1>2, <2>2, <3>1 DEF InUse, Kept
    <2>5. QED
      BY <2>3, <2>4
  <1>6. QED
    BY <1>2, <1>4, <1>5 DEF SegmentStep, t

(* A page that is replaced without a word to the inventory. *)
LEMMA WithPageChanges ==
    ASSUME NEW sg, GoodSegment(sg), NEW p \in 0..Len(sg.pages) - 1, NEW q
    PROVE  WithPage(sg, p, q) = Changed(sg, p, q, sg.fsi[p + 1])
  <1>1. sg = [pages |-> sg.pages, fsi |-> sg.fsi]
    BY DEF GoodSegment, SegmentType
  <1>2. sg.fsi = [sg.fsi EXCEPT ![p + 1] = sg.fsi[p + 1]]
    BY DEF GoodSegment, SegmentType
  <1>3. WithPage(sg, p, q) = [pages |-> [sg.pages EXCEPT ![p + 1] = q], fsi |-> sg.fsi]
    BY <1>1 DEF WithPage
  <1>4. QED
    BY <1>2, <1>3 DEF Changed

(* A page that is replaced and reported. *)
LEMMA ReportedChanges ==
    ASSUME NEW sg, GoodSegment(sg), NEW p \in 0..Len(sg.pages) - 1, NEW q
    PROVE  Reported(WithPage(sg, p, q), p) = Changed(sg, p, q, EncodeFreeSpace(q.freeSpace))
  <1>1. sg = [pages |-> sg.pages, fsi |-> sg.fsi] /\ sg.pages \in Seq(PageType)
    BY DEF GoodSegment, SegmentType
  <1>2. WithPage(sg, p, q) = [pages |-> [sg.pages EXCEPT ![p + 1] = q], fsi |-> sg.fsi]
    BY <1>1 DEF WithPage
  <1>3. [sg.pages EXCEPT ![p + 1] = q][p + 1] = q
    BY <1>1, PageFound
  <1> DEFINE pages2 == [sg.pages EXCEPT ![p + 1] = q]
  <1> HIDE DEF pages2
  <1>4. Reported([pages |-> pages2, fsi |-> sg.fsi], p)
          = [pages |-> pages2, fsi |-> [sg.fsi EXCEPT ![p + 1] = EncodeFreeSpace(pages2[p + 1].freeSpace)]]
    BY DEF Reported, Update
  <1>5. QED
    BY <1>2, <1>3, <1>4 DEF Changed, pages2

(* One slot changes, and only its page. *)
StepAt(sg, t, tid) ==
    /\ SegmentStep(sg, t, {tid}) /\ Len(t.pages) = Len(sg.pages)
    /\ \A o \in 0..Len(sg.pages) - 1 : o # tid[1] => PageAt(t, o) = PageAt(sg, o)

(* A step of the page of an address, reported or not. *)
LEMMA PageReplacedAt ==
    ASSUME NEW sg, GoodSegment(sg), NEW tid \in Address, tid[1] \in 0..Len(sg.pages) - 1,
           NEW q, PageStep(PageOf(sg, tid), q, {tid[2]}), ~Taken(q, q.firstFree)
    PROVE  /\ PageOf(sg, tid).freeSpace <= q.freeSpace =>
                 StepAt(sg, WithPage(sg, tid[1], q), tid) /\ PageOf(WithPage(sg, tid[1], q), tid) = q
           /\ LET t == Reported(WithPage(sg, tid[1], q), tid[1])
              IN  StepAt(sg, t, tid) /\ PageOf(t, tid) = q
  <1> DEFINE p == tid[1]
  <1>1. tid = <<p, tid[2]>> /\ {p} \X {tid[2]} = {tid}
    BY DEF Address
  <1>2. PageOf(sg, tid) = PageAt(sg, p)
    BY DEF PageOf, PageAt
  <1>3. ASSUME NEW code \in 0..15, DecodeFreeSpace(code) <= q.freeSpace, NEW t, t = Changed(sg, p, q, code)
        PROVE  StepAt(sg, t, tid) /\ PageOf(t, tid) = q
    <2>1. SegmentStep(sg, t, {p} \X {tid[2]}) /\ PageAt(t, p) = q /\ Len(t.pages) = Len(sg.pages)
      <3>1. PageStep(PageAt(sg, p), q, {tid[2]})
        BY <1>2
      <3> DEFINE u == Changed(sg, p, q, code)
      <3>2. SegmentStep(sg, u, {p} \X {tid[2]}) /\ PageAt(u, p) = q /\ Len(u.pages) = Len(sg.pages)
        BY <1>3, <3>1, PageReplaced
      <3>3. QED
        BY <1>3, <3>2
    <2>2. q \in PageType
      BY DEF PageStep, GoodPage
    <2>3. ChangedTo(sg, p, q, code, t)
      BY <1>3, <2>2, ChangedPages
    <2>4. PageOf(t, tid) = q
      BY <2>1 DEF PageOf, PageAt
    <2>5. QED
      BY <1>1, <2>1, <2>3, <2>4 DEF StepAt, ChangedTo
  <1>4. q.freeSpace \in Nat
    BY PageNumbers DEF PageStep, GoodPage
  <1>5. EncodeFreeSpace(q.freeSpace) \in 0..15 /\ DecodeFreeSpace(EncodeFreeSpace(q.freeSpace)) <= q.freeSpace
    BY <1>4, EncodedIsLess
  <1>6. /\ sg.fsi[p + 1] \in 0..15 /\ DecodeFreeSpace(sg.fsi[p + 1]) <= PageAt(sg, p).freeSpace
        /\ PageAt(sg, p).freeSpace \in Nat
    BY PageFound, PageNumbers DEF GoodEntry, GoodPage
  <1>7. DecodeFreeSpace(sg.fsi[p + 1]) \in Int
    BY <1>6, DecodedIsNumber
  <1>8. ASSUME PageOf(sg, tid).freeSpace <= q.freeSpace
        PROVE  StepAt(sg, WithPage(sg, p, q), tid) /\ PageOf(WithPage(sg, p, q), tid) = q
    <2>1. DecodeFreeSpace(sg.fsi[p + 1]) <= q.freeSpace
      BY <1>2, <1>4, <1>6, <1>7, <1>8
    <2>2. WithPage(sg, p, q) = Changed(sg, p, q, sg.fsi[p + 1])
      BY WithPageChanges
    <2>3. QED
      BY <1>3, <1>6, <2>1, <2>2
  <1>9. Reported(WithPage(sg, p, q), p) = Changed(sg, p, q, EncodeFreeSpace(q.freeSpace))
    BY ReportedChanges
  <1>10. QED
    BY <1>3, <1>5, <1>8, <1>9

(* The page of an address. *)
LEMMA PageOfGood ==
    ASSUME NEW sg, GoodSegment(sg), NEW tid \in Address, tid[1] \in 0..Len(sg.pages) - 1
    PROVE  /\ GoodPage(PageOf(sg, tid)) /\ ~Taken(PageOf(sg, tid), PageOf(sg, tid).firstFree)
           /\ PageOf(sg, tid) = PageAt(sg, tid[1])
  BY PageFound DEF GoodEntry, PageOf, PageAt

(* A step keeps what the addresses outside of it hold. *)
LEMMA StepKeeps ==
    ASSUME NEW sg, NEW t, NEW S, SegmentStep(sg, t, S), NEW tid \in Address \ S
    PROVE  /\ InUse(t, tid) <=> InUse(sg, tid)
           /\ StoredAt(t, tid) <=> StoredAt(sg, tid)
           /\ InUse(sg, tid) =>
                 /\ SlotOf(t, tid).kind = SlotOf(sg, tid).kind /\ SlotOf(t, tid).size = SlotOf(sg, tid).size
                 /\ SlotOf(t, tid).tid = SlotOf(sg, tid).tid
           /\ StoredAt(sg, tid) => HeldAt(t, tid) = HeldAt(sg, tid)
  <1>1. /\ InUse(t, tid) <=> InUse(sg, tid)
        /\ InUse(sg, tid) => Kept(PageOf(sg, tid), PageOf(t, tid), tid[2])
    BY DEF SegmentStep
  <1>2. ASSUME NEW u PROVE StoredAt(u, tid) <=> InUse(u, tid) /\ SlotOf(u, tid).kind \in {"record", "target"}
    BY DEF StoredAt, InUse, Taken, IsEmpty, Stored, SlotOf
  <1>3. InUse(sg, tid) =>
                 /\ SlotOf(t, tid).kind = SlotOf(sg, tid).kind /\ SlotOf(t, tid).size = SlotOf(sg, tid).size
                 /\ SlotOf(t, tid).tid = SlotOf(sg, tid).tid
    BY <1>1 DEF Kept, SlotOf
  <1>4. StoredAt(sg, tid) => HeldAt(t, tid) = HeldAt(sg, tid)
    BY <1>1, <1>2 DEF Kept, HeldAt, StoredAt
  <1>5. QED
    BY <1>1, <1>2, <1>3, <1>4

(* The record at an address is erased. *)
LEMMA WithoutKeeps ==
    ASSUME NEW sg, GoodSegment(sg), NEW tid, StoredAt(sg, tid)
    PROVE  StepAt(sg, Without(sg, tid), tid) /\ ~InUse(Without(sg, tid), tid)
  <1> DEFINE pg == PageOf(sg, tid)
             q == Erase(pg, tid[2])
  <1>1. tid \in Address /\ tid[1] \in 0..Len(sg.pages) - 1 /\ tid[2] \in Stored(pg)
    BY DEF StoredAt
  <1>2. GoodPage(pg) /\ ~Taken(pg, pg.firstFree)
    BY <1>1, PageOfGood
  <1>3. ErasedIn(pg, q, tid[2])
    BY <1>1, <1>2, EraseKeeps
  <1>4. Without(sg, tid) = Reported(WithPage(sg, tid[1], q), tid[1])
    BY DEF Without
  <1> HIDE DEF q, pg
  <1>5. StepAt(sg, Without(sg, tid), tid) /\ PageOf(Without(sg, tid), tid) = q
    <2>1. PageStep(pg, q, {tid[2]}) /\ ~Taken(q, q.firstFree)
      BY <1>2, <1>3 DEF ErasedIn
    <2>2. QED
      BY <1>1, <1>4, <2>1, PageReplacedAt DEF pg
  <1>6. QED
    BY <1>3, <1>5 DEF InUse, ErasedIn

(* A record is resized where it is. *)
RelocatedAt(sg, t, tid, n) ==
    /\ StepAt(sg, t, tid) /\ StoredAt(t, tid)
    /\ SlotOf(t, tid).kind \in {"record", SlotOf(sg, tid).kind} /\ SlotOf(t, tid).size = n
    /\ \A k \in 1..n : k <= SlotOf(sg, tid).size => HeldAt(t, tid)[k] = HeldAt(sg, tid)[k]

(* relocate of a record of the segment, reported to the inventory. *)
LEMMA RelocatedKeeps ==
    ASSUME NEW sg, GoodSegment(sg), NEW tid, StoredAt(sg, tid), NEW n \in Nat \ {0},
           n <= PageOf(sg, tid).freeSpace + SlotOf(sg, tid).size
    PROVE  RelocatedAt(sg, Reported(WithPage(sg, tid[1], Relocate(PageOf(sg, tid), tid[2], n)), tid[1]), tid, n)
  <1> DEFINE pg == PageOf(sg, tid)
             q == Relocate(pg, tid[2], n)
             t == Reported(WithPage(sg, tid[1], q), tid[1])
  <1>1. tid \in Address /\ tid[1] \in 0..Len(sg.pages) - 1 /\ tid[2] \in Stored(pg)
    BY DEF StoredAt
  <1>2. GoodPage(pg) /\ ~Taken(pg, pg.firstFree)
    BY <1>1, PageOfGood
  <1>3. RelocatedIn(pg, q, tid[2], n)
    BY <1>1, <1>2, RelocateKeeps DEF SlotOf
  <1> HIDE DEF q
  <1>4. pg.firstFree # tid[2]
    BY <1>1, <1>2 DEF Stored, Taken, IsEmpty
  <1>5. ~Taken(q, q.firstFree)
    BY <1>2, <1>3, <1>4 DEF RelocatedIn, PageStep
  <1>6. StepAt(sg, t, tid) /\ PageOf(t, tid) = q
    BY <1>1, <1>3, <1>5, PageReplacedAt DEF RelocatedIn
  <1> HIDE DEF t
  <1>7. StoredAt(t, tid)
    BY <1>1, <1>3, <1>6 DEF StoredAt, StepAt, RelocatedIn
  <1>8. SlotOf(t, tid) = SlotAt(q, tid[2]) /\ HeldAt(t, tid) = Held(q, tid[2])
    BY <1>6 DEF SlotOf, HeldAt
  <1>9. QED
    BY <1>3, <1>6, <1>7, <1>8 DEF RelocatedAt, RelocatedIn, SlotOf, HeldAt, t, q

(* A record is written, from its first byte on. *)
WrittenAt(sg, t, tid, m, bytes) ==
    /\ StepAt(sg, t, tid) /\ StoredAt(t, tid)
    /\ SlotOf(t, tid).kind = SlotOf(sg, tid).kind /\ SlotOf(t, tid).size = SlotOf(sg, tid).size
    /\ \A k \in 1..SlotOf(sg, tid).size : HeldAt(t, tid)[k] = IF k <= m THEN bytes[k] ELSE HeldAt(sg, tid)[k]

(* memcpy into a record of the segment. *)
LEMMA WrittenAtKeeps ==
    ASSUME NEW sg, GoodSegment(sg), NEW tid, StoredAt(sg, tid), NEW m \in Nat, m <= SlotOf(sg, tid).size,
           NEW bytes \in [1..m -> Content], NEW t,
           t = WithPage(sg, tid[1], [PageOf(sg, tid) EXCEPT !.data = Copied(@, SlotOf(sg, tid).offset, bytes)])
    PROVE  WrittenAt(sg, t, tid, m, bytes)
  <1> DEFINE pg == PageOf(sg, tid)
             q == [pg EXCEPT !.data = Copied(@, SlotAt(pg, tid[2]).offset, bytes)]
  <1>1. tid \in Address /\ tid[1] \in 0..Len(sg.pages) - 1 /\ tid[2] \in Stored(pg)
    BY DEF StoredAt
  <1>2. GoodPage(pg) /\ ~Taken(pg, pg.firstFree)
    BY <1>1, PageOfGood
  <1>3. m <= SlotAt(pg, tid[2]).size
    BY DEF SlotOf
  <1>4. WrittenIn(pg, q, tid[2], m, bytes)
    BY <1>1, <1>2, <1>3, WrittenKeeps
  <1>5. t = WithPage(sg, tid[1], q)
    BY DEF SlotOf
  <1> HIDE DEF q
  <1>6. /\ PageStep(pg, q, {tid[2]}) /\ ~Taken(q, q.firstFree) /\ q.freeSpace = pg.freeSpace /\ q.slots = pg.slots
        /\ pg.freeSpace \in Nat
    <2>1. pg.firstFree # tid[2]
      BY <1>1, <1>2 DEF Stored, Taken, IsEmpty
    <2>2. pg.freeSpace \in Nat
      BY <1>2, PageNumbers DEF GoodPage
    <2>3. QED
      BY <1>2, <1>4, <2>1, <2>2 DEF WrittenIn, PageStep
  <1>7. StepAt(sg, t, tid) /\ PageOf(t, tid) = q
    BY <1>1, <1>5, <1>6, PageReplacedAt
  <1>8. SlotAt(q, tid[2]) = SlotAt(pg, tid[2]) /\ Stored(q) = Stored(pg)
    BY <1>6 DEF SlotAt, Stored, SlotCount
  <1>9. StoredAt(t, tid)
    BY <1>1, <1>7, <1>8 DEF StoredAt, StepAt
  <1>10. QED
    BY <1>4, <1>7, <1>8, <1>9 DEF WrittenAt, WrittenIn, SlotOf, HeldAt

------------------------------------------------------------------------------
(* Redirects and their targets. *)

(* The slot of an address becomes a redirect, or another one. *)
RedirectedAt(sg, t, tid, target) ==
    /\ StepAt(sg, t, tid) /\ InUse(t, tid)
    /\ SlotOf(t, tid).kind = "redirect" /\ SlotOf(t, tid).tid = target

(* A slot in use that becomes a redirect, reported to the inventory or not. *)
LEMMA RedirectedKeeps ==
    ASSUME NEW sg, GoodSegment(sg), NEW tid \in Address, InUse(sg, tid), NEW target \in Address, NEW q,
           q = [PageOf(sg, tid) EXCEPT !.slots[tid[2] + 1] = RedirectSlot(target),
                                       !.freeSpace = @ + SizeIn(PageOf(sg, tid), tid[2])]
    PROVE  /\ RedirectedAt(sg, WithPage(sg, tid[1], q), tid, target)
           /\ RedirectedAt(sg, Reported(WithPage(sg, tid[1], q), tid[1]), tid, target)
  <1> DEFINE pg == PageOf(sg, tid)
             x == tid[2]
  <1>1. /\ tid[1] \in 0..Len(sg.pages) - 1 /\ x \in 0..SlotCount(pg) - 1 /\ Taken(pg, x)
    BY DEF InUse, Taken
  <1>2. GoodPage(pg) /\ ~Taken(pg, pg.firstFree)
    BY <1>1, PageOfGood
  <1>3. /\ RedirectSlot(target) \in SlotType /\ RedirectSlot(target).kind = "redirect"
        /\ RedirectSlot(target).tid = target
    BY DEF RedirectSlot, EmptySlot, SlotType
  <1>4. RedirectSlot(target).kind \notin {"record", "target"}
    BY <1>3
  <1> DEFINE s == RedirectSlot(target)
  <1> HIDE DEF s
  <1>5. UnstoredIn(pg, q, x, s)
    <2>1. q = [pg EXCEPT !.slots[x + 1] = s, !.freeSpace = @ + SizeIn(pg, x)]
      BY DEF s
    <2>2. s \in SlotType /\ s.kind \notin {"record", "target"}
      BY <1>3, <1>4 DEF s
    <2>3. QED
      BY <1>1, <1>2, <2>1, <2>2, UnstoredKeeps
  <1>6. /\ PageStep(pg, q, {x}) /\ ~Taken(q, q.firstFree) /\ pg.freeSpace <= q.freeSpace
    <2>1. pg.freeSpace \in Nat /\ SizeIn(pg, x) \in Nat
      BY <1>2, PageNumbers, UsedSplits DEF GoodPage, SoundPage, Laid
    <2>2. pg.firstFree # x
      BY <1>1, <1>2
    <2>3. QED
      BY <1>2, <1>5, <2>1, <2>2 DEF UnstoredIn, PageStep
  <1>7. /\ SlotAt(q, x).kind = "redirect" /\ SlotAt(q, x).tid = target /\ Taken(q, x)
    BY <1>1, <1>3, <1>5 DEF UnstoredIn, SlotSet, Taken, IsEmpty, s
  <1>8. ASSUME NEW t, StepAt(sg, t, tid), PageOf(t, tid) = q
        PROVE  RedirectedAt(sg, t, tid, target)
    BY <1>1, <1>7, <1>8 DEF RedirectedAt, InUse, SlotOf, StepAt
  <1>9. ASSUME NEW z, PageStep(PageOf(sg, tid), z, {tid[2]}), ~Taken(z, z.firstFree),
               PageOf(sg, tid).freeSpace <= z.freeSpace
        PROVE  /\ StepAt(sg, WithPage(sg, tid[1], z), tid) /\ PageOf(WithPage(sg, tid[1], z), tid) = z
               /\ StepAt(sg, Reported(WithPage(sg, tid[1], z), tid[1]), tid)
               /\ PageOf(Reported(WithPage(sg, tid[1], z), tid[1]), tid) = z
    BY <1>1, <1>9, PageReplacedAt
  <1>10. /\ StepAt(sg, WithPage(sg, tid[1], q), tid) /\ PageOf(WithPage(sg, tid[1], q), tid) = q
         /\ StepAt(sg, Reported(WithPage(sg, tid[1], q), tid[1]), tid)
         /\ PageOf(Reported(WithPage(sg, tid[1], q), tid[1]), tid) = q
    BY <1>6, <1>9
  <1>11. QED
    BY <1>8, <1>10

(* The bytes of a TID and then those of a record. *)
LEMMA MarkedBytes ==
    ASSUME NEW tid \in Address, NEW m \in Nat, NEW bytes \in [1..m -> Content], TIDSize \in Nat \ {0}
    PROVE  /\ TIDBytes(tid) \o bytes \in [1..TIDSize + m -> Content]
           /\ \A k \in 1..TIDSize : (TIDBytes(tid) \o bytes)[k] = TIDBytes(tid)[k]
           /\ \A k \in 1..m : (TIDBytes(tid) \o bytes)[TIDSize + k] = bytes[k]
  <1> DEFINE front == TIDBytes(tid)
             all == front \o bytes
  <1>1. front \in [1..TIDSize -> Content]
    BY DEF TIDBytes, Content
  <1> HIDE DEF front
  <1>2. front \in Seq(Content) /\ Len(front) = TIDSize
    BY <1>1
  <1>3. bytes \in Seq(Content) /\ Len(bytes) = m
    OBVIOUS
  <1>4. /\ all \in Seq(Content) /\ Len(all) = TIDSize + m
        /\ \A i \in 1..TIDSize + m : all[i] = IF i <= TIDSize THEN front[i] ELSE bytes[i - TIDSize]
    BY <1>2, <1>3, ConcatProperties
  <1> HIDE DEF all
  <1>5. all \in [1..TIDSize + m -> Content]
    BY <1>4
  <1>6. ASSUME NEW k \in 1..TIDSize PROVE all[k] = front[k]
    <2>1. k \in 1..TIDSize + m /\ k <= TIDSize
      OBVIOUS
    <2>2. QED
      BY <1>4, <2>1
  <1>7. ASSUME NEW k \in 1..m PROVE all[TIDSize + k] = bytes[k]
    <2>1. TIDSize + k \in 1..TIDSize + m /\ ~(TIDSize + k <= TIDSize) /\ TIDSize + k - TIDSize = k
      OBVIOUS
    <2>2. PICK i \in 1..TIDSize + m : i = TIDSize + k
      BY <2>1
    <2>3. all[i] = IF i <= TIDSize THEN front[i] ELSE bytes[i - TIDSize]
      BY <1>4
    <2>4. ~(i <= TIDSize) /\ i - TIDSize = k
      BY <2>1, <2>2
    <2>5. QED
      BY <2>2, <2>3, <2>4
  <1>8. QED
    BY <1>5, <1>6, <1>7 DEF all, front

(* A redirect target: its mark, the TID it belongs to, and the record behind. *)
FilledAt(sg, t, target, tid, m, bytes) ==
    /\ StepAt(sg, t, target) /\ StoredAt(t, target)
    /\ SlotOf(t, target).kind = "target" /\ SlotOf(t, target).size = SlotOf(sg, target).size
    /\ \A k \in 1..TIDSize : HeldAt(t, target)[k] = TIDBytes(tid)[k]
    /\ \A k \in 1..m : HeldAt(t, target)[TIDSize + k] = bytes[k]

(* A target that gets its mark, the TID of its record and the bytes. *)
LEMMA FilledKeeps ==
    ASSUME NEW sg, GoodSegment(sg), NEW target, StoredAt(sg, target), NEW tid \in Address,
           NEW m \in Nat, TIDSize + m <= SlotOf(sg, target).size, NEW bytes \in [1..m -> Content]
    PROVE  FilledAt(sg, FilledTarget(sg, target, tid, bytes), target, tid, m, bytes)
  <1> DEFINE pg == PageOf(sg, target)
             x == target[2]
             size == SlotAt(pg, x).size
             all == TIDBytes(tid) \o bytes
             marked == [SlotAt(pg, x) EXCEPT !.size = size, !.kind = "target"]
             r == [pg EXCEPT !.slots[x + 1] = marked, !.freeSpace = @ + size - size]
             q == [r EXCEPT !.data = Copied(@, SlotAt(r, x).offset, all)]
             t == FilledTarget(sg, target, tid, bytes)
  <1>1. target \in Address /\ target[1] \in 0..Len(sg.pages) - 1 /\ x \in Stored(pg)
    BY DEF StoredAt
  <1>2. GoodPage(pg) /\ ~Taken(pg, pg.firstFree) /\ pg \in PageType /\ x \in 0..SlotCount(pg) - 1
    BY <1>1, PageOfGood DEF GoodPage, Stored
  <1>3. TIDSize \in Nat \ {0} /\ TIDSize + m \in Nat
    BY PageAssumption DEF TIDSize
  <1>4. /\ all \in [1..TIDSize + m -> Content]
        /\ \A k \in 1..TIDSize : all[k] = TIDBytes(tid)[k]
        /\ \A k \in 1..m : all[TIDSize + k] = bytes[k]
    BY <1>3, MarkedBytes
  <1>5. PICK n \in Nat \ {0} : n = size
    BY <1>1, <1>2, GoodPlacing
  <1>6. SlotAt(pg, x) \in SlotType /\ SlotAt(pg, x) = pg.slots[x + 1] /\ x + 1 \in DOMAIN pg.slots
    BY <1>2, SlotTyped DEF SlotAt
  <1> HIDE DEF all
  <1>7. t = WithPage(sg, target[1], q)
    <2>1. marked = [SlotAt(pg, x) EXCEPT !.kind = "target"]
      BY <1>6 DEF SlotType
    <2>2. pg.freeSpace + size - size = pg.freeSpace
      BY <1>2, <1>5, PageNumbers
    <2> HIDE DEF marked
    <2>3. r = [pg EXCEPT !.slots[x + 1] = marked]
      BY <1>2, <2>2 DEF PageType
    <2>4. r = [pg EXCEPT !.slots[x + 1].kind = "target"]
      BY <1>6, <2>1, <2>3
    <2>5. SlotAt(r, x).offset = SlotAt(pg, x).offset
      <3>1. r.slots = [pg.slots EXCEPT ![x + 1] = marked]
        BY <1>2, <2>3 DEF PageType
      <3>2. r.slots[x + 1] = marked
        BY <1>6, <3>1
      <3>3. QED
        BY <1>6, <2>1, <3>2 DEF SlotAt, SlotType
    <2> HIDE DEF r
    <2>6. q = [r EXCEPT !.data = Copied(@, SlotAt(pg, x).offset, all)]
      BY <2>5
    <2>7. q = [pg EXCEPT !.slots[x + 1].kind = "target", !.data = Copied(@, SlotAt(pg, x).offset, all)]
      BY <2>4, <2>6
    <2>8. t = WithPage(sg, target[1],
                 [pg EXCEPT !.slots[x + 1].kind = "target", !.data = Copied(@, SlotAt(pg, x).offset, all)])
      BY DEF FilledTarget, SlotOf, all
    <2>9. QED
      BY <2>7, <2>8
  <1>8. ResizedIn(pg, r, x, n, "target")
    <2>1. r = [pg EXCEPT !.slots[x + 1] = [SlotAt(pg, x) EXCEPT !.size = n, !.kind = "target"],
                         !.freeSpace = @ + SlotAt(pg, x).size - n]
      BY <1>5
    <2> HIDE DEF r
    <2>2. n <= SlotAt(pg, x).size
      BY <1>5
    <2>3. QED
      BY <1>1, <1>2, <2>1, <2>2, CutKeeps
  <1> HIDE DEF r, t
  <1>9. GoodPage(r) /\ x \in Stored(r) /\ SlotAt(r, x).size = n
    BY <1>8 DEF ResizedIn, PageStep
  <1>10. TIDSize + m <= n
    BY <1>5 DEF SlotOf
  <1>11. WrittenIn(r, q, x, TIDSize + m, all)
    BY <1>3, <1>4, <1>9, <1>10, WrittenKeeps
  <1> HIDE DEF q
  <1>12. /\ PageStep(pg, q, {x}) /\ ~Taken(q, q.firstFree) /\ pg.freeSpace <= q.freeSpace
    <2>1. PageStep(pg, q, {x} \cup {x}) /\ {x} \cup {x} = {x}
      BY <1>8, <1>11, PageStepsCompose DEF ResizedIn, WrittenIn
    <2>2. pg.freeSpace \in Nat
      BY <1>2, PageNumbers
    <2>3. q.freeSpace = pg.freeSpace /\ q.firstFree = pg.firstFree
      BY <1>5, <1>8, <1>11, <2>2 DEF ResizedIn, WrittenIn
    <2>4. pg.firstFree # x
      BY <1>1, <1>2 DEF Stored, Taken, IsEmpty
    <2>5. QED
      BY <1>2, <2>1, <2>2, <2>3, <2>4 DEF PageStep
  <1>13. StepAt(sg, t, target) /\ PageOf(t, target) = q
    BY <1>1, <1>7, <1>12, PageReplacedAt
  <1>14. /\ SlotAt(q, x) = SlotAt(r, x) /\ x \in Stored(q)
    BY <1>9, <1>11 DEF WrittenIn, SlotAt, Stored, SlotCount
  <1>15. /\ StoredAt(t, target) /\ SlotOf(t, target).kind = "target"
         /\ SlotOf(t, target).size = SlotOf(sg, target).size
    BY <1>1, <1>5, <1>8, <1>13, <1>14 DEF StoredAt, SlotOf, ResizedIn, StepAt
  <1>16. Held(q, x) = [k \in 1..n |-> IF k <= TIDSize + m THEN all[k] ELSE Held(r, x)[k]]
    BY <1>9, <1>11 DEF WrittenIn
  <1>17. ASSUME NEW k \in 1..TIDSize PROVE Held(q, x)[k] = TIDBytes(tid)[k]
    <2>1. k \in 1..n /\ k <= TIDSize + m
      BY <1>3, <1>10
    <2>2. QED
      BY <1>4, <1>16, <2>1
  <1>18. ASSUME NEW k \in 1..m PROVE Held(q, x)[TIDSize + k] = bytes[k]
    <2>1. TIDSize + k \in 1..n /\ TIDSize + k <= TIDSize + m
      BY <1>3, <1>10
    <2>2. QED
      BY <1>4, <1>16, <2>1
  <1>19. HeldAt(t, target) = Held(q, x)
    BY <1>13 DEF HeldAt
  <1>20. QED
    BY <1>13, <1>15, <1>17, <1>18, <1>19 DEF FilledAt, t

(***************************************************************************)
(* A slot without data becomes a record again: it is made one of size 0,   *)
(* relocated and filled.                                                   *)
(***************************************************************************)
Refilled(pg, x, n, bytes) ==
    LET r == Relocate([pg EXCEPT !.slots[x + 1] = RecordSlot(1, 0)], x, n)
    IN  [r EXCEPT !.data = Copied(@, SlotAt(r, x).offset, bytes)]

RefilledIn(pg, q, x, n, m, bytes) ==
    /\ PageStep(pg, q, {x}) /\ SlotCount(q) = SlotCount(pg) /\ x \in Stored(q)
    /\ SlotAt(q, x).kind = "record" /\ SlotAt(q, x).size = n
    /\ q.firstFree = pg.firstFree
    /\ \A k \in 1..m : Held(q, x)[k] = bytes[k]

(* The slot of a redirect that takes its record back. *)
LEMMA RefilledKeeps ==
    ASSUME NEW pg, GoodPage(pg), NEW x \in 0..SlotCount(pg) - 1, x \notin Stored(pg),
           NEW n \in Nat \ {0}, n <= pg.freeSpace, NEW m \in Nat, m <= n, NEW bytes \in [1..m -> Content]
    PROVE  RefilledIn(pg, Refilled(pg, x, n, bytes), x, n, m, bytes)
  <1> DEFINE c == [pg EXCEPT !.slots[x + 1] = RecordSlot(1, 0)]
             e == [pg EXCEPT !.slots[x + 1] = EmptySlot, !.freeSpace = @ + SizeIn(pg, x)]
             r == Relocate(c, x, n)
             none == BytesAt(pg.data, 1, 0)
             q == [r EXCEPT !.data = Copied(@, SlotAt(r, x).offset, bytes)]
  <1>1. pg \in PageType /\ x + 1 \in DOMAIN pg.slots /\ pg.slots \in Seq(SlotType)
    BY SlotTyped DEF GoodPage, PageType
  <1>2. UnstoredIn(pg, e, x, EmptySlot)
    <2>1. EmptySlot \in SlotType /\ EmptySlot.kind \notin {"record", "target"}
      BY DEF EmptySlot, SlotType
    <2> HIDE DEF e
    <2>2. e = [pg EXCEPT !.slots[x + 1] = EmptySlot, !.freeSpace = @ + SizeIn(pg, x)]
      BY DEF e
    <2>3. QED
      BY <2>1, <2>2, UnstoredKeeps
  <1>3. SizeIn(pg, x) = 0 /\ pg.freeSpace + 0 = pg.freeSpace /\ pg.dataStart + 0 = pg.dataStart
    BY <1>1, PageNumbers DEF SizeIn
  <1>4. Vacated(c, x) = e
    <2>1. /\ c.slots = [pg.slots EXCEPT ![x + 1] = RecordSlot(1, 0)] /\ c.freeSpace = pg.freeSpace
          /\ c.dataStart = pg.dataStart /\ c.firstFree = pg.firstFree /\ c.data = pg.data
      BY <1>1 DEF PageType
    <2>2. SlotAt(c, x) = RecordSlot(1, 0)
      BY <1>1, <2>1 DEF SlotAt
    <2>3. SlotAt(c, x).size = 0
      BY <2>2 DEF RecordSlot
    <2>4. [c.slots EXCEPT ![x + 1] = EmptySlot] = [pg.slots EXCEPT ![x + 1] = EmptySlot]
      BY <1>1, <2>1
    <2> HIDE DEF c
    <2>5. Vacated(c, x) = [c EXCEPT !.freeSpace = c.freeSpace + 0, !.dataStart = c.dataStart,
                                    !.slots = [c.slots EXCEPT ![x + 1] = EmptySlot]]
      <3>1. (IF SlotAt(c, x).offset = c.dataStart THEN c.dataStart + SlotAt(c, x).size ELSE c.dataStart) = c.dataStart
        BY <1>3, <2>1, <2>3
      <3>2. QED
        BY <2>3, <3>1 DEF Vacated
    <2>6. Vacated(c, x) = [c EXCEPT !.slots = [pg.slots EXCEPT ![x + 1] = EmptySlot]]
      <3> DEFINE slots2 == [pg.slots EXCEPT ![x + 1] = EmptySlot]
      <3>1. Vacated(c, x) = [c EXCEPT !.freeSpace = c.freeSpace, !.dataStart = c.dataStart, !.slots = slots2]
        BY <1>3, <2>1, <2>4, <2>5
      <3> HIDE DEF slots2
      <3>2. QED
        BY <1>1, <2>1, <3>1 DEF PageType, c, slots2
    <2>7. e = [pg EXCEPT !.slots = [pg.slots EXCEPT ![x + 1] = EmptySlot]]
      BY <1>1, <1>3 DEF PageType
    <2>8. QED
      BY <1>1, <2>6, <2>7 DEF PageType, c
  <1>5. r = GrownFrom(e, x, n, none)
    <2>1. SlotAt(c, x) = RecordSlot(1, 0) /\ c.data = pg.data
      BY <1>1 DEF SlotAt, PageType
    <2>2. SlotAt(c, x).size = 0 /\ SlotAt(c, x).offset = 1
      BY <2>1 DEF RecordSlot
    <2>3. r = Grown(c, x, n)
      BY <2>2 DEF Relocate
    <2> HIDE DEF c, e
    <2>4. QED
      BY <1>4, <2>1, <2>2, <2>3 DEF Grown, GrownFrom
  <1>6. GoodPage(e) /\ SlotCount(e) = SlotCount(pg) /\ x \in 0..SlotCount(e) - 1 /\ x \notin Stored(e)
        /\ e.freeSpace = pg.freeSpace /\ e.firstFree = pg.firstFree /\ PageStep(pg, e, {x})
    BY <1>2, <1>3 DEF UnstoredIn, PageStep, SlotSet, Stored, EmptySlot, IsEmpty
  <1> HIDE DEF e
  <1>7. none \in [1..0 -> Content]
    BY DEF BytesAt
  <1>8. GrownIn(e, GrownFrom(e, x, n, none), x, n, 0, none)
    <2>1. 0 \in Nat /\ 0 <= n /\ n <= e.freeSpace
      BY <1>6
    <2>2. QED
      BY <1>6, <1>7, <2>1, GrownFromKeeps
  <1>9. GrownIn(e, r, x, n, 0, none)
    BY <1>5, <1>8
  <1> HIDE DEF r
  <1>10. GoodPage(r) /\ x \in Stored(r) /\ m <= SlotAt(r, x).size
    BY <1>9 DEF GrownIn, PageStep
  <1>11. WrittenIn(r, q, x, m, bytes)
    BY <1>10, WrittenKeeps
  <1>12. q = Refilled(pg, x, n, bytes)
    BY DEF Refilled, r, c
  <1> HIDE DEF q
  <1>13. PageStep(pg, q, {x})
    <2>1. PageStep(pg, r, {x} \cup {x})
      BY <1>6, <1>9, PageStepsCompose DEF GrownIn
    <2>2. PageStep(pg, q, ({x} \cup {x}) \cup {x}) /\ ({x} \cup {x}) \cup {x} = {x}
      BY <1>11, <2>1, PageStepsCompose DEF WrittenIn
    <2>3. QED
      BY <2>2
  <1>14. q.firstFree = pg.firstFree /\ q.slots = r.slots
    BY <1>6, <1>9, <1>11 DEF GrownIn, WrittenIn
  <1>15. SlotCount(q) = SlotCount(pg) /\ x \in Stored(q) /\ SlotAt(q, x) = SlotAt(r, x)
    BY <1>6, <1>9, <1>14 DEF GrownIn, SlotCount, Stored, SlotAt
  <1>16. ASSUME NEW k \in 1..m PROVE Held(q, x)[k] = bytes[k]
    <2>1. k \in 1..n /\ k <= m
      OBVIOUS
    <2>2. Held(q, x) = [j \in 1..n |-> IF j <= m THEN bytes[j] ELSE Held(r, x)[j]]
      BY <1>9, <1>11 DEF GrownIn, WrittenIn
    <2>3. QED
      BY <2>1, <2>2
  <1>17. QED
    BY <1>9, <1>12, <1>13, <1>14, <1>15, <1>16 DEF RefilledIn, GrownIn

(* A page without slots. *)
LEMMA NewPageIsGood ==
    /\ GoodPage(NewPage) /\ ~Taken(NewPage, NewPage.firstFree)
    /\ \A i : ~Taken(NewPage, i)
    /\ \A n \in Nat : n + SlotSize <= PageSize - HeaderSize => AllocateAsserts(NewPage, n)
  <1> DEFINE pg == NewPage
  <1>1. PageSize \in Nat /\ HeaderSize \in Nat /\ HeaderSize <= PageSize /\ SlotSize \in Nat
    BY PageAssumption
  <1>2. /\ pg.slots = <<>> /\ pg.firstFree = 0 /\ pg.dataStart = PageSize /\ pg.freeSpace = PageSize - HeaderSize
        /\ pg.data = [b \in 0..PageSize - 1 |-> ZeroByte]
    BY DEF NewPage
  <1>3. pg \in PageType
    <2>1. pg.data \in [0..PageSize - 1 -> Content]
      BY <1>2, PageAssumption DEF Content
    <2>2. pg.slots \in Seq(SlotType) /\ pg.freeSpace \in Nat /\ pg.dataStart \in Nat /\ pg.firstFree \in Nat
      BY <1>1, <1>2
    <2>3. pg = [slots |-> pg.slots, firstFree |-> pg.firstFree, dataStart |-> pg.dataStart,
                freeSpace |-> pg.freeSpace, data |-> pg.data]
      BY DEF NewPage
    <2> HIDE DEF pg
    <2>4. QED
      BY <2>1, <2>2, <2>3 DEF PageType
  <1>4. SlotCount(pg) = 0 /\ SlotsEnd(pg) = HeaderSize
    <2>1. SlotCount(pg) = 0
      BY <1>2 DEF SlotCount
    <2>2. 0 * SlotSize = 0
      BY <1>1
    <2>3. QED
      BY <1>1, <2>1, <2>2 DEF SlotsEnd
  <1> HIDE DEF pg
  <1>5. Stored(pg) = {}
    BY <1>4 DEF Stored
  <1>6. Used(pg) = {}
    BY <1>5 DEF Used
  <1>7. SoundPage(pg)
    <2>1. Cardinality(Used(pg)) = 0
      BY <1>6, FS_EmptySet
    <2>2. QED
      BY <1>1, <1>2, <1>4, <1>5, <2>1 DEF SoundPage, FreeSpaceIsExact, RecordsApart
  <1>8. GoodPage(pg)
    BY <1>1, <1>2, <1>3, <1>5, <1>7 DEF GoodPage
  <1>9. \A i : ~Taken(pg, i)
    BY <1>4 DEF Taken
  <1>10. ASSUME NEW n \in Nat, n + SlotSize <= PageSize - HeaderSize PROVE AllocateAsserts(pg, n)
    BY <1>1, <1>2, <1>4, <1>10 DEF AllocateAsserts, ContinuousFreeSpace
  <1>11. QED
    BY <1>8, <1>9, <1>10 DEF pg

(* The slot at an address is new, and a record of zeros. *)
AllocatedAt(sg, t, tid, n) ==
    /\ tid \in Address /\ ~InUse(sg, tid)
    /\ SegmentStep(sg, t, {tid}) /\ Len(sg.pages) <= Len(t.pages)
    /\ \A o \in 0..Len(sg.pages) - 1 : o # tid[1] => PageAt(t, o) = PageAt(sg, o)
    /\ StoredAt(t, tid) /\ SlotOf(t, tid).kind = "record" /\ SlotOf(t, tid).size = n
    /\ HeldAt(t, tid) = ZeroBytes(n)

(* On a page of the segment. *)
LEMMA AllocatedOnPage ==
    ASSUME NEW sg, GoodSegment(sg), NEW n \in Nat \ {0}, AllocateIsSafe(sg, n), TargetPage(sg, n) < Len(sg.pages)
    PROVE  AllocatedAt(sg, Allocated(sg, n), TargetTID(sg, n), n)
  <1> DEFINE p == TargetPage(sg, n)
             pg == PageAt(sg, p)
             q == Allocate(pg, n)
             f == AllocatedSlot(pg)
             code == EncodeFreeSpace(DecodeFreeSpace(sg.fsi[p + 1]) - (n + SlotSize))
             t == Changed(sg, p, q, code)
  <1>1. sg.fsi \in Seq(0..15) /\ Len(sg.fsi) = Len(sg.pages) /\ Len(sg.pages) \in Nat /\ SlotSize \in Nat
    BY PageAssumption DEF GoodSegment, SegmentType
  <1>2. p \in 0..Len(sg.pages) - 1 /\ DecodeFreeSpace(sg.fsi[p + 1]) >= n + SlotSize
    <2>1. \/ Find(sg.fsi, n + SlotSize) = Len(sg.fsi)
          \/ /\ Find(sg.fsi, n + SlotSize) \in 0..Len(sg.fsi) - 1
             /\ DecodeFreeSpace(sg.fsi[Find(sg.fsi, n + SlotSize) + 1]) >= n + SlotSize
      BY <1>1, FindFits
    <2>2. p # Len(sg.fsi)
      BY <1>1
    <2>3. QED
      BY <1>1, <2>1, <2>2 DEF TargetPage
  <1> HIDE DEF p
  <1>3. /\ p \in Nat /\ GoodPage(pg) /\ ~Taken(pg, pg.firstFree) /\ pg = sg.pages[p + 1]
        /\ sg.fsi[p + 1] \in 0..15 /\ DecodeFreeSpace(sg.fsi[p + 1]) <= pg.freeSpace
    BY <1>2, PageFound DEF GoodEntry, PageAt
  <1>4. AllocateAsserts(pg, n)
    BY <1>3 DEF AllocateIsSafe, p
  <1>5. AllocatedIn(pg, q, n)
    BY <1>3, <1>4, AllocateKeeps
  <1>6. f \in Nat /\ pg.freeSpace \in Nat
    BY <1>3, PageNumbers DEF AllocatedSlot, GoodPage
  <1>7. p # Len(sg.pages)
    BY <1>1, <1>2
  <1>8. TargetTID(sg, n) = <<p, f>> /\ <<p, f>> \in Address
    BY <1>3, <1>6, <1>7 DEF TargetTID, p, Address
  <1>9. Allocated(sg, n) = t
    <2>1. sg = [pages |-> sg.pages, fsi |-> sg.fsi]
      BY DEF GoodSegment, SegmentType
    <2>2. Allocated(sg, n) = [WithPage(sg, p, q) EXCEPT !.fsi = Charged(@, p, n + SlotSize)]
      BY <1>3 DEF Allocated, p
    <2> HIDE DEF q
    <2>3. WithPage(sg, p, q) = [pages |-> [sg.pages EXCEPT ![p + 1] = q], fsi |-> sg.fsi]
      BY <2>1 DEF WithPage
    <2> DEFINE pages2 == [sg.pages EXCEPT ![p + 1] = q]
    <2> HIDE DEF pages2
    <2>4. WithPage(sg, p, q).fsi = sg.fsi /\ WithPage(sg, p, q).pages = pages2
      BY <2>3 DEF pages2
    <2>5. Allocated(sg, n) = [pages |-> pages2, fsi |-> Charged(sg.fsi, p, n + SlotSize)]
      <3>1. WithPage(sg, p, q) = [pages |-> pages2, fsi |-> sg.fsi]
        BY <2>3 DEF pages2
      <3>2. QED
        BY <2>2, <3>1
    <2>6. Charged(sg.fsi, p, n + SlotSize) = [sg.fsi EXCEPT ![p + 1] = code]
      BY DEF Charged, Update
    <2>7. QED
      BY <2>5, <2>6 DEF Changed, pages2
  <1>10. /\ code \in 0..15 /\ DecodeFreeSpace(code) <= q.freeSpace
    <2>1. DecodeFreeSpace(sg.fsi[p + 1]) \in Int
      BY <1>3, DecodedIsNumber
    <2>2. PICK d \in Nat : d = DecodeFreeSpace(sg.fsi[p + 1]) - (n + SlotSize)
      BY <1>1, <1>2, <2>1
    <2>3. code \in 0..15 /\ DecodeFreeSpace(code) <= d
      BY <2>2, EncodedIsLess
    <2>4. d <= pg.freeSpace - (n + SlotSize)
      BY <1>1, <1>3, <1>6, <2>1, <2>2
    <2>5. pg.freeSpace - (n + SlotSize) <= q.freeSpace
      BY <1>5 DEF AllocatedIn
    <2>6. DecodeFreeSpace(code) \in Int /\ q.freeSpace \in Nat
      BY <1>5, <2>3, DecodedIsNumber, PageNumbers DEF AllocatedIn, PageStep, GoodPage
    <2> HIDE DEF code, q, pg
    <2>7. QED
      BY <1>1, <1>6, <2>3, <2>4, <2>5, <2>6
  <1> HIDE DEF code, q, pg, f
  <1>11. /\ PageStep(pg, q, {f}) /\ f \in Stored(q) /\ ~Taken(pg, f)
         /\ SlotAt(q, f).kind = "record" /\ SlotAt(q, f).size = n
         /\ Held(q, f) = ZeroBytes(n) /\ ~Taken(q, q.firstFree)
    BY <1>5 DEF AllocatedIn, f
  <1>12. SegmentStep(sg, t, {p} \X {f}) /\ PageAt(t, p) = q /\ Len(t.pages) = Len(sg.pages)
    BY <1>2, <1>10, <1>11, PageReplaced DEF pg
  <1>13. ChangedTo(sg, p, q, code, t)
    BY <1>2, <1>10, <1>11, ChangedPages DEF PageStep, GoodPage
  <1> HIDE DEF t
  <1>14. PageOf(t, <<p, f>>) = q /\ PageOf(sg, <<p, f>>) = pg
    BY <1>12 DEF PageOf, PageAt, pg
  <1>15. ~InUse(sg, <<p, f>>)
    BY <1>11, <1>14 DEF InUse
  <1>16. /\ StoredAt(t, <<p, f>>) /\ SlotOf(t, <<p, f>>) = SlotAt(q, f) /\ HeldAt(t, <<p, f>>) = Held(q, f)
    BY <1>2, <1>8, <1>11, <1>12, <1>14 DEF StoredAt, SlotOf, HeldAt
  <1>17. {p} \X {f} = {<<p, f>>}
    OBVIOUS
  <1>18. AllocatedAt(sg, t, <<p, f>>, n)
    <2>1. \A o \in 0..Len(sg.pages) - 1 : o # <<p, f>>[1] => PageAt(t, o) = PageAt(sg, o)
      BY <1>13 DEF ChangedTo
    <2>2. SegmentStep(sg, t, {<<p, f>>}) /\ Len(sg.pages) <= Len(t.pages)
      <3>1. SegmentStep(sg, t, {p} \X {f})
        BY <1>12
      <3>2. SegmentStep(sg, t, {<<p, f>>})
        BY <1>17, <3>1, Zenon
      <3>3. QED
        BY <1>1, <1>12, <3>2
    <2>3. QED
      BY <1>8, <1>11, <1>15, <1>16, <2>1, <2>2 DEF AllocatedAt
  <1>19. QED
    BY <1>8, <1>9, <1>18

(* On a page that is added to the segment. *)
LEMMA AllocatedOnNewPage ==
    ASSUME NEW sg, GoodSegment(sg), NEW n \in Nat \ {0}, n + SlotSize <= PageSize - HeaderSize,
           TargetPage(sg, n) = Len(sg.pages)
    PROVE  AllocatedAt(sg, Allocated(sg, n), TargetTID(sg, n), n)
  <1> DEFINE p == Len(sg.pages)
             q == Allocate(NewPage, n)
             code == EncodeFreeSpace(q.freeSpace)
             tid == <<p, 0>>
             t == [pages |-> Append(sg.pages, q), fsi |-> Append(sg.fsi, code)]
  <1>1. /\ sg.pages \in Seq(PageType) /\ sg.fsi \in Seq(0..15) /\ Len(sg.fsi) = p /\ p \in Nat
        /\ sg = [pages |-> sg.pages, fsi |-> sg.fsi] /\ p + 1 \in Nat
    BY DEF GoodSegment, SegmentType
  <1>2. AllocatedIn(NewPage, q, n)
    <2>1. AllocateAsserts(NewPage, n)
      BY NewPageIsGood
    <2>2. QED
      BY <2>1, NewPageIsGood, AllocateKeeps
  <1>3. AllocatedSlot(NewPage) = 0
    BY DEF AllocatedSlot, NewPage
  <1>4. TargetTID(sg, n) = tid /\ tid \in Address /\ tid[1] = p /\ tid[2] = 0
    BY <1>1 DEF TargetTID, Address
  <1>5. Allocated(sg, n) = t
    <2>1. Allocated(sg, n) = Reported([pages |-> Append(sg.pages, q), fsi |-> Append(sg.fsi, 15)], p)
      BY <1>1 DEF Allocated
    <2> HIDE DEF q
    <2>2. Append(sg.pages, q)[p + 1] = q
      BY <1>1
    <2>3. [Append(sg.fsi, 15) EXCEPT ![p + 1] = code] = Append(sg.fsi, code)
      <3> DEFINE long == Append(sg.fsi, 15)
                 set == [long EXCEPT ![p + 1] = code]
                 added == Append(sg.fsi, code)
      <3>1. /\ Len(long) = p + 1 /\ long \in Seq(0..15) /\ \A k \in 1..p : long[k] = sg.fsi[k]
            /\ DOMAIN long = 1..p + 1
        BY <1>1
      <3> HIDE DEF code
      <3>2. /\ Len(added) = p + 1 /\ added[p + 1] = code /\ \A k \in 1..p : added[k] = sg.fsi[k]
            /\ added = [k \in 1..p + 1 |-> added[k]]
        BY <1>1
      <3> HIDE DEF long, added
      <3>3. set = [k \in 1..p + 1 |-> IF k = p + 1 THEN code ELSE long[k]]
        BY <3>1
      <3>4. ASSUME NEW k \in 1..p + 1 PROVE (IF k = p + 1 THEN code ELSE long[k]) = added[k]
        <4>1. k = p + 1 \/ (k # p + 1 /\ k \in 1..p)
          BY <1>1
        <4>2. CASE k = p + 1
          BY <3>2, <4>2
        <4>3. CASE k # p + 1 /\ k \in 1..p
          BY <3>1, <3>2, <4>3
        <4>4. QED
          BY <4>1, <4>2, <4>3
      <3>5. QED
        BY <3>2, <3>3, <3>4 DEF long, added
    <2> DEFINE pages2 == Append(sg.pages, q)
               fsi2 == Append(sg.fsi, 15)
    <2> HIDE DEF pages2, fsi2
    <2>4. Reported([pages |-> pages2, fsi |-> fsi2], p)
            = [pages |-> pages2, fsi |-> [fsi2 EXCEPT ![p + 1] = EncodeFreeSpace(pages2[p + 1].freeSpace)]]
      BY DEF Reported, Update
    <2>5. QED
      BY <2>1, <2>2, <2>3, <2>4 DEF pages2, fsi2
  <1>6. /\ PageStep(NewPage, q, {0}) /\ 0 \in Stored(q) /\ ~Taken(q, q.firstFree) /\ GoodPage(q)
        /\ SlotAt(q, 0).kind = "record" /\ SlotAt(q, 0).size = n /\ Held(q, 0) = ZeroBytes(n)
    BY <1>2, <1>3 DEF AllocatedIn, PageStep
  <1> HIDE DEF q
  <1>7. code \in 0..15 /\ DecodeFreeSpace(code) <= q.freeSpace /\ q \in PageType
    <2>1. q.freeSpace \in Nat /\ q \in PageType
      BY <1>6, PageNumbers DEF GoodPage
    <2>2. QED
      BY <2>1, EncodedIsLess
  <1> HIDE DEF code
  <1>8. /\ t.pages \in Seq(PageType) /\ Len(t.pages) = p + 1 /\ t.pages[p + 1] = q
        /\ \A k \in 1..p : t.pages[k] = sg.pages[k]
    BY <1>1, <1>7
  <1>9. /\ t.fsi \in Seq(0..15) /\ Len(t.fsi) = p + 1 /\ t.fsi[p + 1] = code
        /\ \A k \in 1..p : t.fsi[k] = sg.fsi[k]
    BY <1>1, <1>7
  <1>10. t \in SegmentType
    BY <1>8, <1>9 DEF SegmentType
  <1> HIDE DEF t
  <1>11. PageAt(t, p) = q /\ \A o \in 0..p - 1 : PageAt(t, o) = PageAt(sg, o)
    <2>1. ASSUME NEW o \in 0..p - 1 PROVE PageAt(t, o) = PageAt(sg, o)
      <3>1. o + 1 \in 1..p
        BY <1>1
      <3>2. QED
        BY <1>8, <3>1 DEF PageAt
    <2>2. QED
      BY <1>8, <2>1 DEF PageAt
  <1>12. GoodSegment(t)
    <2>1. ASSUME NEW k \in DOMAIN t.pages PROVE GoodEntry(t.pages[k], t.fsi[k])
      <3>1. k \in 1..p \/ k = p + 1
        BY <1>1, <1>8
      <3>2. CASE k = p + 1
        BY <1>6, <1>7, <1>8, <1>9, <3>2 DEF GoodEntry
      <3>3. CASE k \in 1..p
        <4>1. k \in DOMAIN sg.pages
          BY <1>1, <3>3
        <4>2. QED
          BY <1>8, <1>9, <3>3, <4>1 DEF GoodSegment
      <3>4. QED
        BY <3>1, <3>2, <3>3
    <2>2. QED
      BY <1>8, <1>9, <1>10, <2>1 DEF GoodSegment
  <1>13. ASSUME NEW a \in Address
         PROVE  PageOf(t, a) = PageAt(t, a[1]) /\ PageOf(sg, a) = PageAt(sg, a[1])
    BY DEF PageOf, PageAt
  <1>14. ASSUME NEW a \in Address \ {tid}
         PROVE  /\ InUse(t, a) <=> InUse(sg, a)
                /\ InUse(sg, a) => Kept(PageOf(sg, a), PageOf(t, a), a[2])
    <2>1. a = <<a[1], a[2]>> /\ a[1] \in Nat
      BY DEF Address
    <2>2. CASE a[1] \in 0..p - 1
      <3>1. PageOf(t, a) = PageOf(sg, a) /\ a[1] \in 0..Len(t.pages) - 1
        BY <1>1, <1>8, <1>11, <1>13, <2>2
      <3>2. QED
        BY <2>2, <3>1 DEF InUse, Kept
    <2>3. CASE a[1] = p
      <3>1. a[2] # 0 /\ p \notin 0..p - 1
        BY <1>1, <2>1, <2>3
      <3>2. ~Taken(q, a[2])
        BY <1>6, <3>1, NewPageIsGood DEF PageStep
      <3>3. QED
        BY <1>11, <1>13, <2>3, <3>1, <3>2 DEF InUse
    <2>4. CASE a[1] > p
      <3>1. a[1] \notin 0..p - 1 /\ a[1] \notin 0..Len(t.pages) - 1
        BY <1>1, <1>8, <2>1, <2>4
      <3>2. QED
        BY <3>1 DEF InUse
    <2>5. QED
      BY <1>1, <2>1, <2>2, <2>3, <2>4
  <1>15. SegmentStep(sg, t, {tid})
    BY <1>12, <1>14 DEF SegmentStep
  <1>16. ~InUse(sg, tid)
    <2>1. p \notin 0..p - 1
      BY <1>1
    <2>2. QED
      BY <1>4, <2>1 DEF InUse
  <1>17. PageOf(t, tid) = q
    BY <1>4, <1>11, <1>13
  <1>18. /\ StoredAt(t, tid) /\ SlotOf(t, tid) = SlotAt(q, 0) /\ HeldAt(t, tid) = Held(q, 0)
    <2>1. tid[1] \in 0..Len(t.pages) - 1
      BY <1>1, <1>4, <1>8
    <2>2. QED
      BY <1>4, <1>6, <1>17, <2>1 DEF StoredAt, SlotOf, HeldAt
  <1>19. p <= Len(t.pages)
    BY <1>1, <1>8
  <1> HIDE DEF tid
  <1>20. QED
    BY <1>4, <1>5, <1>6, <1>11, <1>15, <1>16, <1>18, <1>19 DEF AllocatedAt

(* allocate: on the page that the inventory has found, or on a new one. *)
LEMMA AllocatedKeeps ==
    ASSUME NEW sg, GoodSegment(sg), NEW n \in Nat \ {0}, n + SlotSize <= PageSize - HeaderSize,
           AllocateIsSafe(sg, n)
    PROVE  AllocatedAt(sg, Allocated(sg, n), TargetTID(sg, n), n)
  <1>1. sg.fsi \in Seq(0..15) /\ Len(sg.fsi) = Len(sg.pages) /\ Len(sg.pages) \in Nat
    BY DEF GoodSegment, SegmentType
  <1>2. TargetPage(sg, n) = Len(sg.pages) \/ TargetPage(sg, n) \in 0..Len(sg.pages) - 1
    BY <1>1, FindFits DEF TargetPage
  <1>3. TargetPage(sg, n) = Len(sg.pages) \/ TargetPage(sg, n) < Len(sg.pages)
    BY <1>1, <1>2
  <1>4. QED
    BY <1>3, AllocatedOnPage, AllocatedOnNewPage

(* Bytes that belong to no record become any. *)
LEMMA TidiedKeeps ==
    ASSUME NEW sg, GoodSegment(sg)
    PROVE  SegmentStep(sg, Tidied(sg), {})
  <1> DEFINE t == Tidied(sg)
             pages2 == [k \in DOMAIN sg.pages |-> Tidy(sg.pages[k])]
  <1>1. /\ sg.pages \in Seq(PageType) /\ sg.fsi \in Seq(0..15) /\ Len(sg.fsi) = Len(sg.pages)
        /\ Len(sg.pages) \in Nat /\ sg = [pages |-> sg.pages, fsi |-> sg.fsi]
    BY DEF GoodSegment, SegmentType
  <1>2. t = [pages |-> pages2, fsi |-> sg.fsi]
    BY <1>1 DEF Tidied
  <1>3. ASSUME NEW k \in DOMAIN sg.pages
        PROVE  /\ PageStep(sg.pages[k], Tidy(sg.pages[k]), {}) /\ GoodEntry(Tidy(sg.pages[k]), sg.fsi[k])
               /\ Tidy(sg.pages[k]) \in PageType
    <2>1. GoodEntry(sg.pages[k], sg.fsi[k])
      BY DEF GoodSegment
    <2> DEFINE pg == sg.pages[k]
               q == Tidy(pg)
    <2>2. PageStep(pg, q, {}) /\ q.slots = pg.slots /\ q.firstFree = pg.firstFree /\ q.freeSpace = pg.freeSpace
      BY <2>1, TidyKeeps DEF GoodEntry
    <2> HIDE DEF q
    <2>3. QED
      BY <2>1, <2>2 DEF GoodEntry, PageStep, GoodPage, q
  <1>4. pages2 \in Seq(PageType) /\ Len(pages2) = Len(sg.pages) /\ DOMAIN pages2 = DOMAIN sg.pages
    BY <1>1, <1>3
  <1> HIDE DEF t
  <1>5. t \in SegmentType /\ t.pages = pages2 /\ t.fsi = sg.fsi
    BY <1>1, <1>2, <1>4 DEF SegmentType
  <1>6. GoodSegment(t)
    BY <1>1, <1>3, <1>4, <1>5 DEF GoodSegment
  <1>7. ASSUME NEW tid \in Address
        PROVE  /\ InUse(t, tid) <=> InUse(sg, tid)
               /\ InUse(sg, tid) => Kept(PageOf(sg, tid), PageOf(t, tid), tid[2])
    <2>1. CASE tid[1] \in 0..Len(sg.pages) - 1
      <3>1. tid[1] + 1 \in DOMAIN sg.pages
        BY <1>1, <2>1
      <3>2. PageStep(PageOf(sg, tid), PageOf(t, tid), {})
        BY <1>3, <1>5, <3>1 DEF PageOf
      <3>3. QED
        BY <1>4, <1>5, <3>2 DEF InUse, PageStep
    <2>2. CASE tid[1] \notin 0..Len(sg.pages) - 1
      BY <1>4, <1>5, <2>2 DEF InUse
    <2>3. QED
      BY <2>1, <2>2
  <1>8. QED
    BY <1>6, <1>7 DEF SegmentStep, t

(* The slot of a redirect has no data. *)
LEMMA RedirectHasNoData ==
    ASSUME NEW sg, GoodSegment(sg), NEW tid \in Address, InUse(sg, tid), SlotOf(sg, tid).kind = "redirect"
    PROVE  /\ tid[1] \in 0..Len(sg.pages) - 1 /\ tid[2] \in 0..SlotCount(PageOf(sg, tid)) - 1
           /\ tid[2] \notin Stored(PageOf(sg, tid)) /\ ~StoredAt(sg, tid) /\ SizeIn(PageOf(sg, tid), tid[2]) = 0
  BY DEF InUse, Taken, Stored, StoredAt, SlotOf, SizeIn

(* The slot of a redirect is a record again. *)
RefilledAt(sg, t, tid, n, m, bytes) ==
    /\ StepAt(sg, t, tid) /\ StoredAt(t, tid)
    /\ SlotOf(t, tid).kind = "record" /\ SlotOf(t, tid).size = n
    /\ \A k \in 1..m : HeldAt(t, tid)[k] = bytes[k]

(* The same in the segment, reported to the inventory. *)
LEMMA RefilledAtKeeps ==
    ASSUME NEW sg, GoodSegment(sg), NEW tid \in Address, InUse(sg, tid), SlotOf(sg, tid).kind = "redirect",
           NEW n \in Nat \ {0}, n <= PageOf(sg, tid).freeSpace, NEW m \in Nat, m <= n, NEW bytes \in [1..m -> Content]
    PROVE  RefilledAt(sg, Reported(WithPage(sg, tid[1], Refilled(PageOf(sg, tid), tid[2], n, bytes)), tid[1]),
                      tid, n, m, bytes)
  <1> DEFINE pg == PageOf(sg, tid)
             q == Refilled(pg, tid[2], n, bytes)
             t == Reported(WithPage(sg, tid[1], q), tid[1])
  <1>1. tid[1] \in 0..Len(sg.pages) - 1 /\ tid[2] \in 0..SlotCount(pg) - 1 /\ tid[2] \notin Stored(pg)
    BY RedirectHasNoData
  <1>2. GoodPage(pg) /\ ~Taken(pg, pg.firstFree) /\ Taken(pg, tid[2])
    BY <1>1, PageOfGood DEF InUse
  <1>3. RefilledIn(pg, q, tid[2], n, m, bytes)
    BY <1>1, <1>2, RefilledKeeps
  <1> HIDE DEF q
  <1>4. PageStep(pg, q, {tid[2]}) /\ ~Taken(q, q.firstFree)
    BY <1>2, <1>3 DEF RefilledIn, PageStep
  <1>5. StepAt(sg, t, tid) /\ PageOf(t, tid) = q
    BY <1>1, <1>4, PageReplacedAt
  <1> HIDE DEF t
  <1>6. StoredAt(t, tid)
    BY <1>1, <1>3, <1>5 DEF StoredAt, StepAt, RefilledIn
  <1>7. SlotOf(t, tid) = SlotAt(q, tid[2]) /\ HeldAt(t, tid) = Held(q, tid[2])
    BY <1>5 DEF SlotOf, HeldAt
  <1>8. QED
    BY <1>3, <1>5, <1>6, <1>7 DEF RefilledAt, RefilledIn, t, q

(* A redirect is set to another target. *)
LEMMA RelinkedKeeps ==
    ASSUME NEW sg, GoodSegment(sg), NEW tid \in Address, InUse(sg, tid), SlotOf(sg, tid).kind = "redirect",
           NEW target \in Address
    PROVE  RedirectedAt(sg, WithPage(sg, tid[1], [PageOf(sg, tid) EXCEPT !.slots[tid[2] + 1] = RedirectSlot(target)]),
                        tid, target)
  <1> DEFINE pg == PageOf(sg, tid)
             q == [pg EXCEPT !.slots[tid[2] + 1] = RedirectSlot(target)]
             s == RedirectSlot(target)
  <1>1. pg \in PageType /\ pg.freeSpace \in Nat /\ SizeIn(pg, tid[2]) = 0
    <2>1. GoodPage(pg)
      BY RedirectHasNoData, PageOfGood
    <2>2. QED
      BY <2>1, RedirectHasNoData, PageNumbers DEF GoodPage
  <1>2. q = [pg EXCEPT !.slots[tid[2] + 1] = s, !.freeSpace = @ + SizeIn(pg, tid[2])]
    <2> HIDE DEF s
    <2>1. q = [pg EXCEPT !.slots[tid[2] + 1] = s]
      BY DEF s
    <2>2. pg.freeSpace + SizeIn(pg, tid[2]) = pg.freeSpace
      BY <1>1
    <2> HIDE DEF q
    <2>3. QED
      BY <1>1, <2>1, <2>2 DEF PageType
  <1>3. \A z : z = [PageOf(sg, tid) EXCEPT !.slots[tid[2] + 1] = RedirectSlot(target),
                                           !.freeSpace = @ + SizeIn(PageOf(sg, tid), tid[2])]
                  => RedirectedAt(sg, WithPage(sg, tid[1], z), tid, target)
    BY RedirectedKeeps
  <1>4. QED
    BY <1>2, <1>3

(* Two sizes, and the lesser. *)
LEMMA LesserOfTwo ==
    ASSUME NEW a \in Nat, NEW b \in Nat
    PROVE  Min({a, b}) \in Nat /\ Min({a, b}) <= a /\ Min({a, b}) <= b /\ Min({a, b}) \in {a, b}
  <1>1. {a, b} \in SUBSET Nat /\ {a, b} # {}
    OBVIOUS
  <1>2. Min({a, b}) \in {a, b} /\ \A y \in {a, b} : Min({a, b}) <= y
    BY <1>1, NatMinimum
  <1>3. QED
    BY <1>2

(* What resize copies from behind the TID of a target. *)
LEMMA BufferedBytes ==
    ASSUME NEW sg, GoodSegment(sg), NEW target, StoredAt(sg, target), NEW n \in Nat, NEW m,
           m = Min({SlotOf(sg, target).size, n})
    PROVE  /\ m \in Nat /\ m <= n /\ m <= SlotOf(sg, target).size
           /\ m \in {SlotOf(sg, target).size, n}
           /\ BufferedRecord(sg, target, n) \in [1..m -> Content]
           /\ \A k \in 1..m : TIDSize + k <= SlotOf(sg, target).size =>
                 BufferedRecord(sg, target, n)[k] = HeldAt(sg, target)[TIDSize + k]
  <1> DEFINE pg == PageOf(sg, target)
             buffered == BufferedRecord(sg, target, n)
  <1>1. target[2] \in Stored(pg) /\ GoodPage(pg) /\ pg.data \in [0..PageSize - 1 -> Content]
    BY PageOfGood DEF StoredAt, GoodPage, PageType
  <1>2. PICK o \in Nat, size \in Nat \ {0} :
          o = SlotAt(pg, target[2]).offset /\ size = SlotAt(pg, target[2]).size /\ o + size <= PageSize
    BY <1>1, GoodPlacing DEF Placing
  <1>3. SlotOf(sg, target).size = size /\ SlotOf(sg, target).offset = o
    BY <1>2 DEF SlotOf
  <1>4. m \in Nat /\ m <= n /\ m <= size /\ m \in {size, n}
    BY <1>3, LesserOfTwo
  <1>5. TIDSize \in Nat /\ PageSize \in Nat
    BY PageAssumption DEF TIDSize
  <1>6. buffered = [k \in 1..m |-> IF o + TIDSize + k - 1 < PageSize THEN pg.data[o + TIDSize + k - 1] ELSE AnyByte]
    BY <1>3 DEF BufferedRecord, CopiedOut
  <1> HIDE DEF buffered, pg
  <1>7. ASSUME NEW k \in 1..m
        PROVE  (IF o + TIDSize + k - 1 < PageSize THEN pg.data[o + TIDSize + k - 1] ELSE AnyByte) \in Content
    <2>1. CASE o + TIDSize + k - 1 < PageSize
      <3>1. o + TIDSize + k - 1 \in 0..PageSize - 1
        BY <1>4, <1>5, <2>1
      <3>2. pg.data[o + TIDSize + k - 1] \in Content
        BY <1>1, <3>1
      <3>3. QED
        BY <2>1, <3>2
    <2>2. CASE ~(o + TIDSize + k - 1 < PageSize)
      BY <2>2 DEF Content
    <2>3. QED
      BY <2>1, <2>2
  <1>8. ASSUME NEW k \in 1..m, TIDSize + k <= size PROVE buffered[k] = HeldAt(sg, target)[TIDSize + k]
    <2>1. PICK i \in 1..size : i = TIDSize + k
      BY <1>4, <1>5, <1>8
    <2>2. HeldAt(sg, target)[i] = pg.data[o + i - 1]
      BY <1>2 DEF HeldAt, Held, BytesAt, pg
    <2>3. o + TIDSize + k - 1 = o + i - 1 /\ o + i - 1 < PageSize
      BY <1>2, <1>4, <1>5, <2>1
    <2>4. buffered[k] = pg.data[o + i - 1]
      BY <1>6, <2>3
    <2>5. QED
      BY <2>1, <2>2, <2>4
  <1>9. buffered \in [1..m -> Content]
    BY <1>6, <1>7
  <1>10. QED
    BY <1>3, <1>4, <1>8, <1>9 DEF buffered

(* A step of more slots. *)
LEMMA SegmentStepWeakens ==
    ASSUME NEW sg, NEW t, NEW S, NEW T, SegmentStep(sg, t, S), S \subseteq T
    PROVE  SegmentStep(sg, t, T)
  BY DEF SegmentStep

------------------------------------------------------------------------------
(* The records of the client. *)

(* A slot with data is in use, and no redirect. *)
LEMMA StoredIsUsed ==
    ASSUME NEW sg, NEW a, StoredAt(sg, a)
    PROVE  InUse(sg, a) /\ a \in Address /\ SlotOf(sg, a).kind # "redirect" /\ WhereIn(sg, a) = a
  BY DEF StoredAt, InUse, Taken, IsEmpty, Stored, SlotOf, WhereIn

(* A record is found and read after a step of other slots. *)
LEMMA FoundKept ==
    ASSUME NEW sg, NEW t, NEW S, SegmentStep(sg, t, S), NEW tid, RecordFound(sg, tid),
           tid \notin S, WhereIn(sg, tid) \notin S
    PROVE  /\ RecordFound(t, tid) /\ WhereIn(t, tid) = WhereIn(sg, tid)
           /\ \A rec : RecordRead(sg, tid, rec) => RecordRead(t, tid, rec)
  <1> DEFINE to == WhereIn(sg, tid)
  <1>1. tid \in Address \ S /\ InUse(sg, tid) /\ to \in Address \ S /\ StoredAt(sg, to) /\ InUse(sg, to)
    BY StoredIsUsed DEF RecordFound
  <1>2. /\ InUse(t, tid) /\ SlotOf(t, tid).kind = SlotOf(sg, tid).kind /\ SlotOf(t, tid).tid = SlotOf(sg, tid).tid
    BY <1>1, StepKeeps
  <1>3. /\ StoredAt(t, to) /\ SlotOf(t, to).kind = SlotOf(sg, to).kind
        /\ SlotOf(t, to).size = SlotOf(sg, to).size /\ HeldAt(t, to) = HeldAt(sg, to)
    BY <1>1, StepKeeps
  <1>4. WhereIn(t, tid) = to
    BY <1>2 DEF WhereIn
  <1>5. RecordFound(t, tid)
    BY <1>1, <1>2, <1>3, <1>4 DEF RecordFound, WhereIn
  <1>6. ASSUME NEW rec, RecordRead(sg, tid, rec) PROVE RecordRead(t, tid, rec)
    BY <1>2, <1>3, <1>6 DEF RecordRead, HoldsRecord, WhereIn
  <1>7. QED
    BY <1>4, <1>5, <1>6

(***************************************************************************)
(* The slots of S are those of the record of tid, and free ones.           *)
(***************************************************************************)
Concerns(sg, r, tid, S) ==
    /\ tid \in Address /\ S \in SUBSET Address
    /\ \A a \in S : a = tid \/ ~InUse(sg, a) \/ (tid \in DOMAIN r /\ a = WhereIn(sg, tid))
    /\ IF tid \in DOMAIN r THEN WhereIn(sg, tid) \in S ELSE ~InUse(sg, tid)

(* Such a step keeps all other records. *)
LEMMA OthersKept ==
    ASSUME NEW sg, NEW r, NEW sp, GoodRecords(sg, r, sp), NEW t, NEW S, SegmentStep(sg, t, S),
           NEW tid, Concerns(sg, r, tid, S)
    PROVE  /\ \A y \in DOMAIN r \ {tid} :
                 /\ RecordFound(t, y) /\ WhereIn(t, y) = WhereIn(sg, y) /\ WhereIn(t, y) \notin S
                 /\ \A rec : RecordRead(sg, y, rec) => RecordRead(t, y, rec)
           /\ \A a \in Address \ S : StoredAt(t, a) => \E y \in DOMAIN r \ {tid} : WhereIn(t, y) = a
  <1>1. ASSUME NEW y \in DOMAIN r \ {tid}
        PROVE  /\ RecordFound(t, y) /\ WhereIn(t, y) = WhereIn(sg, y) /\ WhereIn(t, y) \notin S
               /\ \A rec : RecordRead(sg, y, rec) => RecordRead(t, y, rec)
    <2>1. RecordFound(sg, y) /\ StoredAt(sg, WhereIn(sg, y)) /\ InUse(sg, y)
      BY DEF GoodRecords, RecordFound
    <2>2. InUse(sg, WhereIn(sg, y))
      BY <2>1, StoredIsUsed
    <2>3. tid \in DOMAIN r => RecordFound(sg, tid) /\ WhereIn(sg, tid) # WhereIn(sg, y)
      BY DEF GoodRecords
    <2>4. y \notin S
      <3>1. ASSUME tid \in DOMAIN r, y = WhereIn(sg, tid) PROVE FALSE
        <4>1. StoredAt(sg, y)
          BY <2>3, <3>1 DEF RecordFound
        <4>2. WhereIn(sg, y) = y
          BY <4>1, StoredIsUsed
        <4>3. QED
          BY <2>3, <3>1, <4>2
      <3>2. QED
        BY <2>1, <3>1 DEF Concerns
    <2>5. WhereIn(sg, y) \notin S
      <3>1. ASSUME WhereIn(sg, y) = tid PROVE FALSE
        <4>1. StoredAt(sg, tid)
          BY <2>1, <3>1
        <4>2. InUse(sg, tid) /\ WhereIn(sg, tid) = tid
          BY <4>1, StoredIsUsed
        <4>3. QED
          BY <2>3, <3>1, <4>2 DEF Concerns
      <3>2. QED
        BY <2>2, <2>3, <3>1 DEF Concerns
    <2>6. QED
      BY <2>1, <2>4, <2>5, FoundKept
  <1>2. ASSUME NEW a \in Address \ S, StoredAt(t, a) PROVE \E y \in DOMAIN r \ {tid} : WhereIn(t, y) = a
    <2>1. StoredAt(sg, a)
      BY <1>2, StepKeeps
    <2>2. PICK y \in DOMAIN r : WhereIn(sg, y) = a
      BY <2>1 DEF GoodRecords
    <2>3. y # tid
      BY <2>2 DEF Concerns
    <2>4. QED
      BY <1>1, <2>2, <2>3
  <1>3. QED
    BY <1>1, <1>2

(* The records of the client with that of tid, as Keeps writes them. *)
With(r, tid, rec) == [x \in DOMAIN r \cup {tid} |-> IF x = tid THEN rec ELSE r[x]]

(* A record is added, written or resized. *)
LEMMA RecordsChange ==
    ASSUME NEW sg, NEW r, NEW sp, GoodRecords(sg, r, sp), NEW t, NEW S, SegmentStep(sg, t, S),
           NEW tid, Concerns(sg, r, tid, S),
           RecordFound(t, tid), WhereIn(t, tid) \in S, \A a \in S : StoredAt(t, a) => a = WhereIn(t, tid),
           NEW rec, GoodRecord(rec),
           NEW sq, sp \ {tid} \subseteq sq, tid \notin sq => RecordRead(t, tid, rec)
    PROVE  GoodRecords(t, With(r, tid, rec), sq)
  <1> DEFINE w == With(r, tid, rec)
  <1>1. DOMAIN w = DOMAIN r \cup {tid} /\ w[tid] = rec /\ \A y \in DOMAIN r \ {tid} : w[y] = r[y]
    BY DEF With
  <1> HIDE DEF w
  <1>2. /\ \A y \in DOMAIN r \ {tid} :
                 /\ RecordFound(t, y) /\ WhereIn(t, y) = WhereIn(sg, y) /\ WhereIn(t, y) \notin S
                 /\ \A some : RecordRead(sg, y, some) => RecordRead(t, y, some)
        /\ \A a \in Address \ S : StoredAt(t, a) => \E y \in DOMAIN r \ {tid} : WhereIn(t, y) = a
    BY OthersKept
  <1>3. ASSUME NEW y \in DOMAIN w
        PROVE  RecordFound(t, y) /\ GoodRecord(w[y]) /\ (y \notin sq => RecordRead(t, y, w[y]))
    <2>1. CASE y = tid
      BY <1>1, <2>1
    <2>2. CASE y # tid
      <3>1. y \in DOMAIN r \ {tid} /\ w[y] = r[y]
        BY <1>1, <2>2
      <3>2. GoodRecord(r[y]) /\ (y \notin sp => RecordRead(sg, y, r[y]))
        BY <3>1 DEF GoodRecords
      <3>3. QED
        BY <1>2, <3>1, <3>2
    <2>3. QED
      BY <2>1, <2>2
  <1>4. ASSUME NEW x \in DOMAIN w, NEW y \in DOMAIN w, WhereIn(t, x) = WhereIn(t, y) PROVE x = y
    <2>1. CASE x # tid /\ y # tid
      <3>1. x \in DOMAIN r \ {tid} /\ y \in DOMAIN r \ {tid}
        BY <1>1, <2>1
      <3>2. WhereIn(sg, x) = WhereIn(sg, y)
        BY <1>2, <1>4, <3>1
      <3>3. QED
        BY <3>1, <3>2 DEF GoodRecords
    <2>2. CASE x = tid /\ y # tid
      BY <1>1, <1>2, <1>4, <2>2
    <2>3. CASE x # tid /\ y = tid
      BY <1>1, <1>2, <1>4, <2>3
    <2>4. QED
      BY <2>1, <2>2, <2>3
  <1>5. ASSUME NEW a \in Address, StoredAt(t, a) PROVE \E y \in DOMAIN w : WhereIn(t, y) = a
    BY <1>1, <1>2, <1>5
  <1>6. QED
    BY <1>3, <1>4, <1>5 DEF GoodRecords, w

(* A record is erased. *)
LEMMA RecordsDrop ==
    ASSUME NEW sg, NEW r, NEW sp, GoodRecords(sg, r, sp), NEW t, NEW S, SegmentStep(sg, t, S),
           NEW tid, Concerns(sg, r, tid, S), \A a \in S : ~StoredAt(t, a)
    PROVE  GoodRecords(t, [x \in DOMAIN r \ {tid} |-> r[x]], sp \ {tid})
  <1> DEFINE w == [x \in DOMAIN r \ {tid} |-> r[x]]
  <1>1. DOMAIN w = DOMAIN r \ {tid} /\ \A y \in DOMAIN r \ {tid} : w[y] = r[y]
    OBVIOUS
  <1> HIDE DEF w
  <1>2. /\ \A y \in DOMAIN r \ {tid} :
                 /\ RecordFound(t, y) /\ WhereIn(t, y) = WhereIn(sg, y) /\ WhereIn(t, y) \notin S
                 /\ \A some : RecordRead(sg, y, some) => RecordRead(t, y, some)
        /\ \A a \in Address \ S : StoredAt(t, a) => \E y \in DOMAIN r \ {tid} : WhereIn(t, y) = a
    BY OthersKept
  <1>3. ASSUME NEW y \in DOMAIN w
        PROVE  RecordFound(t, y) /\ GoodRecord(w[y]) /\ (y \notin sp \ {tid} => RecordRead(t, y, w[y]))
    <2>1. y \in DOMAIN r \ {tid} /\ w[y] = r[y]
      BY <1>1
    <2>2. GoodRecord(r[y]) /\ (y \notin sp => RecordRead(sg, y, r[y]))
      BY <2>1 DEF GoodRecords
    <2>3. QED
      BY <1>2, <2>1, <2>2
  <1>4. ASSUME NEW x \in DOMAIN w, NEW y \in DOMAIN w, WhereIn(t, x) = WhereIn(t, y) PROVE x = y
    <2>1. WhereIn(sg, x) = WhereIn(sg, y) /\ x \in DOMAIN r /\ y \in DOMAIN r
      BY <1>1, <1>2, <1>4
    <2>2. QED
      BY <2>1 DEF GoodRecords
  <1>5. ASSUME NEW a \in Address, StoredAt(t, a) PROVE \E y \in DOMAIN w : WhereIn(t, y) = a
    BY <1>1, <1>2, <1>5
  <1>6. QED
    BY <1>3, <1>4, <1>5 DEF GoodRecords, w

(* A step that concerns no slot in use keeps all records. *)
LEMMA RecordsStay ==
    ASSUME NEW sg, NEW r, NEW sp, GoodRecords(sg, r, sp), NEW t, SegmentStep(sg, t, {})
    PROVE  GoodRecords(t, r, sp)
  <1>1. ASSUME NEW y \in DOMAIN r
        PROVE  /\ RecordFound(t, y) /\ WhereIn(t, y) = WhereIn(sg, y)
               /\ \A rec : RecordRead(sg, y, rec) => RecordRead(t, y, rec)
    <2>1. RecordFound(sg, y)
      BY DEF GoodRecords
    <2>2. QED
      BY <2>1, FoundKept
  <1>2. \A a \in Address : StoredAt(t, a) => StoredAt(sg, a)
    BY StepKeeps
  <1>3. QED
    BY <1>1, <1>2 DEF GoodRecords

------------------------------------------------------------------------------
(* The methods of the segment. *)

(* A record in its own slot. *)
LEMMA DirectRecord ==
    ASSUME NEW t, NEW tid, StoredAt(t, tid), SlotOf(t, tid).kind = "record"
    PROVE  /\ RecordFound(t, tid) /\ WhereIn(t, tid) = tid
           /\ \A rec : RecordRead(t, tid, rec) <=> HoldsRecord(t, tid, 0, rec)
  BY StoredIsUsed DEF RecordFound, RecordRead

(* A record behind a redirect. *)
LEMMA RedirectedRecord ==
    ASSUME NEW t, NEW tid \in Address, InUse(t, tid), SlotOf(t, tid).kind = "redirect", NEW to,
           SlotOf(t, tid).tid = to, StoredAt(t, to), to[1] # tid[1], SlotOf(t, to).size > TIDSize,
           \A k \in 1..TIDSize : HeldAt(t, to)[k] = TIDBytes(tid)[k]
    PROVE  /\ RecordFound(t, tid) /\ WhereIn(t, tid) = to
           /\ \A rec : RecordRead(t, tid, rec) <=> SlotOf(t, to).kind = "target" /\ HoldsRecord(t, to, TIDSize, rec)
  BY DEF RecordFound, RecordRead, WhereIn

(* What is known of a record that is resized. *)
CutTo(rec, n) == [size |-> n, known |-> SubSeq(rec.known, 1, Min({n, Len(rec.known)}))]

(* What is known of a record that is resized is what was known, as far as it still has it. *)
LEMMA CutToKeeps ==
    ASSUME NEW rec, GoodRecord(rec), NEW n \in Nat \ {0}
    PROVE  /\ GoodRecord(CutTo(rec, n)) /\ CutTo(rec, n).size = n
           /\ Len(CutTo(rec, n).known) \in Nat
           /\ Len(CutTo(rec, n).known) <= n /\ Len(CutTo(rec, n).known) <= rec.size
           /\ \A k \in 1..Len(CutTo(rec, n).known) : k \in 1..Len(rec.known) /\ CutTo(rec, n).known[k] = rec.known[k]
  <1> DEFINE len == Len(rec.known)
             m == Min({n, len})
             cut == SubSeq(rec.known, 1, m)
  <1>1. rec.known \in Seq(Bytes) /\ len \in Nat /\ len <= rec.size /\ rec.size \in Nat
    BY DEF GoodRecord
  <1>2. m \in Nat /\ m <= n /\ m <= len
    BY <1>1, LesserOfTwo
  <1> HIDE DEF m
  <1>3. cut \in Seq(Bytes) /\ Len(cut) = m /\ \A k \in 1..m : cut[k] = rec.known[k]
    BY <1>1, <1>2
  <1>4. CutTo(rec, n) = [size |-> n, known |-> cut]
    BY DEF CutTo, m
  <1> HIDE DEF cut
  <1>5. QED
    BY <1>1, <1>2, <1>3, <1>4 DEF GoodRecord

(* The numbers of a record. *)
LEMMA StoredNumbers ==
    ASSUME NEW sg, GoodSegment(sg), NEW a, StoredAt(sg, a)
    PROVE  PageOf(sg, a).freeSpace \in Nat /\ SlotOf(sg, a).size \in Nat
  BY PageOfGood, PageNumbers, SlotTyped DEF StoredAt, Stored, SlotOf, GoodPage

(* A record that is in its own slot. *)
LEMMA OwnRecord ==
    ASSUME NEW sg, NEW r, NEW sp, Good(sg, r, sp), NEW tid \in DOMAIN r, SlotOf(sg, tid).kind # "redirect"
    PROVE  /\ StoredAt(sg, tid) /\ SlotOf(sg, tid).kind = "record" /\ WhereIn(sg, tid) = tid
           /\ GoodRecord(r[tid]) /\ (tid \notin sp => HoldsRecord(sg, tid, 0, r[tid]))
           /\ Concerns(sg, r, tid, {tid})
  BY DEF Good, GoodRecords, RecordFound, RecordRead, WhereIn, Concerns

(* A record that is behind a redirect. *)
LEMMA FarRecord ==
    ASSUME NEW sg, NEW r, NEW sp, Good(sg, r, sp), NEW tid \in DOMAIN r, SlotOf(sg, tid).kind = "redirect", NEW to,
           to = SlotOf(sg, tid).tid
    PROVE  /\ tid \in Address /\ InUse(sg, tid) /\ StoredAt(sg, to) /\ to \in Address /\ InUse(sg, to)
           /\ to[1] # tid[1] /\ SlotOf(sg, to).size > TIDSize
           /\ \A k \in 1..TIDSize : HeldAt(sg, to)[k] = TIDBytes(tid)[k]
           /\ GoodRecord(r[tid])
           /\ (tid \notin sp => SlotOf(sg, to).kind = "target" /\ HoldsRecord(sg, to, TIDSize, r[tid]))
           /\ WhereIn(sg, tid) = to
           /\ \A S \in SUBSET Address :
                 (to \in S /\ \A a \in S : a \in {tid, to} \/ ~InUse(sg, a)) => Concerns(sg, r, tid, S)
  <1>1. RecordFound(sg, tid) /\ WhereIn(sg, tid) = to
    BY DEF Good, GoodRecords, WhereIn
  <1>2. InUse(sg, to) /\ to \in Address /\ StoredAt(sg, to) /\ tid \in Address
    BY <1>1, StoredIsUsed DEF RecordFound
  <1>3. tid \notin sp => RecordRead(sg, tid, r[tid])
    BY DEF Good, GoodRecords
  <1>4. GoodRecord(r[tid])
    BY DEF Good, GoodRecords
  <1>5. \A S \in SUBSET Address :
                 (to \in S /\ \A a \in S : a \in {tid, to} \/ ~InUse(sg, a)) => Concerns(sg, r, tid, S)
    BY <1>1, <1>2 DEF Concerns
  <1>6. QED
    BY <1>1, <1>2, <1>3, <1>4, <1>5 DEF RecordFound, RecordRead

(* allocate. *)
LEMMA GoodAllocated ==
    ASSUME NEW sg, NEW r, NEW sp, Good(sg, r, sp), NEW n \in Nat \ {0}, n + SlotSize <= PageSize - HeaderSize,
           AllocateIsSafe(sg, n)
    PROVE  Good(Allocated(sg, n), With(r, TargetTID(sg, n), [size |-> n, known |-> ZeroBytes(n)]), sp)
  <1> DEFINE t == Allocated(sg, n)
             tid == TargetTID(sg, n)
             rec == [size |-> n, known |-> ZeroBytes(n)]
  <1>1. AllocatedAt(sg, t, tid, n)
    BY AllocatedKeeps DEF Good
  <1> HIDE DEF t, tid
  <1>2. /\ tid \in Address /\ ~InUse(sg, tid) /\ SegmentStep(sg, t, {tid}) /\ StoredAt(t, tid)
        /\ SlotOf(t, tid).kind = "record" /\ SlotOf(t, tid).size = n /\ HeldAt(t, tid) = ZeroBytes(n)
    BY <1>1 DEF AllocatedAt
  <1>3. Concerns(sg, r, tid, {tid})
    BY <1>2 DEF Concerns, Good, GoodRecords, RecordFound
  <1>4. GoodRecord(rec)
    <2>1. ZeroBytes(n) \in Seq(Bytes) /\ Len(ZeroBytes(n)) = n
      BY PageAssumption DEF ZeroBytes
    <2>2. QED
      BY <2>1 DEF GoodRecord
  <1>5. HoldsRecord(t, tid, 0, rec)
    <2>1. Len(ZeroBytes(n)) = n
      BY DEF ZeroBytes
    <2>2. QED
      BY <1>2, <2>1 DEF HoldsRecord
  <1>6. RecordFound(t, tid) /\ WhereIn(t, tid) = tid /\ RecordRead(t, tid, rec)
    BY <1>2, <1>5, DirectRecord
  <1> HIDE DEF rec
  <1>7. GoodRecords(t, With(r, tid, rec), sp)
    <2>1. GoodRecords(sg, r, sp) /\ sp \ {tid} \subseteq sp
      BY DEF Good
    <2>2. QED
      BY <1>2, <1>3, <1>4, <1>6, <2>1, RecordsChange
  <1>8. QED
    BY <1>2, <1>7 DEF Good, SegmentStep, t, tid, rec

(* A record of one byte, over and over. *)
LEMMA SameBytes ==
    ASSUME NEW n \in Nat \ {0}, NEW v \in Bytes, NEW bytes, bytes = [k \in 1..n |-> v]
    PROVE  /\ bytes \in [1..n -> Content] /\ Len(bytes) = n
           /\ GoodRecord([size |-> n, known |-> bytes])
  <1>1. bytes \in [1..n -> Bytes]
    OBVIOUS
  <1>2. bytes \in [1..n -> Content]
    BY DEF Content
  <1>3. Len(bytes) = n
    OBVIOUS
  <1>4. bytes \in Seq(Bytes)
    BY <1>1
  <1> DEFINE rec == [size |-> n, known |-> bytes]
  <1>5. rec.size = n /\ rec.known = bytes /\ rec \in [size : Nat \ {0}, known : Seq(Bytes)]
    BY <1>4
  <1> HIDE DEF rec
  <1>6. Len(rec.known) <= rec.size
    BY <1>3, <1>5
  <1>7. QED
    BY <1>2, <1>3, <1>5, <1>6 DEF GoodRecord, rec

(* write. *)
LEMMA GoodWritten ==
    ASSUME NEW sg, NEW r, NEW sp, Good(sg, r, sp), NEW tid \in DOMAIN r, SlotOf(sg, tid).kind # "redirect",
           SlotOf(sg, tid).size >= r[tid].size, NEW v \in Bytes, NEW bytes, bytes = [k \in 1..r[tid].size |-> v],
           NEW t, t = WithPage(sg, tid[1], [PageOf(sg, tid) EXCEPT !.data = Copied(@, SlotOf(sg, tid).offset, bytes)])
    PROVE  Good(t, With(r, tid, [size |-> r[tid].size, known |-> bytes]), sp \ {tid})
  <1>1. /\ StoredAt(sg, tid) /\ SlotOf(sg, tid).kind = "record" /\ WhereIn(sg, tid) = tid
        /\ r[tid].size \in Nat \ {0} /\ Concerns(sg, r, tid, {tid}) /\ SlotOf(sg, tid).size \in Nat
    BY OwnRecord, StoredNumbers DEF GoodRecord, Good
  <1>0. PICK n \in Nat \ {0} : n = r[tid].size
    BY <1>1
  <1> DEFINE rec == [size |-> n, known |-> bytes]
  <1>2. bytes \in [1..n -> Content] /\ Len(bytes) = n /\ GoodRecord(rec)
    <2>1. bytes = [k \in 1..n |-> v]
      BY <1>0
    <2>2. QED
      BY <2>1, SameBytes
  <1>3. WrittenAt(sg, t, tid, n, bytes)
    <2>1. n \in Nat /\ n <= SlotOf(sg, tid).size
      BY <1>0, <1>1
    <2>2. QED
      BY <1>1, <1>2, <2>1, WrittenAtKeeps DEF Good
  <1>4. /\ SegmentStep(sg, t, {tid}) /\ StoredAt(t, tid) /\ SlotOf(t, tid).kind = "record"
        /\ SlotOf(t, tid).size = SlotOf(sg, tid).size
    BY <1>1, <1>3 DEF WrittenAt, StepAt
  <1>5. HoldsRecord(t, tid, 0, rec)
    <2>1. PICK size \in Nat : size = SlotOf(sg, tid).size /\ n <= size
      BY <1>0, <1>1
    <2>2. ASSUME NEW k \in 1..Len(bytes) PROVE HeldAt(t, tid)[0 + k] = bytes[k]
      <3>1. k \in 1..n
        BY <1>2
      <3>2. k \in 1..SlotOf(sg, tid).size /\ k <= n /\ 0 + k = k
        BY <2>1, <3>1
      <3>3. QED
        BY <1>3, <3>2 DEF WrittenAt
    <2>3. SlotOf(t, tid).size >= 0 + n
      BY <1>4, <2>1
    <2>4. QED
      BY <2>2, <2>3 DEF HoldsRecord
  <1>6. RecordFound(t, tid) /\ WhereIn(t, tid) = tid /\ RecordRead(t, tid, rec)
    BY <1>4, <1>5, DirectRecord
  <1>7. GoodRecord(rec)
    BY <1>2
  <1> HIDE DEF rec
  <1>8. GoodRecords(t, With(r, tid, rec), sp \ {tid})
    <2>1. GoodRecords(sg, r, sp) /\ sp \ {tid} \subseteq sp \ {tid}
      BY DEF Good
    <2>2. QED
      BY <1>1, <1>4, <1>6, <1>7, <2>1, RecordsChange
  <1>9. QED
    BY <1>0, <1>4, <1>8 DEF Good, SegmentStep, rec

(* resize of a record in its own slot, on its page. *)
LEMMA GoodResizedInPlace ==
    ASSUME NEW sg, NEW r, NEW sp, Good(sg, r, sp), NEW tid \in DOMAIN r, SlotOf(sg, tid).kind # "redirect",
           NEW n \in Nat \ {0}, FitsInPlace(sg, tid, n)
    PROVE  Good(ResizedInPlace(sg, tid, n), With(r, tid, CutTo(r[tid], n)), sp)
  <1> DEFINE t == ResizedInPlace(sg, tid, n)
             rec == CutTo(r[tid], n)
  <1>1. /\ StoredAt(sg, tid) /\ SlotOf(sg, tid).kind = "record" /\ WhereIn(sg, tid) = tid
        /\ GoodRecord(r[tid]) /\ (tid \notin sp => HoldsRecord(sg, tid, 0, r[tid])) /\ Concerns(sg, r, tid, {tid})
    BY OwnRecord
  <1>2. PageOf(sg, tid).freeSpace \in Nat /\ SlotOf(sg, tid).size \in Nat
    BY <1>1, StoredNumbers DEF Good
  <1>3. RelocatedAt(sg, t, tid, n)
    <2>1. n <= PageOf(sg, tid).freeSpace + SlotOf(sg, tid).size
      BY <1>2 DEF FitsInPlace
    <2>2. QED
      BY <1>1, <2>1, RelocatedKeeps DEF Good, ResizedInPlace
  <1> HIDE DEF t
  <1>4. /\ SegmentStep(sg, t, {tid}) /\ StoredAt(t, tid) /\ SlotOf(t, tid).kind = "record" /\ SlotOf(t, tid).size = n
    BY <1>1, <1>3 DEF RelocatedAt, StepAt
  <1>5. /\ GoodRecord(rec) /\ rec.size = n /\ Len(rec.known) \in Nat
        /\ Len(rec.known) <= n /\ Len(rec.known) <= r[tid].size
        /\ \A k \in 1..Len(rec.known) : k \in 1..Len(r[tid].known) /\ rec.known[k] = r[tid].known[k]
    BY <1>1, CutToKeeps
  <1> HIDE DEF rec
  <1>6. ASSUME tid \notin sp PROVE HoldsRecord(t, tid, 0, rec)
    <2>1. HoldsRecord(sg, tid, 0, r[tid]) /\ r[tid].size \in Nat
      BY <1>1, <1>6 DEF GoodRecord
    <2>2. r[tid].size <= SlotOf(sg, tid).size
      BY <1>2, <2>1 DEF HoldsRecord
    <2>3. ASSUME NEW k \in 1..Len(rec.known) PROVE HeldAt(t, tid)[0 + k] = rec.known[k]
      <3>1. k \in 1..n /\ k <= SlotOf(sg, tid).size /\ 0 + k = k
        BY <1>2, <1>5, <2>1, <2>2
      <3>2. HeldAt(sg, tid)[0 + k] = r[tid].known[k]
        BY <1>5, <2>1 DEF HoldsRecord
      <3>3. QED
        BY <1>3, <1>5, <3>1, <3>2 DEF RelocatedAt
    <2>4. QED
      BY <1>4, <1>5, <2>3 DEF HoldsRecord
  <1>7. RecordFound(t, tid) /\ WhereIn(t, tid) = tid /\ (tid \notin sp => RecordRead(t, tid, rec))
    BY <1>4, <1>6, DirectRecord
  <1>8. GoodRecords(t, With(r, tid, rec), sp)
    <2>1. GoodRecords(sg, r, sp) /\ sp \ {tid} \subseteq sp
      BY DEF Good
    <2>2. QED
      BY <1>1, <1>4, <1>5, <1>7, <2>1, RecordsChange
  <1>9. QED
    BY <1>4, <1>8 DEF Good, SegmentStep, t, rec

(* erase. *)
LEMMA GoodErased ==
    ASSUME NEW sg, NEW r, NEW sp, Good(sg, r, sp), NEW tid \in DOMAIN r, SlotOf(sg, tid).kind # "redirect"
    PROVE  Good(Without(sg, tid), [x \in DOMAIN r \ {tid} |-> r[x]], sp \ {tid})
  <1> DEFINE t == Without(sg, tid)
  <1>1. StoredAt(sg, tid) /\ Concerns(sg, r, tid, {tid})
    BY OwnRecord
  <1>2. SegmentStep(sg, t, {tid}) /\ ~InUse(t, tid)
    BY <1>1, WithoutKeeps DEF Good, StepAt
  <1>3. ~StoredAt(t, tid)
    BY <1>2, StoredIsUsed
  <1> HIDE DEF t
  <1>4. GoodRecords(t, [x \in DOMAIN r \ {tid} |-> r[x]], sp \ {tid})
    <2>1. GoodRecords(sg, r, sp) /\ \A a \in {tid} : ~StoredAt(t, a)
      BY <1>3 DEF Good
    <2>2. QED
      BY <1>1, <1>2, <2>1, RecordsDrop
  <1>5. QED
    BY <1>2, <1>4 DEF Good, SegmentStep, t

(* Free bytes may become any. *)
LEMMA GoodTidied ==
    ASSUME NEW sg, NEW r, NEW sp, Good(sg, r, sp)
    PROVE  Good(Tidied(sg), r, sp)
  BY TidiedKeeps, RecordsStay DEF Good, SegmentStep

(* Resizing inside the target, which the redirect keeps leading to. *)
LEMMA GoodResizedInTarget ==
    ASSUME NEW sg, NEW r, NEW sp, Good(sg, r, sp), NEW tid \in DOMAIN r, SlotOf(sg, tid).kind = "redirect",
           NEW n \in Nat \ {0}, n > TIDSize, FitsThere(sg, SlotOf(sg, tid).tid, n)
    PROVE  Good(ResizedInTarget(sg, tid, n), With(r, tid, CutTo(r[tid], n)), sp \cup {tid})
  <1> DEFINE to == SlotOf(sg, tid).tid
             t == ResizedInTarget(sg, tid, n)
             rec == CutTo(r[tid], n)
  <1>1. /\ tid \in Address /\ InUse(sg, tid) /\ StoredAt(sg, to) /\ to \in Address /\ InUse(sg, to)
        /\ to[1] # tid[1] /\ SlotOf(sg, to).size > TIDSize
        /\ \A k \in 1..TIDSize : HeldAt(sg, to)[k] = TIDBytes(tid)[k]
        /\ GoodRecord(r[tid]) /\ WhereIn(sg, tid) = to
        /\ \A S \in SUBSET Address :
              (to \in S /\ \A a \in S : a \in {tid, to} \/ ~InUse(sg, a)) => Concerns(sg, r, tid, S)
    BY FarRecord
  <1>2. GoodSegment(sg) /\ GoodRecords(sg, r, sp) /\ TIDSize \in Nat
    BY PageAssumption DEF Good, TIDSize
  <1>3. RelocatedAt(sg, t, to, n)
    <2>1. n <= PageOf(sg, to).freeSpace + SlotOf(sg, to).size
      <3>1. PageOf(sg, to).freeSpace \in Nat /\ SlotOf(sg, to).size \in Nat
        BY <1>1, <1>2, StoredNumbers
      <3>2. PageOf(sg, to).freeSpace + SlotOf(sg, to).size - TIDSize >= n
        BY DEF FitsThere
      <3> HIDE DEF to
      <3>3. QED
        BY <1>2, <3>1, <3>2
    <2>2. QED
      BY <1>1, <1>2, <2>1, RelocatedKeeps DEF ResizedInTarget
  <1> HIDE DEF t
  <1>4. SegmentStep(sg, t, {to}) /\ StoredAt(t, to) /\ SlotOf(t, to).size = n
    BY <1>3 DEF RelocatedAt, StepAt
  <1>5. InUse(t, tid) /\ SlotOf(t, tid).kind = "redirect" /\ SlotOf(t, tid).tid = to
    <2>1. tid \in Address \ {to}
      BY <1>1
    <2>2. QED
      BY <1>1, <1>4, <2>1, StepKeeps
  <1>6. ASSUME NEW k \in 1..TIDSize PROVE HeldAt(t, to)[k] = TIDBytes(tid)[k]
    <2>1. SlotOf(sg, to).size \in Nat
      BY <1>1, <1>2, StoredNumbers
    <2> HIDE DEF to
    <2>2. k \in 1..n /\ k <= SlotOf(sg, to).size
      BY <1>1, <1>2, <2>1
    <2>3. QED
      BY <1>1, <1>3, <2>2 DEF RelocatedAt
  <1> HIDE DEF to
  <1>7. RecordFound(t, tid) /\ WhereIn(t, tid) = to
    BY <1>1, <1>4, <1>5, <1>6, RedirectedRecord
  <1>8. GoodRecord(rec)
    BY <1>1, CutToKeeps
  <1> HIDE DEF rec
  <1>9. Concerns(sg, r, tid, {to})
    BY <1>1
  <1>10. GoodRecords(t, With(r, tid, rec), sp \cup {tid})
    <2>1. sp \ {tid} \subseteq sp \cup {tid} /\ tid \in sp \cup {tid}
      OBVIOUS
    <2>2. QED
      BY <1>2, <1>4, <1>7, <1>8, <1>9, <2>1, RecordsChange
  <1>11. QED
    BY <1>4, <1>10 DEF Good, SegmentStep, t, rec

(* A record has gone to a new target. *)
LinkedAt(sg, t, tid, to, n, m, bytes) ==
    /\ SegmentStep(sg, t, {tid, to}) /\ InUse(t, tid) /\ SlotOf(t, tid).kind = "redirect" /\ SlotOf(t, tid).tid = to
    /\ StoredAt(t, to) /\ SlotOf(t, to).kind = "target" /\ SlotOf(t, to).size = n + TIDSize
    /\ \A k \in 1..TIDSize : HeldAt(t, to)[k] = TIDBytes(tid)[k]
    /\ \A k \in 1..m : HeldAt(t, to)[TIDSize + k] = bytes[k]

(* A redirect made in three steps: a place allocated, the slot redirected, the place filled. *)
LEMMA LinkedKeeps ==
    ASSUME NEW sg, NEW a, NEW to, NEW n \in Nat, AllocatedAt(sg, a, to, n + TIDSize),
           NEW tid \in Address, InUse(sg, tid), to[1] # tid[1], NEW b, RedirectedAt(a, b, tid, to),
           NEW m \in Nat, m <= n, NEW bytes \in [1..m -> Content]
    PROVE  LinkedAt(sg, FilledTarget(b, to, tid, bytes), tid, to, n, m, bytes)
  <1> DEFINE c == FilledTarget(b, to, tid, bytes)
  <1>1. /\ to \in Address /\ SegmentStep(sg, a, {to}) /\ StoredAt(a, to) /\ SlotOf(a, to).size = n + TIDSize
    BY DEF AllocatedAt
  <1>2. SegmentStep(a, b, {tid}) /\ InUse(b, tid) /\ SlotOf(b, tid).kind = "redirect" /\ SlotOf(b, tid).tid = to
    BY DEF RedirectedAt, StepAt
  <1>3. to \in Address \ {tid} /\ tid \in Address \ {to}
    BY <1>1
  <1>4. StoredAt(b, to) /\ SlotOf(b, to).size = n + TIDSize
    <2>1. InUse(a, to)
      BY <1>1, StoredIsUsed
    <2>2. QED
      BY <1>1, <1>2, <1>3, <2>1, StepKeeps
  <1>5. FilledAt(b, c, to, tid, m, bytes)
    <2>1. TIDSize + m <= SlotOf(b, to).size
      <3>1. TIDSize \in Nat
        BY PageAssumption DEF TIDSize
      <3>2. QED
        BY <1>4, <3>1
    <2>2. GoodSegment(b)
      BY <1>2 DEF SegmentStep
    <2>3. QED
      BY <1>4, <2>1, <2>2, FilledKeeps
  <1> HIDE DEF c
  <1>6. /\ SegmentStep(b, c, {to}) /\ StoredAt(c, to) /\ SlotOf(c, to).kind = "target"
        /\ SlotOf(c, to).size = n + TIDSize
        /\ \A k \in 1..TIDSize : HeldAt(c, to)[k] = TIDBytes(tid)[k]
        /\ \A k \in 1..m : HeldAt(c, to)[TIDSize + k] = bytes[k]
    BY <1>4, <1>5 DEF FilledAt, StepAt
  <1>7. InUse(c, tid) /\ SlotOf(c, tid).kind = "redirect" /\ SlotOf(c, tid).tid = to
    BY <1>2, <1>3, <1>6, StepKeeps
  <1>8. SegmentStep(sg, c, {tid, to})
    <2>1. SegmentStep(sg, b, {to} \cup {tid})
      BY <1>1, <1>2, SegmentStepsCompose
    <2>2. SegmentStep(sg, c, ({to} \cup {tid}) \cup {to})
      BY <1>6, <2>1, SegmentStepsCompose
    <2>3. ({to} \cup {tid}) \cup {to} \subseteq {tid, to}
      OBVIOUS
    <2>4. QED
      BY <2>2, <2>3, SegmentStepWeakens
  <1>9. QED
    BY <1>6, <1>7, <1>8 DEF LinkedAt, c

(* What is known of a record is among the bytes that were copied. *)
KnownIn(rec, m, bytes) == \A k \in 1..Len(rec.known) : k \in 1..m /\ bytes[k] = rec.known[k]

(* The record that has gone to a new target is found there and read. *)
LEMMA LinkedRecord ==
    ASSUME NEW sg, NEW t, NEW tid \in Address, NEW to, to[1] # tid[1], NEW n \in Nat \ {0}, NEW m, NEW bytes,
           LinkedAt(sg, t, tid, to, n, m, bytes), NEW rec, rec.size = n
    PROVE  /\ RecordFound(t, tid) /\ WhereIn(t, tid) = to
           /\ KnownIn(rec, m, bytes) => RecordRead(t, tid, rec)
  <1>1. TIDSize \in Nat
    BY PageAssumption DEF TIDSize
  <1>2. /\ InUse(t, tid) /\ SlotOf(t, tid).kind = "redirect" /\ SlotOf(t, tid).tid = to
        /\ StoredAt(t, to) /\ SlotOf(t, to).kind = "target" /\ SlotOf(t, to).size = n + TIDSize
        /\ \A k \in 1..TIDSize : HeldAt(t, to)[k] = TIDBytes(tid)[k]
        /\ \A k \in 1..m : HeldAt(t, to)[TIDSize + k] = bytes[k]
    BY DEF LinkedAt
  <1>3. SlotOf(t, to).size > TIDSize /\ SlotOf(t, to).size >= TIDSize + rec.size
    BY <1>1, <1>2
  <1>4. /\ RecordFound(t, tid) /\ WhereIn(t, tid) = to
        /\ \A some : RecordRead(t, tid, some) <=> SlotOf(t, to).kind = "target" /\ HoldsRecord(t, to, TIDSize, some)
    BY <1>2, <1>3, RedirectedRecord
  <1>5. ASSUME KnownIn(rec, m, bytes)
        PROVE  HoldsRecord(t, to, TIDSize, rec)
    BY <1>2, <1>3, <1>5 DEF HoldsRecord, KnownIn
  <1>6. QED
    BY <1>2, <1>4, <1>5

(* The target that allocate returns is on the page that find has found. *)
LEMMA TargetIsOnPage ==
    ASSUME NEW sg, NEW n
    PROVE  TargetTID(sg, n)[1] = TargetPage(sg, n)
  BY DEF TargetTID

(* resize of a record in its own slot, to another page. *)
LEMMA GoodRedirectedAway ==
    ASSUME NEW sg, NEW r, NEW sp, Good(sg, r, sp), NEW tid \in DOMAIN r, SlotOf(sg, tid).kind # "redirect",
           NEW n \in Nat \ {0}, n + TIDSize + SlotSize <= PageSize - HeaderSize,
           ~FitsInPlace(sg, tid, n), RedirectIsSafe(sg, n, {tid[1]})
    PROVE  Good(RedirectedAway(sg, tid, n), With(r, tid, CutTo(r[tid], n)), sp)
  <1> DEFINE to == TargetTID(sg, n + TIDSize)
             a == Allocated(sg, n + TIDSize)
             b == Reported(Redirected(a, tid, to), tid[1])
             m == SlotOf(sg, tid).size
             bytes == HeldAt(sg, tid)
             c == FilledTarget(b, to, tid, bytes)
             rec == CutTo(r[tid], n)
  <1>1. /\ StoredAt(sg, tid) /\ SlotOf(sg, tid).kind = "record" /\ WhereIn(sg, tid) = tid
        /\ GoodRecord(r[tid]) /\ (tid \notin sp => HoldsRecord(sg, tid, 0, r[tid]))
        /\ InUse(sg, tid) /\ tid \in Address
    BY OwnRecord, StoredIsUsed
  <1>2. GoodSegment(sg) /\ GoodRecords(sg, r, sp) /\ TIDSize \in Nat
    BY PageAssumption DEF Good, TIDSize
  <1>3. m \in Nat /\ m <= n
    <2>1. m \in Nat
      BY <1>1, <1>2, StoredNumbers
    <2>2. ~(n <= m)
      BY DEF FitsInPlace
    <2> HIDE DEF m
    <2>3. QED
      BY <2>1, <2>2
  <1>4. bytes \in [1..m -> Content]
    <2>1. GoodPage(PageOf(sg, tid)) /\ tid[2] \in Stored(PageOf(sg, tid))
      BY <1>1, <1>2, PageOfGood DEF StoredAt
    <2>2. QED
      BY <2>1, HeldBytes DEF HeldAt, SlotOf
  <1>5. AllocatedAt(sg, a, to, n + TIDSize)
    <2>1. n + TIDSize \in Nat \ {0} /\ AllocateIsSafe(sg, n + TIDSize)
      BY <1>2 DEF RedirectIsSafe
    <2>2. QED
      BY <1>2, <2>1, AllocatedKeeps
  <1>6. to[1] # tid[1]
    BY TargetIsOnPage DEF RedirectIsSafe
  <1>7. c = RedirectedAway(sg, tid, n)
    BY DEF RedirectedAway, HeldAt, Held, SlotOf
  <1> HIDE DEF to, a
  <1>8. RedirectedAt(a, b, tid, to)
    <2>1. GoodSegment(a) /\ to \in Address /\ ~InUse(sg, to) /\ SegmentStep(sg, a, {to})
      BY <1>5 DEF AllocatedAt, SegmentStep
    <2>2. StoredAt(a, tid) /\ InUse(a, tid)
      BY <1>1, <2>1, StepKeeps
    <2>3. SizeIn(PageOf(a, tid), tid[2]) = SlotOf(a, tid).size
      BY <2>2 DEF StoredAt, SizeIn, SlotOf
    <2> DEFINE q == [PageOf(a, tid) EXCEPT !.slots[tid[2] + 1] = RedirectSlot(to), !.freeSpace = @ + SlotOf(a, tid).size]
    <2>4. q = [PageOf(a, tid) EXCEPT !.slots[tid[2] + 1] = RedirectSlot(to),
                                     !.freeSpace = @ + SizeIn(PageOf(a, tid), tid[2])]
      BY <2>3
    <2>5. b = Reported(WithPage(a, tid[1], q), tid[1])
      BY DEF Redirected
    <2> HIDE DEF q, b
    <2>6. RedirectedAt(a, Reported(WithPage(a, tid[1], q), tid[1]), tid, to)
      BY <1>1, <2>1, <2>2, <2>4, RedirectedKeeps
    <2>7. QED
      BY <2>5, <2>6
  <1> HIDE DEF b, m, bytes, c
  <1>9. LinkedAt(sg, c, tid, to, n, m, bytes)
    BY <1>1, <1>3, <1>4, <1>5, <1>6, <1>8, LinkedKeeps DEF c
  <1>10. /\ GoodRecord(rec) /\ rec.size = n /\ Len(rec.known) \in Nat
         /\ Len(rec.known) <= n /\ Len(rec.known) <= r[tid].size
         /\ \A k \in 1..Len(rec.known) : k \in 1..Len(r[tid].known) /\ rec.known[k] = r[tid].known[k]
    BY <1>1, CutToKeeps
  <1> HIDE DEF rec
  <1>11. /\ RecordFound(c, tid) /\ WhereIn(c, tid) = to
         /\ KnownIn(rec, m, bytes) => RecordRead(c, tid, rec)
    BY <1>1, <1>6, <1>9, <1>10, LinkedRecord
  <1>12. ASSUME tid \notin sp, NEW k \in 1..Len(rec.known) PROVE k \in 1..m /\ bytes[k] = rec.known[k]
    <2>1. HoldsRecord(sg, tid, 0, r[tid]) /\ r[tid].size \in Nat
      BY <1>1, <1>12 DEF GoodRecord
    <2>2. r[tid].size <= m
      BY <1>3, <2>1 DEF HoldsRecord, m
    <2>3. k \in 1..m /\ 0 + k = k
      BY <1>3, <1>10, <2>1, <2>2
    <2>4. bytes[0 + k] = r[tid].known[k]
      BY <1>10, <2>1 DEF HoldsRecord, bytes
    <2>5. QED
      BY <1>10, <2>3, <2>4
  <1>13. Concerns(sg, r, tid, {tid, to})
    BY <1>1, <1>5 DEF Concerns, AllocatedAt
  <1>14. SegmentStep(sg, c, {tid, to}) /\ \A x \in {tid, to} : StoredAt(c, x) => x = WhereIn(c, tid)
    <2>1. SegmentStep(sg, c, {tid, to}) /\ SlotOf(c, tid).kind = "redirect"
      BY <1>9 DEF LinkedAt
    <2>2. ~StoredAt(c, tid)
      BY <2>1, StoredIsUsed
    <2>3. QED
      BY <1>11, <2>1, <2>2
  <1>15. GoodRecords(c, With(r, tid, rec), sp)
    <2>1. sp \ {tid} \subseteq sp /\ (tid \notin sp => RecordRead(c, tid, rec))
      BY <1>11, <1>12 DEF KnownIn
    <2>2. WhereIn(c, tid) \in {tid, to}
      BY <1>11
    <2>3. QED
      BY <1>2, <1>10, <1>11, <1>13, <1>14, <2>1, <2>2, RecordsChange
  <1>16. QED
    BY <1>7, <1>14, <1>15 DEF Good, SegmentStep, rec

(***************************************************************************)
(* What resize has when it has erased the target of a redirect: the page   *)
(* of the redirect as it was, and the bytes of the record.                 *)
(***************************************************************************)
FreedAt(sg, t, tid, to) ==
    /\ SegmentStep(sg, t, {to}) /\ ~InUse(t, to)
    /\ InUse(t, tid) /\ SlotOf(t, tid).kind = "redirect" /\ PageOf(t, tid) = PageOf(sg, tid)

(* A target erased before its redirect moves on or back. *)
LEMMA FreedKeeps ==
    ASSUME NEW sg, GoodSegment(sg), NEW tid \in Address, InUse(sg, tid), SlotOf(sg, tid).kind = "redirect",
           NEW to, StoredAt(sg, to), to[1] # tid[1]
    PROVE  FreedAt(sg, Without(sg, to), tid, to)
  <1> DEFINE t == Without(sg, to)
  <1>1. StepAt(sg, t, to) /\ ~InUse(t, to)
    BY WithoutKeeps
  <1> HIDE DEF t
  <1>2. tid \in Address \ {to} /\ tid[1] \in 0..Len(sg.pages) - 1
    BY RedirectHasNoData
  <1>3. SegmentStep(sg, t, {to}) /\ InUse(t, tid) /\ SlotOf(t, tid).kind = "redirect"
    BY <1>1, <1>2, StepKeeps DEF StepAt
  <1>4. PageOf(t, tid) = PageOf(sg, tid)
    BY <1>1, <1>2 DEF StepAt, PageOf, PageAt
  <1>5. QED
    BY <1>1, <1>3, <1>4 DEF FreedAt, t

(* What the client knows of the record is among the bytes that were copied. *)
LEMMA BufferedIsKnown ==
    ASSUME NEW sg, GoodSegment(sg), NEW to, StoredAt(sg, to), NEW old, GoodRecord(old), NEW n \in Nat \ {0},
           HoldsRecord(sg, to, TIDSize, old), NEW m, m = Min({SlotOf(sg, to).size, n})
    PROVE  KnownIn(CutTo(old, n), m, BufferedRecord(sg, to, n))
  <1> DEFINE rec == CutTo(old, n)
             bytes == BufferedRecord(sg, to, n)
  <1>1. /\ m \in Nat /\ m <= n /\ m \in {SlotOf(sg, to).size, n}
        /\ \A k \in 1..m : TIDSize + k <= SlotOf(sg, to).size => bytes[k] = HeldAt(sg, to)[TIDSize + k]
    BY BufferedBytes
  <1> HIDE DEF bytes
  <1>2. /\ Len(rec.known) \in Nat /\ Len(rec.known) <= n /\ Len(rec.known) <= old.size
        /\ \A k \in 1..Len(rec.known) : k \in 1..Len(old.known) /\ rec.known[k] = old.known[k]
    BY CutToKeeps
  <1> HIDE DEF rec
  <1>3. TIDSize \in Nat /\ old.size \in Nat /\ SlotOf(sg, to).size \in Nat /\ TIDSize + old.size <= SlotOf(sg, to).size
    <2>1. TIDSize \in Nat /\ old.size \in Nat /\ SlotOf(sg, to).size \in Nat
      BY PageAssumption, StoredNumbers DEF TIDSize, GoodRecord
    <2>2. SlotOf(sg, to).size >= TIDSize + old.size
      BY DEF HoldsRecord
    <2>3. QED
      BY <2>1, <2>2
  <1>4. ASSUME NEW k \in 1..Len(rec.known) PROVE k \in 1..m /\ bytes[k] = rec.known[k]
    <2>1. k \in 1..m /\ TIDSize + k <= SlotOf(sg, to).size
      <3>1. PICK size \in Nat : size = SlotOf(sg, to).size /\ TIDSize + old.size <= size /\ m \in {size, n}
        BY <1>1, <1>3
      <3>2. k \in Nat /\ 1 <= k /\ k <= n /\ k <= old.size
        BY <1>2, <1>3
      <3>3. k <= size /\ TIDSize + k <= size
        BY <1>3, <3>1, <3>2
      <3>4. QED
        BY <1>1, <3>1, <3>2, <3>3
    <2>2. bytes[k] = HeldAt(sg, to)[TIDSize + k]
      BY <1>1, <2>1
    <2>3. HeldAt(sg, to)[TIDSize + k] = old.known[k]
      BY <1>2 DEF HoldsRecord
    <2>4. QED
      BY <1>2, <2>1, <2>2, <2>3
  <1>5. QED
    BY <1>4 DEF KnownIn, rec, bytes

(* resize of a redirected record, back to its own slot. *)
LEMMA GoodMovedBack ==
    ASSUME NEW sg, NEW r, NEW sp, Good(sg, r, sp), NEW tid \in DOMAIN r, SlotOf(sg, tid).kind = "redirect",
           NEW n \in Nat \ {0}, FitsBack(sg, tid, n)
    PROVE  Good(MovedBack(sg, tid, n), With(r, tid, CutTo(r[tid], n)), sp)
  <1> DEFINE to == SlotOf(sg, tid).tid
             f == Without(sg, to)
             m == Min({SlotOf(sg, to).size, n})
             bytes == BufferedRecord(sg, to, n)
             t == Reported(WithPage(f, tid[1], Refilled(PageOf(f, tid), tid[2], n, bytes)), tid[1])
             rec == CutTo(r[tid], n)
  <1>1. /\ tid \in Address /\ InUse(sg, tid) /\ StoredAt(sg, to) /\ to \in Address /\ InUse(sg, to)
        /\ to[1] # tid[1] /\ GoodRecord(r[tid])
        /\ (tid \notin sp => SlotOf(sg, to).kind = "target" /\ HoldsRecord(sg, to, TIDSize, r[tid]))
        /\ \A S \in SUBSET Address :
              (to \in S /\ \A a \in S : a \in {tid, to} \/ ~InUse(sg, a)) => Concerns(sg, r, tid, S)
    BY FarRecord
  <1>2. GoodSegment(sg) /\ GoodRecords(sg, r, sp)
    BY DEF Good
  <1>3. t = MovedBack(sg, tid, n)
    BY DEF MovedBack, Refilled
  <1>4. FreedAt(sg, f, tid, to)
    BY <1>1, <1>2, FreedKeeps
  <1>5. m \in Nat /\ m <= n /\ bytes \in [1..m -> Content]
    BY <1>1, <1>2, BufferedBytes
  <1>6. tid \notin sp => KnownIn(rec, m, bytes)
    BY <1>1, <1>2, BufferedIsKnown
  <1> HIDE DEF to, f, m, bytes
  <1>7. RefilledAt(f, t, tid, n, m, bytes)
    <2>1. GoodSegment(f) /\ InUse(f, tid) /\ SlotOf(f, tid).kind = "redirect"
      BY <1>4 DEF FreedAt, SegmentStep
    <2>2. n <= PageOf(f, tid).freeSpace
      <3>1. PageOf(sg, tid).freeSpace \in Nat
        BY <1>1, <1>2, PageOfGood, PageNumbers DEF InUse, GoodPage
      <3>2. QED
        BY <1>4, <3>1 DEF FreedAt, FitsBack
    <2>3. QED
      BY <1>1, <1>5, <2>1, <2>2, RefilledAtKeeps
  <1> HIDE DEF t
  <1>8. /\ SegmentStep(f, t, {tid}) /\ StoredAt(t, tid) /\ SlotOf(t, tid).kind = "record" /\ SlotOf(t, tid).size = n
        /\ \A k \in 1..m : HeldAt(t, tid)[k] = bytes[k]
    BY <1>7 DEF RefilledAt, StepAt
  <1>9. SegmentStep(sg, t, {to} \cup {tid})
    BY <1>4, <1>8, SegmentStepsCompose DEF FreedAt
  <1>10. ~StoredAt(t, to)
    <2>1. to \in Address \ {tid}
      BY <1>1
    <2>2. ~InUse(t, to)
      BY <1>4, <1>8, <2>1, StepKeeps DEF FreedAt
    <2>3. QED
      BY <2>2, StoredIsUsed
  <1>11. GoodRecord(rec) /\ rec.size = n /\ Len(rec.known) \in Nat
    BY <1>1, CutToKeeps
  <1> HIDE DEF rec
  <1>12. ASSUME tid \notin sp PROVE HoldsRecord(t, tid, 0, rec)
    <2>1. ASSUME NEW k \in 1..Len(rec.known) PROVE HeldAt(t, tid)[0 + k] = rec.known[k]
      <3>1. k \in 1..m /\ bytes[k] = rec.known[k]
        BY <1>6, <1>12 DEF KnownIn
      <3>2. 0 + k = k
        BY <1>11
      <3>3. QED
        BY <1>8, <3>1, <3>2
    <2>2. SlotOf(t, tid).size >= 0 + rec.size
      BY <1>8, <1>11
    <2>3. QED
      BY <2>1, <2>2 DEF HoldsRecord
  <1>13. RecordFound(t, tid) /\ WhereIn(t, tid) = tid /\ (tid \notin sp => RecordRead(t, tid, rec))
    BY <1>8, <1>12, DirectRecord
  <1>14. Concerns(sg, r, tid, {to} \cup {tid})
    BY <1>1 DEF to
  <1>15. GoodRecords(t, With(r, tid, rec), sp)
    <2>1. sp \ {tid} \subseteq sp
      OBVIOUS
    <2>2. WhereIn(t, tid) \in {to} \cup {tid} /\ \A a \in {to} \cup {tid} : StoredAt(t, a) => a = WhereIn(t, tid)
      BY <1>10, <1>13
    <2>3. QED
      BY <1>2, <1>9, <1>11, <1>13, <1>14, <2>1, <2>2, RecordsChange
  <1>16. QED
    BY <1>3, <1>9, <1>15 DEF Good, SegmentStep, rec

(* resize of a redirected record, to a new target. *)
LEMMA GoodMovedOn ==
    ASSUME NEW sg, NEW r, NEW sp, Good(sg, r, sp), NEW tid \in DOMAIN r, SlotOf(sg, tid).kind = "redirect",
           NEW n \in Nat \ {0}, n + TIDSize + SlotSize <= PageSize - HeaderSize,
           RedirectIsSafe(Without(sg, SlotOf(sg, tid).tid), n, {tid[1], SlotOf(sg, tid).tid[1]})
    PROVE  Good(MovedOn(sg, tid, n), With(r, tid, CutTo(r[tid], n)), sp)
  <1> DEFINE to == SlotOf(sg, tid).tid
             f == Without(sg, to)
             next == TargetTID(f, n + TIDSize)
             a == Allocated(f, n + TIDSize)
             b == WithPage(a, tid[1], [PageOf(a, tid) EXCEPT !.slots[tid[2] + 1] = RedirectSlot(next)])
             m == Min({SlotOf(sg, to).size, n})
             bytes == BufferedRecord(sg, to, n)
             c == FilledTarget(b, next, tid, bytes)
             rec == CutTo(r[tid], n)
  <1>1. /\ tid \in Address /\ InUse(sg, tid) /\ StoredAt(sg, to) /\ to \in Address /\ InUse(sg, to)
        /\ to[1] # tid[1] /\ GoodRecord(r[tid])
        /\ (tid \notin sp => SlotOf(sg, to).kind = "target" /\ HoldsRecord(sg, to, TIDSize, r[tid]))
        /\ \A S \in SUBSET Address :
              (to \in S /\ \A x \in S : x \in {tid, to} \/ ~InUse(sg, x)) => Concerns(sg, r, tid, S)
    BY FarRecord
  <1>2. GoodSegment(sg) /\ GoodRecords(sg, r, sp) /\ TIDSize \in Nat
    BY PageAssumption DEF Good, TIDSize
  <1>3. c = MovedOn(sg, tid, n)
    BY DEF MovedOn
  <1>4. FreedAt(sg, f, tid, to)
    BY <1>1, <1>2, FreedKeeps
  <1>5. m \in Nat /\ m <= n /\ bytes \in [1..m -> Content]
    BY <1>1, <1>2, BufferedBytes
  <1>6. tid \notin sp => KnownIn(rec, m, bytes)
    BY <1>1, <1>2, BufferedIsKnown
  <1>7. GoodSegment(f)
    BY <1>4 DEF FreedAt, SegmentStep
  <1>8. AllocatedAt(f, a, next, n + TIDSize) /\ next[1] # tid[1] /\ next[1] # to[1]
    <2>1. n + TIDSize \in Nat \ {0} /\ AllocateIsSafe(f, n + TIDSize) /\ TargetPage(f, n + TIDSize) \notin {tid[1], to[1]}
      BY <1>2 DEF RedirectIsSafe
    <2>2. next[1] = TargetPage(f, n + TIDSize)
      BY TargetIsOnPage
    <2> HIDE DEF to, f
    <2>3. QED
      BY <1>2, <1>7, <2>1, <2>2, AllocatedKeeps
  <1> HIDE DEF to, f, m, bytes, next, a
  <1>9. RedirectedAt(a, b, tid, next)
    <2>1. GoodSegment(a) /\ next \in Address /\ ~InUse(f, next) /\ SegmentStep(f, a, {next})
      BY <1>8 DEF AllocatedAt, SegmentStep
    <2>2. InUse(a, tid) /\ SlotOf(a, tid).kind = "redirect"
      <3>1. tid \in Address \ {next}
        BY <1>1, <1>8
      <3>2. QED
        BY <1>4, <2>1, <3>1, StepKeeps DEF FreedAt
    <2>3. QED
      BY <1>1, <2>1, <2>2, RelinkedKeeps
  <1> HIDE DEF b, c
  <1>10. LinkedAt(f, c, tid, next, n, m, bytes)
    <2>1. InUse(f, tid) /\ n \in Nat
      BY <1>4 DEF FreedAt
    <2>2. QED
      BY <1>1, <1>5, <1>8, <1>9, <2>1, LinkedKeeps DEF c
  <1>11. GoodRecord(rec) /\ rec.size = n
    BY <1>1, CutToKeeps
  <1> HIDE DEF rec
  <1>12. RecordFound(c, tid) /\ WhereIn(c, tid) = next /\ (tid \notin sp => RecordRead(c, tid, rec))
    BY <1>1, <1>6, <1>8, <1>10, <1>11, LinkedRecord
  <1> DEFINE S == {to} \cup {tid, next}
  <1>13. SegmentStep(sg, c, S)
    BY <1>4, <1>10, SegmentStepsCompose DEF FreedAt, LinkedAt
  <1>14. \A x \in S : StoredAt(c, x) => x = WhereIn(c, tid)
    <2>1. ~StoredAt(c, tid)
      BY <1>10, StoredIsUsed DEF LinkedAt
    <2>2. to \in Address \ {tid, next}
      BY <1>1, <1>8
    <2>3. ~InUse(c, to)
      BY <1>4, <1>10, <2>2, StepKeeps DEF FreedAt, LinkedAt
    <2>4. ~StoredAt(c, to)
      BY <2>3, StoredIsUsed
    <2>5. QED
      BY <1>12, <2>1, <2>4
  <1>15. Concerns(sg, r, tid, S)
    <2>1. next \in Address \ {to} /\ ~InUse(f, next)
      BY <1>8 DEF AllocatedAt
    <2>2. ~InUse(sg, next)
      BY <1>4, <2>1, StepKeeps DEF FreedAt
    <2>3. S \in SUBSET Address /\ to \in S /\ \A x \in S : x \in {tid, to} \/ ~InUse(sg, x)
      BY <1>1, <2>1, <2>2
    <2> HIDE DEF S
    <2>4. QED
      BY <1>1, <2>3 DEF to
  <1>16. GoodRecords(c, With(r, tid, rec), sp)
    <2>1. sp \ {tid} \subseteq sp /\ WhereIn(c, tid) \in S
      BY <1>12
    <2> HIDE DEF S
    <2>2. QED
      BY <1>2, <1>11, <1>12, <1>13, <1>14, <1>15, <2>1, RecordsChange
  <1>17. QED
    BY <1>3, <1>13, <1>16 DEF Good, SegmentStep, rec

------------------------------------------------------------------------------
(* The invariant, and what follows from it. *)

(* The sizes the client asks for leave room for a slot and a TID. *)
LEMMA SizesFit ==
    \A n \in NewSizes \cup Sizes :
        /\ n \in Nat \ {0} /\ n + SlotSize <= PageSize - HeaderSize
        /\ n + TIDSize + SlotSize <= PageSize - HeaderSize
  <1>1. SUFFICES ASSUME NEW n \in NewSizes \cup Sizes
                 PROVE  /\ n \in Nat \ {0} /\ n + SlotSize <= PageSize - HeaderSize
                        /\ n + TIDSize + SlotSize <= PageSize - HeaderSize
    OBVIOUS
  <1>2. n \in 1..(PageSize - HeaderSize - 2 * SlotSize)
    BY SegmentAssumption
  <1>3. QED
    BY <1>2, PageAssumption DEF TIDSize

(* The segment starts with one empty page and no records. *)
LEMMA SegmentInit == Init => SegmentInv
  <1> DEFINE sg == [pages |-> <<NewPage>>, fsi |-> <<15>>]
  <1>1. GoodEntry(NewPage, 15)
    <2>1. FreeSize \in Nat /\ HalfPageSize \div 8 \in Int
      <3>1. FreeSize \in Nat
        BY PageAssumption DEF FreeSize
      <3>2. HalfPageSize \in Nat
        BY <3>1 DEF HalfPageSize
      <3>3. QED
        BY <3>1, <3>2
    <2>2. LookUpTable[15] = FreeSize - 0 * (HalfPageSize \div 8)
      BY DEF LookUpTable
    <2>3. DecodeFreeSpace(15) = NewPage.freeSpace /\ NewPage.freeSpace \in Nat
      BY <2>1, <2>2, PageAssumption DEF DecodeFreeSpace, NewPage, FreeSize
    <2>4. QED
      BY <2>3, NewPageIsGood DEF GoodEntry
  <1>2. GoodSegment(sg)
    <2>1. NewPage \in PageType
      BY NewPageIsGood DEF GoodPage
    <2>2. sg.pages = <<NewPage>> /\ sg.fsi = <<15>> /\ sg \in SegmentType
      BY <2>1 DEF SegmentType
    <2> HIDE DEF sg
    <2>3. Len(sg.pages) = 1 /\ Len(sg.fsi) = 1 /\ \A k \in DOMAIN sg.pages : sg.pages[k] = NewPage /\ sg.fsi[k] = 15
      BY <2>2
    <2>4. QED
      BY <1>1, <2>2, <2>3 DEF GoodSegment
  <1>3. \A a : ~StoredAt(sg, a)
    <2>1. ASSUME NEW a, StoredAt(sg, a) PROVE FALSE
      <3>1. a \in Address /\ a[1] \in 0..0 /\ InUse(sg, a)
        <4>1. Len(sg.pages) = 1 /\ 1 - 1 = 0
          OBVIOUS
        <4>2. a \in Address /\ a[1] \in 0..Len(sg.pages) - 1
          BY <2>1 DEF StoredAt
        <4> HIDE DEF sg
        <4>3. QED
          BY <2>1, <4>1, <4>2, StoredIsUsed
      <3>2. PageOf(sg, a) = NewPage
        BY <3>1 DEF PageOf
      <3>3. QED
        BY <3>1, <3>2, NewPageIsGood DEF InUse
    <2>2. QED
      BY <2>1
  <1> HIDE DEF sg
  <1>4. ASSUME records = <<>> PROVE GoodRecords(sg, records, {})
    <2>1. DOMAIN records = {}
      BY <1>4
    <2>2. QED
      BY <1>3, <2>1 DEF GoodRecords
  <1>5. QED
    BY <1>2, <1>4, GoodTidied DEF Init, SegmentInv, Good, sg

(* What the client knows of its records, as the operators above write it. *)
LEMMA RecordsWritten ==
    /\ \A tid, n, bytes : Keeps(tid, n, bytes) <=> records' = With(records, tid, [size |-> n, known |-> bytes])
    /\ \A tid, n : Resized(tid, n) <=> records' = With(records, tid, CutTo(records[tid], n))
  BY DEF Keeps, Resized, With, CutTo, TIDs

(* Every method keeps the invariant; this is allocate. *)
LEMMA AllocateRecordKeeps ==
    ASSUME SegmentInv, NEW n \in NewSizes, AllocateRecord(n)
    PROVE  SegmentInv'
  <1>1. n \in Nat \ {0} /\ n + SlotSize <= PageSize - HeaderSize
    BY SizesFit
  <1>2. CASE AllocateIsSafe(segment, n)
    <2>1. /\ segment' = Tidied(Allocated(segment, n)) /\ spoiled' = spoiled
          /\ records' = With(records, TargetTID(segment, n), [size |-> n, known |-> ZeroBytes(n)])
      BY <1>2, RecordsWritten DEF AllocateRecord
    <2>2. Good(Allocated(segment, n), records', spoiled)
      BY <1>1, <1>2, <2>1, GoodAllocated DEF SegmentInv
    <2>3. QED
      BY <2>1, <2>2, GoodTidied DEF SegmentInv
  <1>3. CASE ~AllocateIsSafe(segment, n)
    BY <1>3 DEF AllocateRecord, Fails, SegmentInv
  <1>4. QED
    BY <1>2, <1>3

(* write keeps the invariant. *)
LEMMA WriteRecordKeeps ==
    ASSUME SegmentInv, NEW tid \in TIDs, NEW v \in Bytes \ {ZeroByte}, WriteRecord(tid, v)
    PROVE  SegmentInv'
  <1> DEFINE bytes == [k \in 1..records[tid].size |-> v]
             t == WithPage(segment, tid[1],
                    [PageOf(segment, tid) EXCEPT !.data = Copied(@, SlotOf(segment, tid).offset, bytes)])
  <1>1. CASE SlotOf(segment, tid).kind # "redirect"
    <2>1. /\ SlotOf(segment, tid).size >= records[tid].size /\ segment' = t /\ spoiled' = spoiled \ {tid}
          /\ records' = With(records, tid, [size |-> records[tid].size, known |-> bytes])
      BY <1>1, RecordsWritten DEF WriteRecord
    <2>2. tid \in DOMAIN records /\ v \in Bytes /\ Good(segment, records, spoiled)
      BY DEF TIDs, SegmentInv
    <2>3. Good(t, With(records, tid, [size |-> records[tid].size, known |-> bytes]), spoiled \ {tid})
      BY <1>1, <2>1, <2>2, GoodWritten
    <2>4. QED
      BY <2>1, <2>3 DEF SegmentInv
  <1>2. CASE SlotOf(segment, tid).kind = "redirect"
    BY <1>2 DEF WriteRecord, Fails, SegmentInv
  <1>3. QED
    BY <1>1, <1>2

(* resize of a record in its own slot keeps the invariant. *)
LEMMA ResizeRecordKeeps ==
    ASSUME SegmentInv, NEW tid \in TIDs, NEW n \in Sizes, ResizeRecord(tid, n)
    PROVE  SegmentInv'
  <1>1. /\ n \in Nat \ {0} /\ n + TIDSize + SlotSize <= PageSize - HeaderSize
        /\ tid \in DOMAIN records /\ Good(segment, records, spoiled)
    BY SizesFit DEF TIDs, SegmentInv
  <1>2. /\ SlotOf(segment, tid).kind # "redirect" /\ spoiled' = spoiled
        /\ records' = With(records, tid, CutTo(records[tid], n))
    BY RecordsWritten DEF ResizeRecord
  <1>3. CASE FitsInPlace(segment, tid, n)
    <2>1. segment' = Tidied(ResizedInPlace(segment, tid, n))
      BY <1>3 DEF ResizeRecord
    <2>2. Good(ResizedInPlace(segment, tid, n), records', spoiled)
      BY <1>1, <1>2, <1>3, GoodResizedInPlace
    <2>3. QED
      BY <1>2, <2>1, <2>2, GoodTidied DEF SegmentInv
  <1>4. CASE ~FitsInPlace(segment, tid, n)
    <2>1. segment' = Tidied(RedirectedAway(segment, tid, n)) /\ RedirectIsSafe(segment, n, {tid[1]})
      BY <1>4 DEF ResizeRecord
    <2>2. Good(RedirectedAway(segment, tid, n), records', spoiled)
      BY <1>1, <1>2, <1>4, <2>1, GoodRedirectedAway
    <2>3. QED
      BY <1>2, <2>1, <2>2, GoodTidied DEF SegmentInv
  <1>5. QED
    BY <1>3, <1>4

(* resize of a record behind a redirect keeps the invariant. *)
LEMMA ResizeRedirectKeeps ==
    ASSUME SegmentInv, NEW tid \in TIDs, NEW n \in Sizes, ResizeRedirect(tid, n)
    PROVE  SegmentInv'
  <1> DEFINE to == SlotOf(segment, tid).tid
  <1>1. /\ n \in Nat \ {0} /\ n + TIDSize + SlotSize <= PageSize - HeaderSize
        /\ tid \in DOMAIN records /\ Good(segment, records, spoiled)
    BY SizesFit DEF TIDs, SegmentInv
  <1>2. SlotOf(segment, tid).kind = "redirect" /\ records' = With(records, tid, CutTo(records[tid], n))
    BY RecordsWritten DEF ResizeRedirect
  <1>3. CASE FitsBack(segment, tid, n)
    <2>1. segment' = Tidied(MovedBack(segment, tid, n)) /\ spoiled' = spoiled
      BY <1>3 DEF ResizeRedirect
    <2>2. Good(MovedBack(segment, tid, n), records', spoiled)
      BY <1>1, <1>2, <1>3, GoodMovedBack
    <2>3. QED
      BY <2>1, <2>2, GoodTidied DEF SegmentInv
  <1>4. CASE ~FitsBack(segment, tid, n) /\ FitsThere(segment, to, n)
    <2>1. segment' = Tidied(ResizedInTarget(segment, tid, n)) /\ spoiled' = spoiled \cup {tid} /\ n > TIDSize
      BY <1>4 DEF ResizeRedirect
    <2>2. Good(ResizedInTarget(segment, tid, n), records', spoiled \cup {tid})
      BY <1>1, <1>2, <1>4, <2>1, GoodResizedInTarget
    <2>3. QED
      BY <2>1, <2>2, GoodTidied DEF SegmentInv
  <1>5. CASE ~FitsBack(segment, tid, n) /\ ~FitsThere(segment, to, n)
    <2>1. /\ segment' = Tidied(MovedOn(segment, tid, n)) /\ spoiled' = spoiled
          /\ RedirectIsSafe(Without(segment, to), n, {tid[1], to[1]})
      BY <1>5 DEF ResizeRedirect
    <2>2. Good(MovedOn(segment, tid, n), records', spoiled)
      BY <1>1, <1>2, <2>1, GoodMovedOn
    <2>3. QED
      BY <2>1, <2>2, GoodTidied DEF SegmentInv
  <1>6. QED
    BY <1>3, <1>4, <1>5

(* erase keeps the invariant. *)
LEMMA EraseRecordKeeps ==
    ASSUME SegmentInv, NEW tid \in TIDs, EraseRecord(tid)
    PROVE  SegmentInv'
  <1>1. CASE SlotOf(segment, tid).kind # "redirect"
    <2>1. /\ segment' = Tidied(Without(segment, tid)) /\ spoiled' = spoiled \ {tid}
          /\ records' = [t \in DOMAIN records \ {tid} |-> records[t]] /\ tid \in DOMAIN records
      BY <1>1 DEF EraseRecord, TIDs
    <2>2. Good(Without(segment, tid), records', spoiled')
      BY <1>1, <2>1, GoodErased DEF SegmentInv
    <2>3. QED
      BY <2>1, <2>2, GoodTidied DEF SegmentInv
  <1>2. CASE SlotOf(segment, tid).kind = "redirect"
    BY <1>2 DEF EraseRecord, Fails, SegmentInv
  <1>3. QED
    BY <1>1, <1>2

(* Every step keeps the invariant. *)
LEMMA SegmentNext == SegmentInv /\ [Next]_segmentVars => SegmentInv'
  <1>1. SUFFICES ASSUME SegmentInv, [Next]_segmentVars PROVE SegmentInv'
    OBVIOUS
  <1>2. CASE UNCHANGED segmentVars
    BY <1>1, <1>2 DEF SegmentInv, segmentVars
  <1>3. ASSUME NEW n \in NewSizes, AllocateRecord(n) PROVE SegmentInv'
    BY <1>1, <1>3, AllocateRecordKeeps
  <1>4. ASSUME NEW tid \in TIDs, NEW v \in Bytes \ {ZeroByte}, WriteRecord(tid, v) PROVE SegmentInv'
    BY <1>1, <1>4, WriteRecordKeeps
  <1>5. ASSUME NEW tid \in TIDs, NEW n \in Sizes, ResizeRecord(tid, n) PROVE SegmentInv'
    BY <1>1, <1>5, ResizeRecordKeeps
  <1>6. ASSUME NEW tid \in TIDs, NEW n \in Sizes, ResizeRedirect(tid, n) PROVE SegmentInv'
    BY <1>1, <1>6, ResizeRedirectKeeps
  <1>7. ASSUME NEW tid \in TIDs, NEW n \in Sizes, ResizeAborts(tid, n) PROVE SegmentInv'
    BY <1>1, <1>7 DEF ResizeAborts, Fails, SegmentInv
  <1>8. ASSUME NEW tid \in TIDs, EraseRecord(tid) PROVE SegmentInv'
    BY <1>1, <1>8, EraseRecordKeeps
  <1>9. QED
    BY <1>1, <1>2, <1>3, <1>4, <1>5, <1>6, <1>7, <1>8 DEF Next

(* Of the inventory, of pages and of empty slots. *)
LEMMA InventoryFollows == SegmentInv => InventoryIsSafe /\ PagesSound /\ ReusesEmptySlots
  <1>1. SUFFICES ASSUME SegmentInv PROVE InventoryIsSafe /\ PagesSound /\ ReusesEmptySlots
    OBVIOUS
  <1>2. GoodSegment(segment)
    BY <1>1 DEF SegmentInv, Good
  <1>3. InventoryIsSafe
    BY <1>2, PageFound DEF InventoryIsSafe, GoodEntry, PageAt
  <1>4. PagesSound
    BY <1>2 DEF PagesSound, GoodSegment, GoodEntry, GoodPage
  <1>5. ASSUME NEW k \in DOMAIN segment.pages, segment.pages[k].firstFree < SlotCount(segment.pages[k])
        PROVE  IsEmpty(segment.pages[k], segment.pages[k].firstFree)
    <2>1. ~Taken(segment.pages[k], segment.pages[k].firstFree) /\ segment.pages[k] \in PageType
      BY <1>2 DEF GoodSegment, GoodEntry, GoodPage
    <2>2. segment.pages[k].firstFree \in Nat /\ SlotCount(segment.pages[k]) \in Nat
      BY <2>1, PageNumbers
    <2>3. QED
      BY <1>5, <2>1, <2>2 DEF Taken
  <1>6. QED
    BY <1>3, <1>4, <1>5 DEF ReusesEmptySlots

(* The bytes of a record, wherever they are read from. *)
LEMMA HeldIsRead ==
    ASSUME NEW sg, GoodSegment(sg), NEW a, StoredAt(sg, a), NEW m \in Nat, NEW len \in Nat,
           m + len <= SlotOf(sg, a).size, NEW k \in 1..len
    PROVE  CopiedOut(PageOf(sg, a).data, SlotOf(sg, a).offset + m, len)[k] = HeldAt(sg, a)[m + k]
  <1> DEFINE pg == PageOf(sg, a)
  <1>1. a[2] \in Stored(pg) /\ GoodPage(pg)
    BY PageOfGood DEF StoredAt
  <1>2. PICK o \in Nat, size \in Nat \ {0} :
          o = SlotAt(pg, a[2]).offset /\ size = SlotAt(pg, a[2]).size /\ o + size <= PageSize
    BY <1>1, GoodPlacing DEF Placing
  <1>3. SlotOf(sg, a).size = size /\ SlotOf(sg, a).offset = o
    BY <1>2 DEF SlotOf
  <1>4. PICK i \in 1..size : i = m + k
    BY <1>3
  <1>5. HeldAt(sg, a)[i] = pg.data[o + i - 1]
    BY <1>2 DEF HeldAt, Held, BytesAt
  <1>6. o + m + k - 1 = o + i - 1 /\ o + i - 1 < PageSize
    BY <1>2, <1>4, PageAssumption
  <1> HIDE DEF pg
  <1>7. CopiedOut(pg.data, o + m, len)[k] = pg.data[o + i - 1]
    BY <1>6 DEF CopiedOut
  <1>8. QED
    BY <1>3, <1>4, <1>5, <1>7 DEF pg

(* The first bytes that are read from a slot are the first bytes of its record. *)
LEMMA FirstIsRead ==
    ASSUME NEW sg, GoodSegment(sg), NEW a, StoredAt(sg, a), NEW len \in Nat, len <= SlotOf(sg, a).size, NEW k \in 1..len
    PROVE  BytesAt(PageOf(sg, a).data, SlotOf(sg, a).offset, len)[k] = HeldAt(sg, a)[k]
  <1>1. k \in 1..SlotOf(sg, a).size
    BY StoredNumbers
  <1>2. QED
    BY <1>1 DEF HeldAt, Held, BytesAt, SlotOf

(* Of redirects. *)
LEMMA RedirectsFollow == SegmentInv => OneRedirect
  <1>1. SUFFICES ASSUME SegmentInv PROVE OneRedirect
    OBVIOUS
  <1>2. GoodSegment(segment) /\ GoodRecords(segment, records, spoiled) /\ TIDSize \in Nat
    BY <1>1, PageAssumption DEF SegmentInv, Good, TIDSize
  <1>3. \A tid : Location(tid) = WhereIn(segment, tid)
    BY DEF Location, WhereIn
  <1>4. ASSUME NEW tid \in TIDs, NEW to, to = Location(tid)
        PROVE  /\ SlotOf(segment, to).kind \in {"record", "target"}
               /\ to # tid =>
                    /\ to[1] # tid[1]
                    /\ BytesAt(PageOf(segment, to).data, SlotOf(segment, to).offset, TIDSize) = TIDBytes(tid)
    <2>1. RecordFound(segment, tid) /\ to = WhereIn(segment, tid)
      BY <1>2, <1>3, <1>4 DEF GoodRecords, TIDs
    <2>2. StoredAt(segment, to)
      BY <2>1 DEF RecordFound
    <2>3. ASSUME to # tid
          PROVE  /\ to[1] # tid[1] /\ SlotOf(segment, to).size > TIDSize
                 /\ \A k \in 1..TIDSize : HeldAt(segment, to)[k] = TIDBytes(tid)[k]
      BY <2>1, <2>3 DEF RecordFound, WhereIn
    <2>4. ASSUME to # tid
          PROVE  BytesAt(PageOf(segment, to).data, SlotOf(segment, to).offset, TIDSize) = TIDBytes(tid)
      <3> DEFINE bytes == BytesAt(PageOf(segment, to).data, SlotOf(segment, to).offset, TIDSize)
      <3>1. SlotOf(segment, to).size \in Nat
        BY <1>2, <2>2, StoredNumbers
      <3>2. TIDSize <= SlotOf(segment, to).size
        BY <1>2, <2>3, <2>4, <3>1
      <3>3. ASSUME NEW k \in 1..TIDSize PROVE bytes[k] = TIDBytes(tid)[k]
        <4>1. bytes[k] = HeldAt(segment, to)[k]
          BY <1>2, <2>2, <3>2, FirstIsRead
        <4>2. QED
          BY <2>3, <2>4, <4>1
      <3>4. bytes = [k \in 1..TIDSize |-> bytes[k]] /\ TIDBytes(tid) = [k \in 1..TIDSize |-> TIDBytes(tid)[k]]
        BY DEF BytesAt, TIDBytes
      <3> HIDE DEF bytes
      <3>5. QED
        BY <3>3, <3>4 DEF bytes
    <2>5. QED
      BY <2>2, <2>3, <2>4 DEF StoredAt, Stored, SlotOf
  <1>5. ASSUME NEW k \in DOMAIN segment.pages, NEW id \in Stored(segment.pages[k])
        PROVE  \E tid \in TIDs : Location(tid) = <<k - 1, id>>
    <2>1. k - 1 \in 0..Len(segment.pages) - 1 /\ k - 1 + 1 = k
      BY <1>2 DEF GoodSegment, SegmentType
    <2>2. id \in Nat
      <3>1. segment.pages[k] \in PageType
        BY <1>2 DEF GoodSegment, GoodEntry, GoodPage
      <3>2. QED
        BY <3>1, SlotTyped DEF Stored
    <2>3. StoredAt(segment, <<k - 1, id>>)
      BY <2>1, <2>2 DEF StoredAt, PageOf, Address
    <2>4. QED
      BY <1>2, <1>3, <2>3 DEF GoodRecords, TIDs, StoredAt
  <1>6. QED
    BY <1>4, <1>5 DEF OneRedirect

(* Of the contents of records. *)
LEMMA RecordsFollow == SegmentInv => RecordsKept
  <1>1. SUFFICES ASSUME SegmentInv, NEW tid \in TIDs \ spoiled PROVE Readable(tid)
    BY DEF RecordsKept
  <1> DEFINE to == Location(tid)
             m == IF to = tid THEN 0 ELSE TIDSize
             known == records[tid].known
  <1>2. GoodSegment(segment) /\ GoodRecords(segment, records, spoiled) /\ TIDSize \in Nat
    BY <1>1, PageAssumption DEF SegmentInv, Good, TIDSize
  <1>3. RecordFound(segment, tid) /\ GoodRecord(records[tid]) /\ RecordRead(segment, tid, records[tid])
    BY <1>1, <1>2 DEF GoodRecords, TIDs
  <1>4. /\ StoredAt(segment, to) /\ HoldsRecord(segment, to, m, records[tid])
        /\ SlotOf(segment, to).kind = IF to = tid THEN "record" ELSE "target"
    BY <1>3 DEF RecordFound, RecordRead, Location, WhereIn
  <1>5. m \in Nat /\ Len(known) \in Nat /\ Len(known) <= records[tid].size /\ known \in Seq(Bytes) /\ records[tid].size \in Nat
    BY <1>2, <1>3 DEF GoodRecord
  <1>6. SlotOf(segment, to).size \in Nat
    BY <1>2, <1>4, StoredNumbers
  <1> DEFINE read == CopiedOut(PageOf(segment, to).data, SlotOf(segment, to).offset + m, Len(known))
  <1> HIDE DEF m, known, to
  <1>7. m + Len(known) <= SlotOf(segment, to).size /\ SlotOf(segment, to).size >= records[tid].size
    BY <1>4, <1>5, <1>6 DEF HoldsRecord
  <1>8. ASSUME NEW k \in 1..Len(known) PROVE read[k] = known[k]
    <2>1. read[k] = HeldAt(segment, to)[m + k]
      BY <1>2, <1>4, <1>5, <1>7, HeldIsRead
    <2>2. HeldAt(segment, to)[m + k] = known[k]
      BY <1>4 DEF HoldsRecord, known
    <2>3. QED
      BY <2>1, <2>2
  <1>9. read = [k \in 1..Len(known) |-> read[k]] /\ known = [k \in 1..Len(known) |-> known[k]]
    BY <1>5 DEF CopiedOut
  <1> HIDE DEF read
  <1>10. read = known
    BY <1>8, <1>9
  <1>11. QED
    BY <1>4, <1>7, <1>10 DEF Readable, read, m, known, to

(* Of the pages that redirects go to. *)
LEMMA TargetsFollow == SegmentInv => RedirectsElsewhere
  <1>1. SUFFICES ASSUME SegmentInv, NEW tid \in TIDs, NEW n \in Sizes, MustMove(tid, n),
                        TargetPage(Freed(tid), n + TIDSize) = tid[1]
                 PROVE  FALSE
    BY DEF RedirectsElsewhere
  <1> DEFINE f == Freed(tid)
  <1>2. /\ GoodSegment(segment) /\ GoodRecords(segment, records, spoiled) /\ TIDSize \in Nat /\ SlotSize \in Nat
        /\ n \in Nat \ {0} /\ tid \in DOMAIN records
    BY <1>1, SizesFit, PageAssumption DEF SegmentInv, Good, TIDSize, TIDs
  <1>3. RecordFound(segment, tid) /\ Location(tid) = WhereIn(segment, tid)
    BY <1>2 DEF GoodRecords, Location, WhereIn
  <1>4. tid \in Address /\ tid[1] \in 0..Len(segment.pages) - 1 /\ PageOf(segment, tid).freeSpace \in Nat
    <2>1. tid \in Address /\ tid[1] \in 0..Len(segment.pages) - 1
      BY <1>3 DEF RecordFound, InUse
    <2>2. QED
      BY <1>2, <2>1, PageOfGood, PageNumbers DEF GoodPage
  <1>5. GoodSegment(f) /\ PageOf(f, tid) = PageOf(segment, tid) /\ tid[1] \in 0..Len(f.pages) - 1
    <2>1. CASE Location(tid) = tid
      BY <1>2, <1>4, <2>1 DEF Freed
    <2>2. CASE Location(tid) # tid
      <3>1. /\ SlotOf(segment, tid).kind = "redirect" /\ StoredAt(segment, Location(tid))
            /\ Location(tid)[1] # tid[1] /\ InUse(segment, tid)
        BY <1>3, <2>2 DEF RecordFound, WhereIn
      <3>2. FreedAt(segment, f, tid, Location(tid))
        BY <1>2, <1>4, <2>2, <3>1, FreedKeeps DEF Freed
      <3> HIDE DEF f
      <3>3. QED
        BY <3>2 DEF FreedAt, SegmentStep, InUse
    <2>3. QED
      BY <2>1, <2>2
  <1>6. PageOf(segment, tid).freeSpace <= n
    <2>1. CASE Location(tid) = tid
      <3>1. SlotOf(segment, tid).size \in Nat
        BY <1>2, <1>3, <2>1, StoredNumbers DEF RecordFound
      <3>2. ~(PageOf(segment, tid).freeSpace + SlotOf(segment, tid).size > n)
        BY <1>1, <2>1 DEF MustMove, FitsInPlace
      <3>3. QED
        BY <1>2, <1>4, <3>1, <3>2
    <2>2. CASE Location(tid) # tid
      <3>1. ~(PageOf(segment, tid).freeSpace >= n)
        BY <1>1, <2>2 DEF MustMove, FitsBack
      <3>2. QED
        BY <1>2, <1>4, <3>1
    <2>3. QED
      BY <2>1, <2>2
  <1>7. /\ f.fsi \in Seq(0..15) /\ Len(f.fsi) = Len(f.pages) /\ Len(f.pages) \in Nat
    BY <1>5 DEF GoodSegment, SegmentType
  <1>8. DecodeFreeSpace(f.fsi[tid[1] + 1]) >= n + TIDSize + SlotSize
    <2>1. tid[1] # Len(f.fsi)
      BY <1>5, <1>7
    <2>2. Find(f.fsi, n + TIDSize + SlotSize) = tid[1]
      BY <1>1 DEF TargetPage
    <2> HIDE DEF f
    <2>3. QED
      BY <1>7, <2>1, <2>2, FindFits
  <1> HIDE DEF f
  <1>9. /\ DecodeFreeSpace(f.fsi[tid[1] + 1]) <= PageOf(segment, tid).freeSpace
        /\ f.fsi[tid[1] + 1] \in 0..15
    BY <1>5, PageFound DEF GoodEntry, PageAt, PageOf
  <1>10. DecodeFreeSpace(f.fsi[tid[1] + 1]) \in Int
    BY <1>9, DecodedIsNumber
  <1>11. SlotSize # 0
    BY PageAssumption
  <1>12. QED
    BY <1>2, <1>4, <1>6, <1>8, <1>9, <1>10, <1>11

(***************************************************************************)
(* The pages, the inventory and the records of the client are as           *)
(* SegmentInv says in every reachable state, whatever the sizes of pages   *)
(* and records and the number of calls.                                    *)
(***************************************************************************)
THEOREM Invariant == Spec => []SegmentInv
  <1>1. Init => SegmentInv
    BY SegmentInit
  <1>2. SegmentInv /\ [Next]_segmentVars => SegmentInv'
    BY SegmentNext
  <1>3. QED
    BY <1>1, <1>2, PTL DEF Spec

(***************************************************************************)
(* No entry of the inventory promises more than its page has, although     *)
(* find charges entries by estimate and not every method refreshes them    *)
(* (fsi_segment.cc:112-175): the page that find returns has room for what  *)
(* it was asked for.                                                       *)
(***************************************************************************)
THEOREM InventoryIsSafeHolds == Spec => []InventoryIsSafe
  BY Invariant, InventoryFollows, PTL

(***************************************************************************)
(* On every page free_space is exact and records overlap neither each      *)
(* other nor the directory, after any order of allocate, relocate,         *)
(* compactify and erase (slotted_page.cc:18-223) and of redirects, whose   *)
(* slots have no data.                                                     *)
(***************************************************************************)
THEOREM PagesSoundHolds == Spec => []PagesSound
  BY Invariant, InventoryFollows, PTL

(***************************************************************************)
(* The slot that allocate reuses is empty: first_free_slot, as erase and   *)
(* the search without break leave it (slotted_page.cc:34-48,145-160),      *)
(* never leads to a slot in use.                                           *)
(***************************************************************************)
THEOREM ReusesEmptySlotsHolds == Spec => []ReusesEmptySlots
  BY Invariant, InventoryFollows, PTL

(***************************************************************************)
(* Every TID leads to its record directly or over one redirect to another  *)
(* page, where the record carries the TID, and no other record is left     *)
(* behind, through all branches of resize and erase                        *)
(* (sp_segment.cc:197-471).                                                *)
(***************************************************************************)
THEOREM OneRedirectHolds == Spec => []OneRedirect
  BY Invariant, RedirectsFollow, PTL

(***************************************************************************)
(* What read finds behind a TID is what the client wrote last, cut or      *)
(* extended by the resizes since, whatever was allocated, moved and erased *)
(* around it (sp_segment.cc:85-410); records that were resized inside a    *)
(* target are left out.                                                    *)
(***************************************************************************)
THEOREM RecordsKeptHolds == Spec => []RecordsKept
  BY Invariant, RecordsFollow, PTL

(***************************************************************************)
(* A record that is to be redirected is never sent to the page of its own  *)
(* slot (the assertions at sp_segment.cc:258,379): the inventory would     *)
(* promise room there for the record, its TID and a slot, and the page has *)
(* less.                                                                   *)
(***************************************************************************)
THEOREM RedirectsElsewhereHolds == Spec => []RedirectsElsewhere
  BY Invariant, TargetsFollow, PTL
=============================================================================
