------------------------- MODULE ExternalSortProofs -------------------------
(***************************************************************************)
(* The external sort sorts: for every input, every size of memory of three *)
(* values or more and every number of values to be sorted.                 *)
(*                                                                         *)
(* The invariant of ExternalSortInv is proved action by action.  A merge   *)
(* takes most of it: that a run offers the next of its values is a matter  *)
(* of its buffer (AfterBuffers), that the output ascends of the least      *)
(* value taken (AfterWritten), and that nothing is lost of counting the    *)
(* values of the file at the positions given away (GivenNext).  Of the     *)
(* passes it is left to see that a pair takes the place of its two runs    *)
(* (RunsAfterPair).  std::sort, in the model a permutation by rank, is     *)
(* shown to sort (SortedProperties).                                       *)
(***************************************************************************)
EXTENDS ExternalSortInv, ListLemmas

(* Numbers, and the files read and written in blocks. *)

(* What stands at positions is a number, as the order needs it. *)
LEMMA ContentIsNat == Content \subseteq Nat
  BY SortAssumption DEF Content

(* The values of a file are numbers. *)
LEMMA ContentNumbers ==
    ASSUME NEW s \in Seq(Content)
    PROVE  /\ Len(s) \in Nat /\ DOMAIN s = 1..Len(s)
           /\ \A k \in 1..Len(s) : s[k] \in Content /\ s[k] \in Nat
  <1>1. Len(s) \in Nat /\ DOMAIN s = 1..Len(s)
    OBVIOUS
  <1>2. ASSUME NEW k \in 1..Len(s) PROVE s[k] \in Content /\ s[k] \in Nat
    <2>1. s[k] \in Content
      OBVIOUS
    <2>2. QED
      BY <2>1, ContentIsNat
  <1>3. QED
    BY <1>1, <1>2

(* The blocks of one size that lie behind each other are disjoint. *)
LEMMA BlockOrder ==
    ASSUME NEW a \in Nat, NEW b \in Nat, NEW size \in Nat, a < b
    PROVE  a * size + size <= b * size
  OBVIOUS

(* A block begins where the one before it ends. *)
LEMMA NextBlock ==
    ASSUME NEW a \in Int, NEW size \in Nat
    PROVE  /\ (a + 1) * size = a * size + size
           /\ (a - 1) * size = a * size - size
           /\ 2 * (a * size) = a * (2 * size)
           /\ a * size \in Int
           /\ a >= 0 => a * size \in Nat
  OBVIOUS

(* How a number is divided. *)
LEMMA Division ==
    ASSUME NEW a \in Nat, NEW b \in Nat \ {0}
    PROVE  /\ a \div b \in Nat /\ a % b \in 0 .. b - 1
           /\ a = (a \div b) * b + (a % b)
  OBVIOUS

(* Quotient and remainder are what they are recognised by. *)
LEMMA DivisionUnique ==
    ASSUME NEW a \in Nat, NEW b \in Nat \ {0}, NEW q \in Nat, NEW r \in 0 .. b - 1, a = q * b + r
    PROVE  a \div b = q /\ a % b = r
  OBVIOUS

(* The greater of two numbers. *)
LEMMA MaxOfTwo ==
    ASSUME NEW a \in Nat, NEW b \in Nat, a <= b
    PROVE  Max({b, a}) = b
  <1>1. \E x \in {b, a} : \A y \in {b, a} : x >= y
    OBVIOUS
  <1>2. PICK x \in {b, a} : x = Max({b, a}) /\ \A y \in {b, a} : x >= y
    BY <1>1 DEF Max
  <1>3. QED
    BY <1>2

(* A block that is written inside a file changes that part of it only. *)
LEMMA WriteInside ==
    ASSUME NEW S, NEW file \in Seq(S), NEW block \in Seq(S), NEW offset \in Nat,
           offset + Len(block) <= Len(file)
    PROVE  /\ Write(file, offset, block) \in Seq(S)
           /\ Len(Write(file, offset, block)) = Len(file)
           /\ \A i \in 1..Len(file) :
                 Write(file, offset, block)[i] =
                    IF offset < i /\ i <= offset + Len(block) THEN block[i - offset] ELSE file[i]
  <1>1. PICK L \in Nat : L = Len(file) /\ DOMAIN file = 1..L /\ file \in [1..L -> S]
    OBVIOUS
  <1>2. PICK K \in Nat : K = Len(block) /\ DOMAIN block = 1..K /\ block \in [1..K -> S]
    OBVIOUS
  <1>3. Max({Len(file), offset + Len(block)}) = L
    BY <1>1, <1>2, MaxOfTwo
  <1>4. Write(file, offset, block) = [i \in 1..L |-> IF i - offset \in 1..K THEN block[i - offset] ELSE file[i]]
    BY <1>1, <1>2, <1>3 DEF Write
  <1>5. \A i \in 1..L : i - offset \in 1..K <=> (offset < i /\ i <= offset + K)
    OBVIOUS
  <1>6. [i \in 1..L |-> IF i - offset \in 1..K THEN block[i - offset] ELSE file[i]] \in [1..L -> S]
    BY <1>1, <1>2
  <1> DEFINE new == [i \in 1..L |-> IF i - offset \in 1..K THEN block[i - offset] ELSE file[i]]
  <1>7. \A i \in 1..L : new[i] = IF offset < i /\ i <= offset + K THEN block[i - offset] ELSE file[i]
    BY <1>5
  <1>8. new \in Seq(S) /\ Len(new) = L
    <2>1. new \in [1..L -> S]
      BY <1>6
    <2> HIDE DEF new
    <2>2. QED
      BY <2>1, <1>1
  <1>9. QED
    BY <1>1, <1>2, <1>4, <1>7, <1>8

(* What is read replaces the beginning of the buffer. *)
LEMMA ReadBlock ==
    ASSUME NEW S, NEW file \in Seq(S), NEW buf \in Seq(S), NEW offset \in Nat, NEW size \in Int
    PROVE  /\ Read(file, offset, size, buf) \in Seq(S)
           /\ Len(Read(file, offset, size, buf)) = Len(buf)
           /\ \A i \in 1..Len(buf) :
                 Read(file, offset, size, buf)[i] =
                    IF i <= size /\ offset + i <= Len(file) THEN file[offset + i] ELSE buf[i]
  <1>1. PICK L \in Nat : L = Len(file) /\ file \in [1..L -> S]
    OBVIOUS
  <1>2. PICK K \in Nat : K = Len(buf) /\ DOMAIN buf = 1..K /\ buf \in [1..K -> S]
    OBVIOUS
  <1> DEFINE new == [i \in 1..K |-> IF i <= size /\ offset + i <= L THEN file[offset + i] ELSE buf[i]]
  <1>3. Read(file, offset, size, buf) = new
    BY <1>1, <1>2 DEF Read
  <1>4. new \in [1..K -> S]
    <2>1. ASSUME NEW i \in 1..K PROVE (IF i <= size /\ offset + i <= L THEN file[offset + i] ELSE buf[i]) \in S
      <3>1. CASE i <= size /\ offset + i <= L
        <4>1. offset + i \in 1..L
          BY <3>1
        <4>2. QED
          BY <4>1, <3>1, <1>1
      <3>2. CASE ~(i <= size /\ offset + i <= L)
        BY <3>2, <1>2
      <3>3. QED
        BY <3>1, <3>2
    <2>2. QED
      BY <2>1
  <1>5. \A i \in 1..K : new[i] = IF i <= size /\ offset + i <= L THEN file[offset + i] ELSE buf[i]
    OBVIOUS
  <1> HIDE DEF new
  <1>6. new \in Seq(S) /\ Len(new) = K
    BY <1>4, <1>2
  <1>7. QED
    BY <1>1, <1>2, <1>3, <1>5, <1>6

(* One position of the buffer. *)
LEMMA ReadElement ==
    ASSUME NEW S, NEW file \in Seq(S), NEW buf \in Seq(S), NEW offset \in Nat, NEW size \in Int,
           NEW i \in 1..Len(buf)
    PROVE  Read(file, offset, size, buf)[i] =
              IF i <= size /\ offset + i <= Len(file) THEN file[offset + i] ELSE buf[i]
  BY ReadBlock

(* Fresh memory. *)
LEMMA BlankContent ==
    ASSUME NEW size \in Nat
    PROVE  Blank(size) \in Seq(Content) /\ Len(Blank(size)) = size
  <1>1. Blank(size) \in [1..size -> Content]
    BY DEF Blank, Content
  <1>2. QED
    BY <1>1

(* A part of a file, with positions of the file. *)
LEMMA PartOf ==
    ASSUME NEW S, NEW s \in Seq(S), NEW a \in Nat, NEW b \in Nat, a <= b, b <= Len(s)
    PROVE  /\ SubSeq(s, a + 1, b) \in Seq(S) /\ Len(SubSeq(s, a + 1, b)) = b - a
           /\ \A i \in 1 .. b - a : SubSeq(s, a + 1, b)[i] = s[a + i]
  <1>1. PICK part : part = SubSeq(s, a + 1, b)
    OBVIOUS
  <1>2. part = [i \in 1 .. 1 + b - (a + 1) |-> s[(a + 1) + i - 1]]
    BY <1>1
  <1>3. 1 + b - (a + 1) = b - a /\ b - a \in Nat
    OBVIOUS
  <1>4. PICK L \in Nat : L = Len(s) /\ s \in [1..L -> S]
    OBVIOUS
  <1>5. \A i \in 1 .. b - a : (a + 1) + i - 1 = a + i /\ a + i \in 1..L
    BY <1>4
  <1>6. part \in [1 .. b - a -> S]
    BY <1>2, <1>3, <1>4, <1>5
  <1>7. \A i \in 1 .. b - a : part[i] = s[a + i]
    BY <1>2, <1>3, <1>5
  <1>8. part \in Seq(S) /\ Len(part) = b - a
    BY <1>3, <1>6
  <1>9. QED
    BY <1>1, <1>7, <1>8

(* A part that is empty. *)
LEMMA NoPart ==
    ASSUME NEW s, NEW b \in Int, b < 1
    PROVE  SubSeq(s, 1, b) = <<>>
  OBVIOUS

(* The part ascends as a list if the file ascends there. *)
LEMMA PartAscends ==
    ASSUME NEW s \in Seq(Content), NEW a \in Nat, NEW b \in Nat, a <= b, b <= Len(s)
    PROVE  Ascending(SubSeq(s, a + 1, b)) <=> Rising(s, a, b)
  <1>1. PICK part : part = SubSeq(s, a + 1, b)
    OBVIOUS
  <1>2. part \in Seq(Content) /\ Len(part) = b - a /\ \A i \in 1 .. b - a : part[i] = s[a + i]
    BY <1>1, PartOf
  <1>3. ASSUME Ascending(part) PROVE Rising(s, a, b)
    <2> SUFFICES ASSUME NEW p \in a + 1 .. b - 1 PROVE s[p] <= s[p + 1]
      BY DEF Rising
    <2>1. p - a \in 1 .. Len(part) - 1 /\ p - a \in 1 .. b - a /\ p - a + 1 \in 1 .. b - a
      BY <1>2
    <2>2. part[p - a] <= part[p - a + 1]
      BY <1>3, <2>1 DEF Ascending
    <2>3. part[p - a] = s[a + (p - a)] /\ part[p - a + 1] = s[a + (p - a + 1)]
      BY <1>2, <2>1
    <2>4. a + (p - a) = p /\ a + (p - a + 1) = p + 1
      OBVIOUS
    <2>5. QED
      BY <2>2, <2>3, <2>4
  <1>4. ASSUME Rising(s, a, b) PROVE Ascending(part)
    <2> SUFFICES ASSUME NEW i \in 1 .. Len(part) - 1 PROVE part[i] <= part[i + 1]
      BY DEF Ascending
    <2>1. a + i \in a + 1 .. b - 1 /\ i \in 1 .. b - a /\ i + 1 \in 1 .. b - a
      BY <1>2
    <2>2. s[a + i] <= s[a + i + 1]
      BY <1>4, <2>1 DEF Rising
    <2>3. part[i] = s[a + i] /\ part[i + 1] = s[a + (i + 1)] /\ a + i + 1 = a + (i + 1)
      BY <1>2, <2>1
    <2>4. QED
      BY <2>2, <2>3
  <1>5. QED
    BY <1>1, <1>3, <1>4

(* Ascending is to rise from the first position on. *)
LEMMA WholeAscends ==
    ASSUME NEW s \in Seq(Content)
    PROVE  Ascending(s) <=> Rising(s, 0, Len(s))
  <1>1. Len(s) \in Nat /\ 0 + 1 = 1
    OBVIOUS
  <1>2. QED
    BY <1>1 DEF Ascending, Rising

(* What holds of a part holds where the same values stand. *)
LEMMA RisingElsewhere ==
    ASSUME NEW f, NEW g, NEW a \in Nat, NEW b \in Nat, NEW c \in Nat, NEW d \in Nat,
           d - c <= b - a, Rising(f, a, b), \A i \in 1 .. d - c : g[c + i] = f[a + i]
    PROVE  Rising(g, c, d)
  <1> SUFFICES ASSUME NEW p \in c + 1 .. d - 1 PROVE g[p] <= g[p + 1]
    BY DEF Rising
  <1>1. PICK i \in Int : i = p - c
    OBVIOUS
  <1>2. i \in 1 .. d - c /\ i + 1 \in 1 .. d - c /\ c + i = p /\ c + (i + 1) = p + 1
    BY <1>1
  <1>3. a + i \in a + 1 .. b - 1 /\ a + i + 1 = a + (i + 1)
    BY <1>1
  <1>4. f[a + i] <= f[a + i + 1]
    BY <1>3 DEF Rising
  <1>5. g[c + i] = f[a + i] /\ g[c + (i + 1)] = f[a + (i + 1)]
    BY <1>2
  <1>6. QED
    BY <1>2, <1>3, <1>4, <1>5

(* A part of a part that rises. *)
LEMMA RisingPart ==
    ASSUME NEW f, NEW a \in Nat, NEW b \in Nat, NEW c \in Nat, NEW d \in Nat,
           a <= c, d <= b, Rising(f, a, b)
    PROVE  Rising(f, c, d)
  BY DEF Rising

------------------------------------------------------------------------------
(* Counting what a file holds, and sorting. *)

(* Counts are of finite sets. *)
LEMMA CountFinite ==
    ASSUME NEW v, NEW f, NEW S, IsFiniteSet(S)
    PROVE  Count(v, f, S) \in Nat /\ IsFiniteSet({p \in S : f[p] = v})
  <1>1. {p \in S : f[p] = v} \subseteq S
    OBVIOUS
  <1>2. IsFiniteSet({p \in S : f[p] = v})
    BY <1>1, FS_Subset
  <1>3. QED
    BY <1>2, FS_CardinalityType DEF Count

(* Only the values at the positions count. *)
LEMMA CountSame ==
    ASSUME NEW v, NEW f, NEW g, NEW S, \A p \in S : f[p] = g[p]
    PROVE  Count(v, f, S) = Count(v, g, S)
  <1>1. {p \in S : f[p] = v} = {p \in S : g[p] = v}
    OBVIOUS
  <1>2. QED
    BY <1>1 DEF Count

(* Counts add up. *)
LEMMA CountUnion ==
    ASSUME NEW v, NEW f, NEW S, NEW T, IsFiniteSet(S), IsFiniteSet(T), S \cap T = {}
    PROVE  Count(v, f, S \cup T) = Count(v, f, S) + Count(v, f, T)
  <1> DEFINE A == {p \in S : f[p] = v}
             B == {p \in T : f[p] = v}
  <1>1. IsFiniteSet(A) /\ IsFiniteSet(B)
    BY CountFinite
  <1>2. A \cap B = {} /\ {p \in S \cup T : f[p] = v} = A \cup B
    OBVIOUS
  <1> HIDE DEF A, B
  <1>3. Cardinality(A \cup B) = Cardinality(A) + Cardinality(B) - Cardinality(A \cap B)
    BY <1>1, FS_Union
  <1>4. Cardinality(A \cap B) = 0
    BY <1>2, FS_EmptySet
  <1>5. Cardinality(A) \in Nat /\ Cardinality(B) \in Nat
    BY <1>1, FS_CardinalityType
  <1>6. Cardinality(A \cup B) = Cardinality(A) + Cardinality(B)
    BY <1>3, <1>4, <1>5
  <1>7. QED
    BY <1>2, <1>6 DEF Count, A, B

(* One more position. *)
LEMMA CountOne ==
    ASSUME NEW v, NEW f, NEW S, NEW q, IsFiniteSet(S), q \notin S
    PROVE  /\ IsFiniteSet(S \cup {q}) /\ Cardinality(S \cup {q}) = Cardinality(S) + 1
           /\ Count(v, f, S \cup {q}) = Count(v, f, S) + (IF f[q] = v THEN 1 ELSE 0)
  <1>1. IsFiniteSet(S \cup {q}) /\ Cardinality(S \cup {q}) = Cardinality(S) + 1
    BY FS_AddElement
  <1> DEFINE A == {p \in S : f[p] = v}
  <1>2. IsFiniteSet(A) /\ q \notin A
    BY CountFinite
  <1>3. CASE f[q] = v
    <2>1. {p \in S \cup {q} : f[p] = v} = A \cup {q}
      BY <1>3
    <2> HIDE DEF A
    <2>2. Cardinality(A \cup {q}) = Cardinality(A) + 1
      BY <1>2, FS_AddElement
    <2>3. Count(v, f, S \cup {q}) = Count(v, f, S) + 1
      BY <2>1, <2>2 DEF Count, A
    <2>4. QED
      BY <1>1, <1>3, <2>3
  <1>4. CASE f[q] # v
    <2>1. {p \in S \cup {q} : f[p] = v} = {p \in S : f[p] = v}
      BY <1>4
    <2>2. Count(v, f, S \cup {q}) = Count(v, f, S)
      BY <2>1 DEF Count
    <2>3. Count(v, f, S) \in Nat
      BY CountFinite
    <2>4. QED
      BY <1>1, <1>4, <2>2, <2>3
  <1>5. QED
    BY <1>3, <1>4

(* Counting is the same where the values have been moved to. *)
LEMMA CountMoved ==
    ASSUME NEW v, NEW f, NEW g, NEW S, NEW T, IsFiniteSet(S), NEW h \in Bijection(S, T),
           \A p \in S : g[h[p]] = f[p]
    PROVE  Count(v, f, S) = Count(v, g, T)
  <1> DEFINE A == {p \in S : f[p] = v}
             B == {p \in T : g[p] = v}
             k == [p \in A |-> h[p]]
  <1>1. /\ h \in [S -> T] /\ \A p, q \in S : h[p] = h[q] => p = q
        /\ \A q \in T : \E p \in S : h[p] = q
    BY DEF Bijection, Injection, Surjection, IsInjective
  <1>2. A \subseteq S /\ IsFiniteSet(A)
    BY CountFinite
  <1>3. k \in [A -> B]
    BY <1>1
  <1>4. \A p, q \in A : k[p] = k[q] => p = q
    BY <1>1
  <1>5. \A q \in B : \E p \in A : k[p] = q
    <2> TAKE q \in B
    <2>1. PICK p \in S : h[p] = q
      BY <1>1
    <2>2. f[p] = v
      BY <2>1
    <2>3. p \in A /\ k[p] = q
      BY <2>1, <2>2
    <2>4. QED
      BY <2>3
  <1> HIDE DEF k
  <1>6. k \in Bijection(A, B)
    BY <1>3, <1>4, <1>5 DEF Bijection, Injection, Surjection, IsInjective
  <1>7. ExistsBijection(A, B)
    BY <1>6 DEF ExistsBijection
  <1> HIDE DEF A, B
  <1>8. Cardinality(A) = Cardinality(B)
    BY <1>2, <1>7, FS_Bijection
  <1>9. QED
    BY <1>8 DEF Count, A, B

(* The positions from behind a to b. *)
LEMMA IntervalCount ==
    ASSUME NEW a \in Nat, NEW b \in Nat, a <= b
    PROVE  IsFiniteSet(a + 1 .. b) /\ Cardinality(a + 1 .. b) = b - a
  <1> DEFINE c == a + 1
  <1>1. c \in Int /\ b \in Int /\ (c > b => b - a = 0) /\ b - c + 1 = b - a
    OBVIOUS
  <1> HIDE DEF c
  <1>2. IsFiniteSet(c .. b) /\ Cardinality(c .. b) = IF c > b THEN 0 ELSE b - c + 1
    BY <1>1, FS_Interval
  <1>3. IsFiniteSet(c .. b) /\ Cardinality(c .. b) = b - a
    BY <1>1, <1>2
  <1>4. QED
    BY <1>3 DEF c

(* The first positions. *)
LEMMA FirstCount ==
    ASSUME NEW b \in Nat
    PROVE  IsFiniteSet(1..b) /\ Cardinality(1..b) = b
  <1> DEFINE a == 0
  <1>1. a \in Nat /\ a <= b /\ a + 1 = 1 /\ b - a = b
    OBVIOUS
  <1> HIDE DEF a
  <1>2. IsFiniteSet(a + 1 .. b) /\ Cardinality(a + 1 .. b) = b - a
    BY <1>1, IntervalCount
  <1>3. QED
    BY <1>1, <1>2

(* Behind a in f the value v stands as often as behind c in g. *)
SameCount(v, f, a, g, c, size) ==
    Count(v, f, a + 1 .. a + size) = Count(v, g, c + 1 .. c + size)

(* What stands behind a in f stands behind c in g. *)
SameBlock(f, a, g, c, size) == \A i \in 1..size : f[a + i] = g[c + i]

(* Two blocks with the same values in the same order. *)
LEMMA CountBlock ==
    ASSUME NEW v, NEW f, NEW g, NEW a \in Nat, NEW c \in Nat, NEW size \in Nat,
           SameBlock(f, a, g, c, size)
    PROVE  SameCount(v, f, a, g, c, size)
  <1> DEFINE S == a + 1 .. a + size
             T == c + 1 .. c + size
             h == [p \in S |-> c + (p - a)]
  <1>1. IsFiniteSet(S)
    <2>1. a + size \in Nat /\ a <= a + size
      OBVIOUS
    <2>2. QED
      BY <2>1, IntervalCount
  <1>2. h \in [S -> T] /\ \A p, q \in S : h[p] = h[q] => p = q
    OBVIOUS
  <1>3. \A q \in T : \E p \in S : h[p] = q
    <2> TAKE q \in T
    <2>1. a + (q - c) \in S /\ h[a + (q - c)] = q
      OBVIOUS
    <2>2. QED
      BY <2>1
  <1>4. \A p \in S : g[h[p]] = f[p]
    <2> TAKE p \in S
    <2>1. p - a \in 1..size /\ a + (p - a) = p
      OBVIOUS
    <2>2. f[a + (p - a)] = g[c + (p - a)]
      BY <2>1 DEF SameBlock
    <2>3. QED
      BY <2>1, <2>2
  <1> HIDE DEF h
  <1>5. h \in Bijection(S, T)
    BY <1>2, <1>3 DEF Bijection, Injection, Surjection, IsInjective
  <1> HIDE DEF S, T
  <1>6. Count(v, f, S) = Count(v, g, T)
    BY <1>1, <1>4, <1>5, CountMoved
  <1>7. QED
    BY <1>6 DEF S, T, SameCount

(* A block and what precedes it. *)
LEMMA CountUpTo ==
    ASSUME NEW v, NEW f, NEW a \in Nat, NEW b \in Nat, a <= b
    PROVE  /\ Count(v, f, 1..b) = Count(v, f, 1..a) + Count(v, f, a + 1 .. b)
           /\ Count(v, f, 1..a) \in Nat /\ Count(v, f, a + 1 .. b) \in Nat
  <1> DEFINE S == 1..a
             T == a + 1 .. b
  <1>1. IsFiniteSet(S) /\ IsFiniteSet(T)
    BY IntervalCount, FirstCount
  <1>2. S \cap T = {} /\ S \cup T = 1..b
    OBVIOUS
  <1> HIDE DEF S, T
  <1>3. Count(v, f, S \cup T) = Count(v, f, S) + Count(v, f, T)
    BY <1>1, <1>2, CountUnion
  <1>4. Count(v, f, S) \in Nat /\ Count(v, f, T) \in Nat
    BY <1>1, CountFinite
  <1>5. QED
    BY <1>2, <1>3, <1>4 DEF S, T

(* Files that agree up to a block, and hold the same in it, agree behind it. *)
LEMMA AgreeFurther ==
    ASSUME NEW f, NEW g, NEW h, NEW a \in Nat, NEW b \in Nat, a <= b, Agree(f, g, a),
           \A p \in 1..a : h[p] = f[p],
           \A v \in Content : Count(v, h, a + 1 .. b) = Count(v, g, a + 1 .. b)
    PROVE  Agree(h, g, b)
  <1> SUFFICES ASSUME NEW v \in Content PROVE Count(v, h, 1..b) = Count(v, g, 1..b)
    BY DEF Agree
  <1>1. Count(v, h, 1..a) = Count(v, f, 1..a)
    BY CountSame
  <1>2. Count(v, f, 1..a) = Count(v, g, 1..a)
    BY DEF Agree
  <1>3. Count(v, h, 1..b) = Count(v, h, 1..a) + Count(v, h, a + 1 .. b)
    BY CountUpTo
  <1>4. Count(v, g, 1..b) = Count(v, g, 1..a) + Count(v, g, a + 1 .. b)
    BY CountUpTo
  <1>5. QED
    BY <1>1, <1>2, <1>3, <1>4

(***************************************************************************)
(* Ranks.  The places that come before a place are those of smaller values *)
(* and, of the same value, the earlier ones.                               *)
(***************************************************************************)
Lower(s, i) == {j \in DOMAIN s : s[j] < s[i] \/ (s[j] = s[i] /\ j <= i)}

(* Ranks tell the places apart, in the order of their values. *)
LEMMA RankOrder ==
    ASSUME NEW s \in Seq(Content), NEW i \in 1..Len(s), NEW j \in 1..Len(s),
           s[i] < s[j] \/ (s[i] = s[j] /\ i < j)
    PROVE  /\ Rank(s, i) \in 1..Len(s) /\ Rank(s, j) \in 1..Len(s)
           /\ Rank(s, i) < Rank(s, j)
  <1>1. PICK L \in Nat : L = Len(s) /\ DOMAIN s = 1..L /\ \A k \in 1..L : s[k] \in Nat
    BY ContentNumbers
  <1> DEFINE A == Lower(s, i)
             B == Lower(s, j)
  <1>2. IsFiniteSet(1..L) /\ Cardinality(1..L) = L
    BY FirstCount
  <1>3. A \subseteq 1..L /\ B \subseteq 1..L /\ i \in A /\ j \in B /\ j \notin A
    BY <1>1 DEF Lower
  <1>4. A \subseteq B
    BY <1>1 DEF Lower
  <1>5. Rank(s, i) = Cardinality(A) /\ Rank(s, j) = Cardinality(B)
    BY DEF Rank, Lower
  <1> HIDE DEF A, B
  <1>6. /\ IsFiniteSet(A) /\ Cardinality(A) \in Nat
        /\ IsFiniteSet(B) /\ Cardinality(B) \in Nat /\ Cardinality(B) <= L
    BY <1>2, <1>3, FS_Subset, FS_CardinalityType
  <1>7. A \cup {j} \subseteq B /\ Cardinality(A \cup {j}) = Cardinality(A) + 1
    BY <1>3, <1>4, <1>6, FS_AddElement
  <1>8. Cardinality(A) + 1 <= Cardinality(B)
    BY <1>6, <1>7, FS_Subset
  <1>9. Cardinality(A) # 0
    BY <1>3, <1>6, FS_EmptySet
  <1>10. QED
    BY <1>1, <1>5, <1>6, <1>8, <1>9

(* The rank of a place among itself. *)
LEMMA RankRange ==
    ASSUME NEW s \in Seq(Content), NEW i \in 1..Len(s)
    PROVE  Rank(s, i) \in 1..Len(s)
  <1>1. PICK L \in Nat : L = Len(s) /\ DOMAIN s = 1..L
    OBVIOUS
  <1> DEFINE A == Lower(s, i)
  <1>2. IsFiniteSet(1..L) /\ Cardinality(1..L) = L
    BY FirstCount
  <1>3. A \subseteq 1..L /\ i \in A
    BY <1>1 DEF Lower
  <1>4. Rank(s, i) = Cardinality(A)
    BY DEF Rank, Lower
  <1> HIDE DEF A
  <1>5. IsFiniteSet(A) /\ Cardinality(A) \in Nat /\ Cardinality(A) <= L
    BY <1>2, <1>3, FS_Subset, FS_CardinalityType
  <1>6. Cardinality(A) # 0
    BY <1>3, <1>5, FS_EmptySet
  <1>7. QED
    BY <1>1, <1>4, <1>5, <1>6

(* Every rank is that of exactly one place. *)
LEMMA RankPlaces ==
    ASSUME NEW s \in Seq(Content), NEW h, h = [i \in 1..Len(s) |-> Rank(s, i)]
    PROVE  h \in Bijection(1..Len(s), 1..Len(s))
  <1>1. PICK L \in Nat : L = Len(s) /\ \A k \in 1..L : s[k] \in Nat
    BY ContentNumbers
  <1>2. h \in [1..L -> 1..L]
    BY <1>1, RankRange
  <1>3. ASSUME NEW i \in 1..L, NEW j \in 1..L, h[i] = h[j] PROVE i = j
    <2> SUFFICES ASSUME i # j PROVE FALSE
      OBVIOUS
    <2>1. CASE s[i] < s[j] \/ (s[i] = s[j] /\ i < j)
      <3>1. Rank(s, i) < Rank(s, j) /\ Rank(s, i) \in Int
        BY <1>1, <2>1, RankOrder
      <3>2. QED
        BY <3>1, <1>1, <1>3
    <2>2. CASE s[j] < s[i] \/ (s[j] = s[i] /\ j < i)
      <3>1. Rank(s, j) < Rank(s, i) /\ Rank(s, i) \in Int
        BY <1>1, <2>2, RankOrder
      <3>2. QED
        BY <3>1, <1>1, <1>3
    <2>3. QED
      BY <1>1, <2>1, <2>2
  <1>4. h \in Injection(1..L, 1..L)
    BY <1>2, <1>3, ZenonT(40) DEF Injection, IsInjective
  <1>5. IsFiniteSet(1..L)
    BY FirstCount
  <1>6. h \in Surjection(1..L, 1..L)
    BY <1>4, <1>5, FS_Injection
  <1>7. QED
    BY <1>1, <1>4, <1>6 DEF Bijection

(* Sorting leaves the values, and puts them in order. *)
LEMMA SortedProperties ==
    ASSUME NEW s \in Seq(Content)
    PROVE  /\ Sorted(s) \in Seq(Content) /\ Len(Sorted(s)) = Len(s)
           /\ Rising(Sorted(s), 0, Len(s))
           /\ \A v \in Content : Count(v, Sorted(s), 1..Len(s)) = Count(v, s, 1..Len(s))
  <1>1. PICK L \in Nat : L = Len(s) /\ DOMAIN s = 1..L /\ \A k \in 1..L : s[k] \in Content /\ s[k] \in Nat
    BY ContentNumbers
  <1> DEFINE h == [i \in 1..L |-> Rank(s, i)]
             place(r) == CHOOSE i \in 1..L : Rank(s, i) = r
  <1>2. /\ h \in [1..L -> 1..L]
        /\ \A i, j \in 1..L : h[i] = h[j] => i = j
        /\ \A r \in 1..L : \E i \in 1..L : h[i] = r
    <2>1. h \in Bijection(1..L, 1..L)
      BY <1>1, RankPlaces
    <2> HIDE DEF h
    <2>2. QED
      BY <2>1 DEF Bijection, Injection, Surjection, IsInjective
  <1>3. \A r \in 1..L : place(r) \in 1..L /\ Rank(s, place(r)) = r
    <2> TAKE r \in 1..L
    <2>1. \E i \in 1..L : Rank(s, i) = r
      BY <1>2
    <2>2. QED
      BY <2>1
  <1> HIDE DEF place
  <1>4. PICK t : t = [r \in 1..L |-> s[place(r)]]
    OBVIOUS
  <1>5. Sorted(s) = t
    BY <1>1, <1>4 DEF Sorted, place
  <1>6. \A r \in 1..L : t[r] = s[place(r)] /\ t[r] \in Nat /\ t[r] \in Content
    BY <1>1, <1>3, <1>4
  <1>7. t \in [1..L -> Content]
    BY <1>4, <1>6
  <1>8. t \in Seq(Content) /\ Len(t) = L
    BY <1>7
  <1>9. Rising(t, 0, L)
    <2> SUFFICES ASSUME NEW r \in 1 .. L - 1, ~(t[r] <= t[r + 1]) PROVE FALSE
      BY DEF Rising
    <2>1. r \in 1..L /\ r + 1 \in 1..L
      OBVIOUS
    <2>2. s[place(r + 1)] < s[place(r)]
      BY <1>6, <2>1
    <2>3. Rank(s, place(r + 1)) < Rank(s, place(r))
      BY <1>1, <1>3, <2>1, <2>2, RankOrder
    <2>4. r + 1 < r
      BY <1>3, <2>1, <2>3
    <2>5. QED
      BY <2>4
  <1>10. ASSUME NEW v \in Content PROVE Count(v, t, 1..L) = Count(v, s, 1..L)
    <2>1. h \in Bijection(1..L, 1..L)
      BY <1>1, RankPlaces
    <2>2. IsFiniteSet(1..L)
      BY FirstCount
    <2>3. \A i \in 1..L : t[h[i]] = s[i]
      <3> TAKE i \in 1..L
      <3>1. h[i] \in 1..L /\ h[i] = Rank(s, i)
        BY <1>2
      <3>2. place(h[i]) \in 1..L /\ h[place(h[i])] = h[i]
        BY <1>3, <3>1
      <3>3. place(h[i]) = i
        BY <1>2, <3>2
      <3>4. QED
        BY <1>6, <3>1, <3>3
    <2> HIDE DEF h
    <2>4. Count(v, s, 1..L) = Count(v, t, 1..L)
      BY <2>1, <2>2, <2>3, CountMoved
    <2>5. QED
      BY <2>4
  <1>11. QED
    BY <1>1, <1>5, <1>8, <1>9, <1>10

------------------------------------------------------------------------------
(* The record of a merge. *)

(* A list as a function on its positions. *)
LEMMA ListFunction ==
    ASSUME NEW S, NEW list \in Seq(S), NEW k, k = Len(list)
    PROVE  list \in [1..k -> S] /\ DOMAIN list = 1..k /\ k \in Nat
  OBVIOUS

(* The record of a merge: one entry of each list for every run. *)
LEMMA MergeFields ==
    ASSUME NEW mm, MergeType(mm), NEW k, k = Len(mm.len)
    PROVE  /\ k \in Nat \ {0} /\ DOMAIN mm.len = 1..k
           /\ mm.base \in Nat /\ mm.count \in Nat /\ mm.writes \in Nat
           /\ mm.len \in [1..k -> Nat \ {0}] /\ mm.rem \in [1..k -> Nat]
           /\ mm.push \in [1..k -> Nat] /\ mm.read \in [1..k -> Nat]
           /\ mm.buf \in [1..k -> Seq(Content)]
           /\ mm.out \in Seq(Content) /\ Len(mm.out) \in Nat
  <1>1. /\ mm.base \in Nat /\ mm.count \in Nat /\ mm.writes \in Nat
        /\ mm.len \in Seq(Nat \ {0}) /\ mm.rem \in Seq(Nat) /\ mm.buf \in Seq(Seq(Content))
        /\ mm.push \in Seq(Nat) /\ mm.read \in Seq(Nat) /\ mm.out \in Seq(Content)
    BY DEF MergeType
  <1>2. Len(mm.rem) = k /\ Len(mm.push) = k /\ Len(mm.read) = k /\ Len(mm.buf) = k /\ mm.len # <<>>
    BY DEF MergeType
  <1>3. k \in Nat /\ k # 0
    BY <1>1, <1>2
  <1>4. mm.len \in [1..k -> Nat \ {0}] /\ mm.rem \in [1..k -> Nat]
    BY <1>1, <1>2, ListFunction
  <1>5. mm.push \in [1..k -> Nat] /\ mm.read \in [1..k -> Nat]
    BY <1>1, <1>2, ListFunction
  <1>6. mm.buf \in [1..k -> Seq(Content)]
    <2> DEFINE C == Seq(Content)
    <2>1. mm.buf \in Seq(C)
      BY <1>1
    <2> HIDE DEF C
    <2>2. mm.buf \in [1..k -> C]
      BY <1>2, <2>1
    <2>3. QED
      BY <2>2 DEF C
  <1>7. DOMAIN mm.len = 1..k
    BY <1>4
  <1>8. Len(mm.out) \in Nat
    BY <1>1
  <1>9. QED
    BY <1>1, <1>3, <1>4, <1>5, <1>6, <1>7, <1>8

(* The runs lie behind each other in the file. *)
LEMMA StartOrder ==
    ASSUME NEW t, NEW mm, NEW size \in Nat, MergeType(mm), RunsOf(t, mm, size),
           NEW i \in DOMAIN mm.len
    PROVE  /\ Start(mm, size, i) \in Nat /\ mm.base <= Start(mm, size, i)
           /\ Start(mm, size, i) + mm.len[i] <= mm.base + Total(mm, size)
           /\ Total(mm, size) \in Nat
           /\ \A j \in DOMAIN mm.len : i < j => Start(mm, size, i) + mm.len[i] <= Start(mm, size, j)
  <1>1. PICK k \in Nat \ {0} : k = Len(mm.len) /\ DOMAIN mm.len = 1..k
    BY MergeFields
  <1>2. mm.base \in Nat /\ mm.len \in [1..k -> Nat \ {0}]
    BY <1>1, MergeFields
  <1>3. PICK x \in Nat : x = (i - 1) * size
    BY <1>1, NextBlock
  <1>4. PICK y \in Nat : y = (k - 1) * size
    BY <1>1, NextBlock
  <1>5. Start(mm, size, i) = mm.base + x /\ Total(mm, size) = y + mm.len[k]
    BY <1>1, <1>3, <1>4 DEF Start, Total
  <1>0. mm.len[i] \in Nat /\ mm.len[k] \in Nat
    BY <1>1, <1>2
  <1>6. x + mm.len[i] <= y + mm.len[k]
    <2>1. CASE i = k
      BY <1>2, <1>3, <1>4, <2>1
    <2>2. CASE i # k
      <3>1. i - 1 \in Nat /\ k - 1 \in Nat /\ i - 1 < k - 1 /\ mm.len[i] = size
        BY <1>1, <2>2 DEF RunsOf
      <3>2. x + size <= y
        BY <1>3, <1>4, <3>1, BlockOrder
      <3>3. QED
        BY <1>0, <3>1, <3>2
    <2>3. QED
      BY <2>1, <2>2
  <1>7. ASSUME NEW j \in 1..k, i < j PROVE Start(mm, size, i) + mm.len[i] <= Start(mm, size, j)
    <2>1. i - 1 \in Nat /\ j - 1 \in Nat /\ i - 1 < j - 1 /\ mm.len[i] = size
      BY <1>1, <1>7 DEF RunsOf
    <2>2. PICK z \in Nat : z = (j - 1) * size
      BY <2>1, NextBlock
    <2>3. x + size <= z
      BY <1>3, <2>1, <2>2, BlockOrder
    <2>4. Start(mm, size, j) = mm.base + z
      BY <2>2 DEF Start
    <2>5. QED
      BY <1>2, <1>5, <2>1, <2>3, <2>4
  <1>8. /\ Start(mm, size, i) \in Nat /\ mm.base <= Start(mm, size, i)
        /\ Start(mm, size, i) + mm.len[i] <= mm.base + Total(mm, size)
        /\ Total(mm, size) \in Nat
    <2>1. PICK b \in Nat, l \in Nat, last \in Nat : b = mm.base /\ l = mm.len[i] /\ last = mm.len[k]
      BY <1>2, <1>0
    <2>2. Start(mm, size, i) = b + x /\ Total(mm, size) = y + last /\ x + l <= y + last
      BY <1>5, <1>6, <2>1
    <2>3. QED
      BY <2>1, <2>2
  <1>9. QED
    BY <1>1, <1>7, <1>8

(* What has been given away lies inside the runs. *)
LEMMA GivenInside ==
    ASSUME NEW t, NEW mm, NEW size \in Nat, MergeType(mm), RunsOf(t, mm, size),
           \A i \in DOMAIN mm.len : mm.rem[i] <= mm.len[i]
    PROVE  /\ Given(mm, size) \subseteq mm.base + 1 .. mm.base + Total(mm, size)
           /\ IsFiniteSet(Given(mm, size))
           /\ Cardinality(Given(mm, size)) <= Total(mm, size)
  <1>1. PICK k \in Nat \ {0} : k = Len(mm.len) /\ DOMAIN mm.len = 1..k
    BY MergeFields
  <1>2. mm.base \in Nat /\ mm.len \in [1..k -> Nat \ {0}] /\ mm.rem \in [1..k -> Nat]
    BY <1>1, MergeFields
  <1>3. ASSUME NEW p \in Given(mm, size) PROVE p \in mm.base + 1 .. mm.base + Total(mm, size)
    <2>1. PICK i \in 1..k : p \in Start(mm, size, i) + 1 .. Start(mm, size, i) + Gone(mm, i)
      BY <1>1 DEF Given
    <2>2. /\ Start(mm, size, i) \in Nat /\ mm.base <= Start(mm, size, i)
          /\ Start(mm, size, i) + mm.len[i] <= mm.base + Total(mm, size)
          /\ Total(mm, size) \in Nat
      BY <1>1, StartOrder
    <2>3. Gone(mm, i) <= mm.len[i] /\ Gone(mm, i) \in Int /\ mm.len[i] \in Nat
      BY <1>2 DEF Gone
    <2>4. PICK s \in Nat, l \in Nat, g \in Int : s = Start(mm, size, i) /\ l = mm.len[i] /\ g = Gone(mm, i)
      BY <2>2, <2>3
    <2>5. p \in s + 1 .. s + g /\ g <= l /\ mm.base <= s /\ s + l <= mm.base + Total(mm, size)
      BY <2>1, <2>2, <2>3, <2>4
    <2>6. QED
      BY <1>2, <2>2, <2>5, SMTT(40)
  <1>4. Total(mm, size) \in Nat
    <2>1. 1 \in DOMAIN mm.len
      BY <1>1
    <2>2. QED
      BY <2>1, StartOrder
  <1>5. PICK a \in Nat, b \in Nat : a = mm.base /\ b = mm.base + Total(mm, size)
    BY <1>2, <1>4
  <1>6. IsFiniteSet(a + 1 .. b) /\ Cardinality(a + 1 .. b) = b - a
    BY <1>4, <1>5, IntervalCount
  <1>7. Given(mm, size) \subseteq a + 1 .. b
    BY <1>3, <1>5
  <1>8. IsFiniteSet(Given(mm, size)) /\ Cardinality(Given(mm, size)) <= b - a
    BY <1>6, <1>7, FS_Subset
  <1>9. b - a = Total(mm, size)
    BY <1>4, <1>5
  <1>10. QED
    BY <1>5, <1>7, <1>8, <1>9

(* A position lies in the run that begins last before it. *)
LEMMA RunOfPosition ==
    ASSUME NEW t, NEW mm, NEW size \in Nat \ {0}, MergeType(mm), RunsOf(t, mm, size),
           NEW p \in mm.base + 1 .. mm.base + Total(mm, size)
    PROVE  \E i \in DOMAIN mm.len : p \in Start(mm, size, i) + 1 .. Start(mm, size, i) + mm.len[i]
  <1>1. PICK k \in Nat \ {0} : k = Len(mm.len) /\ DOMAIN mm.len = 1..k
    BY MergeFields
  <1>2. mm.base \in Nat /\ mm.len \in [1..k -> Nat \ {0}]
    BY <1>1, MergeFields
  <1>3. PICK y \in Nat : y = (k - 1) * size
    BY <1>1, NextBlock
  <1>4. PICK o \in Nat : o = p - mm.base - 1
    BY <1>2
  <1>5. Total(mm, size) = y + mm.len[k] /\ mm.len[k] \in Nat /\ p \in Int
    BY <1>1, <1>2, <1>3 DEF Total
  <1>6. CASE o >= y
    <2>1. Start(mm, size, k) = mm.base + y
      BY <1>3 DEF Start
    <2>2. p \in Start(mm, size, k) + 1 .. Start(mm, size, k) + mm.len[k]
      BY <1>2, <1>4, <1>5, <1>6, <2>1, SMTT(40)
    <2>3. QED
      BY <1>1, <2>2
  <1>7. CASE o < y
    <2>1. PICK q \in Nat, r \in 0 .. size - 1 : q = o \div size /\ o = q * size + r
      BY <1>4, Division
    <2>2. PICK x \in Nat : x = q * size
      BY <2>1, NextBlock
    <2>3. q < k - 1
      <3> SUFFICES ASSUME ~(q < k - 1) PROVE FALSE
        OBVIOUS
      <3>1. q = k - 1 \/ k - 1 < q
        BY <1>1, <2>1
      <3>2. CASE q = k - 1
        BY <1>3, <1>7, <2>1, <2>2, <3>2
      <3>3. CASE k - 1 < q
        <4>1. k - 1 \in Nat
          BY <1>1
        <4>2. y + size <= x
          BY <1>3, <2>2, <3>3, <4>1, BlockOrder
        <4>3. QED
          BY <1>3, <1>4, <1>7, <2>1, <2>2, <4>2
      <3>4. QED
        BY <3>1, <3>2, <3>3
    <2>4. q + 1 \in 1 .. k - 1 /\ q + 1 \in 1..k /\ (q + 1) - 1 = q
      BY <1>1, <2>1, <2>3
    <2>5. Start(mm, size, q + 1) = mm.base + x /\ mm.len[q + 1] = size
      BY <1>1, <2>2, <2>4 DEF Start, RunsOf
    <2>6. p \in Start(mm, size, q + 1) + 1 .. Start(mm, size, q + 1) + mm.len[q + 1]
      <3>1. p = mm.base + x + r + 1 /\ p \in Int
        <4>1. mm.base \in Nat /\ p \in Int
          BY <1>2, <1>5
        <4>2. o = x + r
          BY <2>1, <2>2
        <4>3. r \in Int
          BY <2>1
        <4>4. QED
          BY <1>4, <4>1, <4>2, <4>3
      <3>2. p \in mm.base + x + 1 .. mm.base + x + size
        BY <1>2, <3>1
      <3>3. QED
        BY <2>5, <3>2
    <2>7. QED
      BY <1>1, <2>4, <2>6
  <1>8. QED
    BY <1>3, <1>4, <1>6, <1>7

(* In the end everything has been given away. *)
LEMMA GivenAll ==
    ASSUME NEW t, NEW mm, NEW size \in Nat \ {0}, MergeType(mm), RunsOf(t, mm, size),
           \A i \in DOMAIN mm.len : mm.rem[i] = 0
    PROVE  Given(mm, size) = mm.base + 1 .. mm.base + Total(mm, size)
  <1>1. mm.rem \in [DOMAIN mm.len -> Nat] /\ mm.len \in [DOMAIN mm.len -> Nat \ {0}]
    BY MergeFields
  <1>2. \A i \in DOMAIN mm.len : mm.rem[i] <= mm.len[i] /\ Gone(mm, i) = mm.len[i]
    BY <1>1 DEF Gone
  <1>3. Given(mm, size) \subseteq mm.base + 1 .. mm.base + Total(mm, size)
    BY <1>2, GivenInside
  <1>4. ASSUME NEW p \in mm.base + 1 .. mm.base + Total(mm, size) PROVE p \in Given(mm, size)
    <2>1. PICK i \in DOMAIN mm.len : p \in Start(mm, size, i) + 1 .. Start(mm, size, i) + mm.len[i]
      BY RunOfPosition
    <2>2. QED
      BY <1>2, <2>1 DEF Given
  <1>5. QED
    BY <1>3, <1>4

(* Run i gives a value away. *)
GaveOne(mm, nn, i) ==
    nn.base = mm.base /\ nn.len = mm.len /\ nn.rem = [mm.rem EXCEPT ![i] = @ - 1]

(* What has been given away grows by the next position of run i. *)
GivenGrows(mm, nn, size, i) ==
    /\ Given(nn, size) = Given(mm, size) \cup {Start(mm, size, i) + Gone(mm, i) + 1}
    /\ Start(mm, size, i) + Gone(mm, i) + 1 \notin Given(mm, size)

(* The run that gives a value away gives away the next position. *)
LEMMA GivenNext ==
    ASSUME NEW t, NEW mm, NEW nn, NEW size \in Nat, MergeType(mm), RunsOf(t, mm, size),
           \A j \in DOMAIN mm.len : mm.rem[j] <= mm.len[j],
           NEW i \in DOMAIN mm.len, mm.rem[i] > 0,
           GaveOne(mm, nn, i)
    PROVE  GivenGrows(mm, nn, size, i)
  <1>1. PICK k \in Nat \ {0} : k = Len(mm.len) /\ DOMAIN mm.len = 1..k
    BY MergeFields
  <1>2. mm.base \in Nat /\ mm.len \in [1..k -> Nat \ {0}] /\ mm.rem \in [1..k -> Nat]
    BY <1>1, MergeFields
  <1>3. \A j \in 1..k : Start(nn, size, j) = Start(mm, size, j) /\ Start(mm, size, j) \in Nat
    BY <1>1, StartOrder DEF Start, GaveOne
  <1>4. \A j \in 1..k : /\ Gone(mm, j) \in Nat /\ Gone(mm, j) <= mm.len[j]
                        /\ Gone(nn, j) = IF j = i THEN Gone(mm, j) + 1 ELSE Gone(mm, j)
    BY <1>1, <1>2, SMTT(40) DEF Gone, GaveOne
  <1>5. PICK q \in Nat : q = Start(mm, size, i) + Gone(mm, i) + 1
    BY <1>1, <1>3, <1>4
  <1>6. Gone(mm, i) + 1 <= mm.len[i]
    BY <1>1, <1>2 DEF Gone
  <1>7. q <= Start(mm, size, i) + mm.len[i]
    BY <1>1, <1>2, <1>3, <1>4, <1>5, <1>6
  <1>8. q \notin Given(mm, size)
    <2> SUFFICES ASSUME q \in Given(mm, size) PROVE FALSE
      OBVIOUS
    <2>1. PICK j \in 1..k : q \in Start(mm, size, j) + 1 .. Start(mm, size, j) + Gone(mm, j)
      BY <1>1 DEF Given
    <2>2. CASE j = i
      BY <1>1, <1>3, <1>4, <1>5, <2>1, <2>2
    <2>3. CASE i < j
      <3>1. Start(mm, size, i) + mm.len[i] <= Start(mm, size, j)
        BY <1>1, <2>3, StartOrder
      <3>2. QED
        BY <1>1, <1>2, <1>3, <1>4, <1>7, <2>1, <3>1, SMTT(40)
    <2>4. CASE j < i
      <3>1. Start(mm, size, j) + mm.len[j] <= Start(mm, size, i)
        BY <1>1, <2>4, StartOrder
      <3>2. mm.len[j] \in Nat
        BY <1>2
      <3>3. QED
        BY <1>1, <1>3, <1>4, <1>5, <2>1, <3>1, <3>2, SMTT(40)
    <2>5. QED
      BY <1>1, <2>2, <2>3, <2>4
  <1>9. ASSUME NEW p PROVE p \in Given(nn, size) <=> p \in Given(mm, size) \/ p = q
    <2>1. p \in Given(nn, size) <=>
             \E j \in 1..k : p \in Start(mm, size, j) + 1 .. Start(mm, size, j) + Gone(nn, j)
      BY <1>1, <1>3 DEF Given, GaveOne
    <2>2. p \in Given(mm, size) <=>
             \E j \in 1..k : p \in Start(mm, size, j) + 1 .. Start(mm, size, j) + Gone(mm, j)
      BY <1>1 DEF Given
    <2>3. \A j \in 1..k : p \in Start(mm, size, j) + 1 .. Start(mm, size, j) + Gone(nn, j) <=>
             \/ p \in Start(mm, size, j) + 1 .. Start(mm, size, j) + Gone(mm, j)
             \/ j = i /\ p = q
      BY <1>1, <1>3, <1>4, <1>5, SMTT(40)
    <2>4. QED
      BY <1>1, <2>1, <2>2, <2>3
  <1>10. QED
    BY <1>5, <1>8, <1>9 DEF GivenGrows

------------------------------------------------------------------------------
(* A step of a merge. *)

(* Replacing an entry of a list. *)
LEMMA ReplaceEntry ==
    ASSUME NEW S, NEW list \in Seq(S), NEW i \in 1..Len(list), NEW x \in S
    PROVE  /\ [list EXCEPT ![i] = x] \in Seq(S) /\ Len([list EXCEPT ![i] = x]) = Len(list)
           /\ \A j \in 1..Len(list) : [list EXCEPT ![i] = x][j] = IF j = i THEN x ELSE list[j]
  <1>1. PICK L \in Nat : L = Len(list) /\ list \in [1..L -> S]
    OBVIOUS
  <1>2. [list EXCEPT ![i] = x] \in [1..L -> S]
    BY <1>1
  <1> DEFINE new == [list EXCEPT ![i] = x]
  <1>3. \A j \in 1..L : new[j] = IF j = i THEN x ELSE list[j]
    BY <1>1
  <1> HIDE DEF new
  <1>4. new \in Seq(S) /\ Len(new) = L
    BY <1>1, <1>2 DEF new
  <1>5. QED
    BY <1>1, <1>3, <1>4 DEF new

(* What a run offers is the next value it has in the file. *)
LEMMA OfferedIsNext ==
    ASSUME NEW t \in Seq(Content), NEW size \in Nat, NEW block \in Nat \ {0}, MergeType(m),
           RunsOf(t, m, size), Buffers(t, m, size, block), NEW i \in m.live
    PROVE  /\ Offered(i) = t[Start(m, size, i) + Gone(m, i) + 1]
           /\ Offered(i) \in Content /\ Offered(i) \in Nat
           /\ i \in DOMAIN m.len /\ m.rem[i] > 0 /\ m.rem[i] <= m.len[i]
           /\ Start(m, size, i) + Gone(m, i) + 1 \in 1..Len(t)
  <1>1. PICK k \in Nat \ {0} : k = Len(m.len) /\ DOMAIN m.len = 1..k
    BY MergeFields
  <1>2. m.len \in [1..k -> Nat \ {0}] /\ m.rem \in [1..k -> Nat] /\ m.push \in [1..k -> Nat]
    BY <1>1, MergeFields
  <1>3. i \in 1..k /\ m.rem[i] > 0 /\ m.rem[i] <= m.len[i]
    BY <1>1 DEF Buffers
  <1>4. PICK l \in Nat, r \in Nat, p \in Nat : l = m.len[i] /\ r = m.rem[i] /\ p = m.push[i]
    BY <1>2, <1>3
  <1>5. Gone(m, i) = l - r
    BY <1>4 DEF Gone
  <1>6. /\ p \in 1..block
        /\ \A j \in 1..block :
              (l - r - p + 1) + j <= l => m.buf[i][j] = t[Start(m, size, i) + (l - r - p + 1) + j]
    <2>1. BufferOf(t, m, size, block, i)
      BY DEF Buffers
    <2>2. QED
      BY <2>1, <1>4, <1>5 DEF BufferOf
  <1>0. r > 0 /\ r <= l
    BY <1>3, <1>4
  <1>7. (l - r - p + 1) + p <= l
    BY <1>0
  <1>8. PICK s \in Nat : s = Start(m, size, i) /\ s + l <= m.base + Total(m, size)
    BY <1>1, <1>3, <1>4, StartOrder
  <1>9. m.buf[i][p] = t[s + (l - r - p + 1) + p]
    BY <1>6, <1>7, <1>8
  <1>10. s + (l - r - p + 1) + p = s + (l - r) + 1
    OBVIOUS
  <1>11. Offered(i) = t[s + (l - r) + 1]
    BY <1>4, <1>9, <1>10 DEF Offered
  <1>12. s + (l - r) + 1 \in 1..Len(t)
    <2>1. m.base + Total(m, size) <= Len(t)
      BY DEF RunsOf
    <2>2. Total(m, size) \in Nat /\ m.base \in Nat
      BY <1>1, <1>3, StartOrder, MergeFields
    <2>3. Len(t) \in Nat
      OBVIOUS
    <2>4. s + (l - r) + 1 <= s + l
      BY <1>0
    <2>5. 0 <= l - r
      BY <1>0
    <2>6. QED
      BY <1>8, <2>1, <2>2, <2>3, <2>4, <2>5
  <1>13. t[s + (l - r) + 1] \in Content /\ t[s + (l - r) + 1] \in Nat
    BY <1>12, ContentNumbers
  <1>14. QED
    BY <1>1, <1>3, <1>5, <1>8, <1>11, <1>12, <1>13

(* The value that is taken is the least one on offer. *)
LEMMA TakenIsLeast ==
    ASSUME NEW k \in Nat, m.live \subseteq 1..k, m.live # {}, \A i \in m.live : Offered(i) \in Nat
    PROVE  Taken \in m.live /\ \A j \in m.live : Offered(Taken) <= Offered(j)
  <1> DEFINE V == {Offered(i) : i \in m.live}
  <1>1. V # {} /\ V \in SUBSET Nat
    OBVIOUS
  <1>2. PICK v \in V : \A w \in V : v <= w
    <2> HIDE DEF V
    <2>1. QED
      BY <1>1, NatMinimum
  <1>3. \A j \in m.live : v <= Offered(j)
    BY <1>2
  <1> DEFINE E == {i \in m.live : Offered(i) = v}
  <1>4. E # {} /\ E \in SUBSET Nat /\ E \in SUBSET (0..k)
    <2>1. \E i \in m.live : Offered(i) = v
      BY <1>2
    <2>2. 1..k \subseteq Nat /\ 1..k \subseteq 0..k
      OBVIOUS
    <2>3. QED
      BY <2>1, <2>2
  <1> DEFINE first(i) == \A j \in m.live \ {i} :
                            \/ Offered(i) < Offered(j)
                            \/ Offered(i) = Offered(j) /\ (IF pc = "merge pair" THEN j < i ELSE i < j)
  <1>5. \E i \in m.live : first(i)
    <2>1. CASE pc = "merge pair"
      <3>1. PICK i \in E : \A j \in E : j <= i
        <4> HIDE DEF E
        <4>1. QED
          BY <1>4, NatMaximum
      <3>2. ASSUME NEW j \in m.live \ {i} PROVE Offered(i) < Offered(j) \/ (Offered(i) = Offered(j) /\ j < i)
        <4>1. Offered(i) = v /\ v <= Offered(j) /\ v \in Nat /\ Offered(j) \in Nat
          BY <1>2, <1>3
        <4>2. CASE Offered(j) = v
          <5>1. j \in E /\ j \in Int /\ i \in Int /\ j # i
            BY <1>4, <4>2
          <5>2. j <= i
            BY <3>1, <5>1
          <5>3. QED
            BY <4>1, <4>2, <5>1, <5>2
        <4>3. CASE Offered(j) # v
          BY <4>1, <4>3
        <4>4. QED
          BY <4>2, <4>3
      <3>3. QED
        BY <2>1, <3>2
    <2>2. CASE pc # "merge pair"
      <3>1. PICK i \in E : \A j \in E : i <= j
        <4> HIDE DEF E
        <4>1. QED
          BY <1>4, NatMinimum
      <3>2. ASSUME NEW j \in m.live \ {i} PROVE Offered(i) < Offered(j) \/ (Offered(i) = Offered(j) /\ i < j)
        <4>1. Offered(i) = v /\ v <= Offered(j) /\ v \in Nat /\ Offered(j) \in Nat
          BY <1>2, <1>3
        <4>2. CASE Offered(j) = v
          <5>1. j \in E /\ j \in Int /\ i \in Int /\ j # i
            BY <1>4, <4>2
          <5>2. i <= j
            BY <3>1, <5>1
          <5>3. QED
            BY <4>1, <4>2, <5>1, <5>2
        <4>3. CASE Offered(j) # v
          BY <4>1, <4>3
        <4>4. QED
          BY <4>2, <4>3
      <3>3. QED
        BY <2>2, <3>2
    <2>3. QED
      BY <2>1, <2>2
  <1>6. Taken = CHOOSE i \in m.live : first(i)
    BY DEF Taken
  <1> HIDE DEF first
  <1>7. Taken \in m.live /\ first(Taken)
    BY <1>5, <1>6
  <1>8. ASSUME NEW j \in m.live PROVE Offered(Taken) <= Offered(j)
    <2>1. CASE j = Taken
      BY <1>7, <2>1
    <2>2. CASE j # Taken
      <3>1. Offered(Taken) < Offered(j) \/ Offered(Taken) = Offered(j)
        BY <1>7, <2>2 DEF first
      <3>2. Offered(Taken) \in Nat /\ Offered(j) \in Nat
        BY <1>7
      <3>3. QED
        BY <3>1, <3>2
    <2>3. QED
      BY <2>1, <2>2
  <1>9. QED
    BY <1>7, <1>8

------------------------------------------------------------------------------
(***************************************************************************)
(* A step of a merge, by the names of what it computes.                    *)
(***************************************************************************)
Full == m.count + 1 = Len(m.out)

TakenOut == [m.out EXCEPT ![m.count + 1] = Offered(Taken)]

Counted ==
    [m EXCEPT !.out = TakenOut, !.rem[Taken] = @ - 1,
              !.count = IF Full THEN 0 ELSE @ + 1,
              !.writes = IF Full THEN @ + 1 ELSE @]

After == Advanced(Counted, Taken)

Flushed(file) == IF Full THEN Write(file, m.writes * Len(m.out), TakenOut) ELSE file

LoadedBlock == SubSeq(After.buf[Taken], 1, After.read[Taken] - m.read[Taken])

(* What a step of a merge does to the fields of the record. *)
LEMMA AfterFields ==
    ASSUME MergeType(m), NEW i, i = Taken, i \in DOMAIN m.len,
           Offered(i) \in Content, m.count < Len(m.out), m.rem[i] > 0, m.live \subseteq DOMAIN m.len
    PROVE  /\ After.base = m.base /\ After.len = m.len
           /\ After.rem = [m.rem EXCEPT ![i] = @ - 1]
           /\ After.out = TakenOut
           /\ After.count = (IF Full THEN 0 ELSE m.count + 1)
           /\ After.writes = (IF Full THEN m.writes + 1 ELSE m.writes)
           /\ After = [base |-> After.base, len |-> After.len, rem |-> After.rem, buf |-> After.buf,
                       push |-> After.push, read |-> After.read, live |-> After.live,
                       out |-> After.out, count |-> After.count, writes |-> After.writes]
           /\ \/ /\ m.rem[i] = 1
                 /\ After.live = m.live \ {i} /\ After.buf = m.buf
                 /\ After.push = m.push /\ After.read = m.read
              \/ /\ m.rem[i] # 1 /\ m.push[i] < InputBuffer(FanIn)
                 /\ After.live = m.live /\ After.buf = m.buf
                 /\ After.push = [m.push EXCEPT ![i] = @ + 1] /\ After.read = m.read
              \/ /\ m.rem[i] # 1 /\ ~(m.push[i] < InputBuffer(FanIn))
                 /\ After.live = m.live
                 /\ After.buf = [m.buf EXCEPT ![i] = Read(tmp, LoadOffset(i), LoadSize(i), @)]
                 /\ After.push = [m.push EXCEPT ![i] = 1]
                 /\ After.read = [m.read EXCEPT ![i] = @ + LoadSize(i)]
  <1>1. PICK k \in Nat \ {0} : k = Len(m.len) /\ DOMAIN m.len = 1..k
    BY MergeFields
  <1>2. /\ m.base \in Nat /\ m.count \in Nat /\ m.writes \in Nat
        /\ m.len \in [1..k -> Nat \ {0}] /\ m.rem \in [1..k -> Nat]
        /\ m.push \in [1..k -> Nat] /\ m.read \in [1..k -> Nat]
        /\ m.buf \in [1..k -> Seq(Content)] /\ m.out \in Seq(Content)
    BY <1>1, MergeFields
  <1>3. m = [base |-> m.base, len |-> m.len, rem |-> m.rem, buf |-> m.buf,
             push |-> m.push, read |-> m.read, live |-> m.live,
             out |-> m.out, count |-> m.count, writes |-> m.writes]
    BY DEF MergeType
  <1>4. PICK c : c = Counted
    OBVIOUS
  <1>5. c = [base |-> m.base, len |-> m.len, rem |-> [m.rem EXCEPT ![i] = @ - 1], buf |-> m.buf,
             push |-> m.push, read |-> m.read, live |-> m.live,
             out |-> TakenOut, count |-> (IF Full THEN 0 ELSE m.count + 1),
             writes |-> (IF Full THEN m.writes + 1 ELSE m.writes)]
    BY <1>3, <1>4 DEF Counted
  <1>6. c.rem[i] = m.rem[i] - 1 /\ c.push[i] = m.push[i] /\ m.rem[i] \in Nat /\ m.push[i] \in Nat
    BY <1>1, <1>2, <1>5
  <1>7. After = Advanced(c, i)
    BY <1>4 DEF After
  <1>8. CASE m.rem[i] = 1
    <2>1. After = [c EXCEPT !.live = @ \ {i}]
      BY <1>6, <1>7, <1>8 DEF Advanced
    <2>2. QED
      BY <1>5, <1>8, <2>1
  <1>9. CASE m.rem[i] # 1 /\ m.push[i] < InputBuffer(FanIn)
    <2>1. After = [c EXCEPT !.push[i] = @ + 1]
      BY <1>6, <1>7, <1>9 DEF Advanced
    <2>2. QED
      BY <1>5, <1>9, <2>1
  <1>10. CASE m.rem[i] # 1 /\ ~(m.push[i] < InputBuffer(FanIn))
    <2>1. After = [c EXCEPT !.buf[i] = Read(tmp, LoadOffset(i), LoadSize(i), @),
                            !.read[i] = @ + LoadSize(i), !.push[i] = 1]
      BY <1>6, <1>7, <1>10 DEF Advanced
    <2>2. QED
      BY <1>5, <1>10, <2>1
  <1>11. QED
    BY <1>8, <1>9, <1>10

(* A record of this form is that of a merge. *)
LEMMA AfterType ==
    ASSUME MergeType(m), NEW i, i = Taken, i \in DOMAIN m.len, tmp \in Seq(Content),
           Offered(i) \in Content, m.count < Len(m.out), m.rem[i] > 0, m.live \subseteq DOMAIN m.len,
           runSize \in Nat, InputBuffer(FanIn) \in Nat,
           m.read[i] <= m.len[i] \/ m.rem[i] = 1 \/ m.push[i] < InputBuffer(FanIn)
    PROVE  MergeType(After)
  <1>1. PICK k \in Nat \ {0} : k = Len(m.len) /\ DOMAIN m.len = 1..k
    BY MergeFields
  <1>2. /\ m.base \in Nat /\ m.count \in Nat /\ m.writes \in Nat
        /\ m.len \in [1..k -> Nat \ {0}] /\ m.rem \in [1..k -> Nat]
        /\ m.push \in [1..k -> Nat] /\ m.read \in [1..k -> Nat]
        /\ m.buf \in [1..k -> Seq(Content)] /\ m.out \in Seq(Content)
    BY <1>1, MergeFields
  <1>3. /\ m.len \in Seq(Nat \ {0}) /\ m.rem \in Seq(Nat) /\ m.buf \in Seq(Seq(Content))
        /\ m.push \in Seq(Nat) /\ m.read \in Seq(Nat) /\ m.live \in SUBSET Nat
        /\ Len(m.rem) = k /\ Len(m.push) = k /\ Len(m.read) = k /\ Len(m.buf) = k /\ m.len # <<>>
    BY <1>1 DEF MergeType
  <1>4. i \in 1..k /\ m.rem[i] - 1 \in Nat /\ m.push[i] + 1 \in Nat /\ m.count + 1 \in Nat /\ m.writes + 1 \in Nat
    <2>1. i \in 1..k
      BY <1>1
    <2>2. m.rem[i] \in Nat /\ m.push[i] \in Nat
      BY <1>2, <2>1
    <2>3. m.count \in Nat /\ m.writes \in Nat
      BY <1>2
    <2>4. QED
      BY <2>1, <2>2, <2>3, SMTT(40)
  <1>5. [m.rem EXCEPT ![i] = @ - 1] \in Seq(Nat) /\ Len([m.rem EXCEPT ![i] = @ - 1]) = k
    <2>1. PICK x \in Nat : x = m.rem[i] - 1
      BY <1>4
    <2>2. [m.rem EXCEPT ![i] = x] \in Seq(Nat) /\ Len([m.rem EXCEPT ![i] = x]) = k
      BY <1>3, <1>4, ReplaceEntry
    <2>3. QED
      BY <2>1, <2>2
  <1>6. TakenOut \in Seq(Content)
    <2>1. m.count + 1 \in 1..Len(m.out)
      <3>1. Len(m.out) \in Nat
        BY <1>2
      <3>2. m.count \in Nat
        BY <1>2
      <3>3. QED
        BY <3>1, <3>2
    <2>2. QED
      BY <1>2, <2>1, ReplaceEntry DEF TakenOut
  <1>7. PICK a : a = After
    OBVIOUS
  <1>8. /\ a.base \in Nat /\ a.len \in Seq(Nat \ {0}) /\ a.rem \in Seq(Nat) /\ a.out \in Seq(Content)
        /\ a.count \in Nat /\ a.writes \in Nat
        /\ Len(a.len) = k /\ Len(a.rem) = k /\ a.len # <<>>
    <2>1. /\ a.base = m.base /\ a.len = m.len
          /\ a.rem = [m.rem EXCEPT ![i] = @ - 1] /\ a.out = TakenOut
          /\ a.count = (IF Full THEN 0 ELSE m.count + 1)
          /\ a.writes = (IF Full THEN m.writes + 1 ELSE m.writes)
      BY <1>7, AfterFields
    <2>2. QED
      BY <1>1, <1>2, <1>3, <1>4, <1>5, <1>6, <2>1
  <1>9. a = [base |-> a.base, len |-> a.len, rem |-> a.rem, buf |-> a.buf,
             push |-> a.push, read |-> a.read, live |-> a.live,
             out |-> a.out, count |-> a.count, writes |-> a.writes]
    BY <1>7, AfterFields
  <1>10. /\ a.live \in SUBSET Nat /\ a.buf \in Seq(Seq(Content)) /\ a.push \in Seq(Nat) /\ a.read \in Seq(Nat)
         /\ Len(a.buf) = k /\ Len(a.push) = k /\ Len(a.read) = k
    <2>1. CASE /\ a.live = m.live \ {i} /\ a.buf = m.buf
               /\ a.push = m.push /\ a.read = m.read
      BY <1>3, <2>1
    <2>2. CASE /\ a.live = m.live /\ a.buf = m.buf
               /\ a.push = [m.push EXCEPT ![i] = @ + 1] /\ a.read = m.read
      <3>1. PICK x \in Nat : x = m.push[i] + 1
        BY <1>4
      <3>2. [m.push EXCEPT ![i] = x] \in Seq(Nat) /\ Len([m.push EXCEPT ![i] = x]) = k
        BY <1>3, <1>4, ReplaceEntry
      <3>3. QED
        BY <1>3, <2>2, <3>1, <3>2
    <2>3. CASE /\ m.rem[i] # 1 /\ ~(m.push[i] < InputBuffer(FanIn))
               /\ a.live = m.live
               /\ a.buf = [m.buf EXCEPT ![i] = Read(tmp, LoadOffset(i), LoadSize(i), @)]
               /\ a.push = [m.push EXCEPT ![i] = 1]
               /\ a.read = [m.read EXCEPT ![i] = @ + LoadSize(i)]
      <3>1. m.read[i] \in Nat /\ m.len[i] \in Nat /\ m.read[i] <= m.len[i] /\ m.buf[i] \in Seq(Content)
        BY <1>2, <1>4, <2>3
      <3>2. LoadSize(i) \in Nat /\ LoadOffset(i) \in Nat
        <4>1. LoadSize(i) \in Nat
          BY <3>1 DEF LoadSize
        <4>2. i - 1 \in Nat
          BY <1>4
        <4>3. PICK x \in Nat : x = runSize * (i - 1)
          BY <4>2
        <4>4. QED
          <5>1. LoadOffset(i) = m.read[i] + x + m.base
            BY <4>3 DEF LoadOffset
          <5>2. PICK r \in Nat, c \in Nat : r = m.read[i] /\ c = m.base
            BY <1>2, <3>1
          <5>3. r + x + c \in Nat
            OBVIOUS
          <5>4. QED
            BY <4>1, <5>1, <5>2, <5>3
      <3>3. PICK b : b = Read(tmp, LoadOffset(i), LoadSize(i), m.buf[i])
        OBVIOUS
      <3>4. b \in Seq(Content)
        BY <3>1, <3>2, <3>3, ReadBlock
      <3>5. a.buf = [m.buf EXCEPT ![i] = b]
        BY <2>3, <3>3
      <3>6. a.buf \in Seq(Seq(Content)) /\ Len(a.buf) = k
        <4>1. PICK C : C = Seq(Content)
          OBVIOUS
        <4>2. b \in C /\ m.buf \in Seq(C)
          BY <1>3, <3>4, <4>1
        <4>3. a.buf \in Seq(C) /\ Len(a.buf) = k
          BY <1>3, <1>4, <3>5, <4>2, ReplaceEntry
        <4>4. QED
          BY <4>1, <4>3
      <3>7. a.push \in Seq(Nat) /\ Len(a.push) = k
        BY <1>3, <1>4, <2>3, ReplaceEntry
      <3>8. a.read \in Seq(Nat) /\ Len(a.read) = k
        <4>1. PICK x \in Nat : x = m.read[i] + LoadSize(i)
          BY <3>1, <3>2
        <4>2. [m.read EXCEPT ![i] = x] \in Seq(Nat) /\ Len([m.read EXCEPT ![i] = x]) = k
          BY <1>3, <1>4, ReplaceEntry
        <4>3. QED
          BY <2>3, <4>1, <4>2
      <3>9. QED
        BY <1>3, <2>3, <3>6, <3>7, <3>8
    <2>4. QED
      BY <1>7, <2>1, <2>2, <2>3, AfterFields
  <1>11. MergeType(a)
    <2>1. \A list \in {a.rem, a.push, a.read} : Len(list) = Len(a.len)
      BY <1>8, <1>10
    <2>2. Len(a.buf) = Len(a.len)
      BY <1>8, <1>10
    <2>3. a \in [base : Nat, len : Seq(Nat \ {0}), rem : Seq(Nat), buf : Seq(Seq(Content)),
                 push : Seq(Nat), read : Seq(Nat), live : SUBSET Nat, out : Seq(Content),
                 count : Nat, writes : Nat]
      BY <1>8, <1>9, <1>10
    <2>4. QED
      BY <1>8, <2>1, <2>2, <2>3 DEF MergeType
  <1>12. QED
    BY <1>7, <1>11

(* A run whose entries do not change keeps its buffer. *)
LEMMA BufferKept ==
    ASSUME NEW t, NEW mm, NEW nn, NEW size, NEW block, NEW j,
           BufferOf(t, mm, size, block, j), nn.base = mm.base, nn.len = mm.len,
           nn.rem[j] = mm.rem[j], nn.push[j] = mm.push[j], nn.read[j] = mm.read[j],
           nn.buf[j] = mm.buf[j]
    PROVE  BufferOf(t, nn, size, block, j)
  <1>1. Gone(nn, j) = Gone(mm, j) /\ Start(nn, size, j) = Start(mm, size, j)
    BY DEF Gone, Start
  <1>2. QED
    BY <1>1 DEF BufferOf

(* When the next value has not been read the buffer is used up where the run was read to. *)
LEMMA UsedUp ==
    ASSUME NEW t, NEW mm, NEW size, NEW block \in Nat \ {0}, NEW i, MergeType(mm), i \in DOMAIN mm.len,
           BufferOf(t, mm, size, block, i), mm.rem[i] > 1, mm.rem[i] <= mm.len[i],
           ~(mm.push[i] < block)
    PROVE  mm.push[i] = block /\ mm.read[i] = Gone(mm, i) + 1 /\ mm.read[i] < mm.len[i]
  <1>1. PICK k \in Nat \ {0} : k = Len(mm.len) /\ DOMAIN mm.len = 1..k
    BY MergeFields
  <1>2. mm.len \in [1..k -> Nat \ {0}] /\ mm.rem \in [1..k -> Nat] /\ mm.push \in [1..k -> Nat] /\ mm.read \in [1..k -> Nat]
    BY <1>1, MergeFields
  <1>3. PICK l \in Nat, r \in Nat, p \in Nat, d \in Nat :
           l = mm.len[i] /\ r = mm.rem[i] /\ p = mm.push[i] /\ d = mm.read[i]
    BY <1>1, <1>2
  <1>4. /\ p \in 1..block
        /\ d = l - r - p + 1 + block \/ (d = l /\ l <= l - r - p + 1 + block)
    BY <1>3 DEF BufferOf, Gone
  <1>5. r > 1 /\ r <= l /\ ~(p < block)
    BY <1>3
  <1>6. p = block
    BY <1>4, <1>5
  <1>7. d = l - r + 1 /\ d < l
    BY <1>4, <1>5, <1>6
  <1>8. QED
    BY <1>3, <1>6, <1>7 DEF Gone

(* The buffers after a step: each still holds what follows in its run. *)
LEMMA AfterBuffers ==
    ASSUME NEW i, i = Taken, i \in m.live, NEW block \in Nat \ {0}, block = InputBuffer(FanIn),
           MergeType(m), RunsOf(tmp, m, runSize), Buffers(tmp, m, runSize, block),
           tmp \in Seq(Content), runSize \in Nat, m.count < Len(m.out)
    PROVE  MergeType(After) /\ Buffers(tmp, After, runSize, block) /\ Ascending(LoadedBlock)
  <1>1. PICK k \in Nat \ {0} : k = Len(m.len) /\ DOMAIN m.len = 1..k
    BY MergeFields
  <1>2. /\ m.len \in [1..k -> Nat \ {0}] /\ m.rem \in [1..k -> Nat]
        /\ m.push \in [1..k -> Nat] /\ m.read \in [1..k -> Nat]
        /\ m.buf \in [1..k -> Seq(Content)] /\ m.base \in Nat
    BY <1>1, MergeFields
  <1>3. /\ m.live = {j \in 1..k : m.rem[j] > 0} /\ i \in 1..k /\ m.rem[i] > 0
        /\ \A j \in 1..k : m.rem[j] <= m.len[j] /\ Len(m.buf[j]) = block
        /\ \A j \in m.live : BufferOf(tmp, m, runSize, block, j)
    BY <1>1 DEF Buffers
  <1>4. Offered(i) \in Content
    BY OfferedIsNext
  <1>5. PICK l \in Nat, r \in Nat, p \in Nat, d \in Nat :
           l = m.len[i] /\ r = m.rem[i] /\ p = m.push[i] /\ d = m.read[i]
    BY <1>2, <1>3
  <1>6. r > 0 /\ r <= l /\ Gone(m, i) = l - r /\ p \in 1..block /\ l - r - p + 1 >= 0
    BY <1>3, <1>5 DEF Gone, BufferOf
  <1>7. PICK s \in Nat : s = Start(m, runSize, i) /\ s + l <= Len(tmp)
    <2>1. Start(m, runSize, i) \in Nat /\ Start(m, runSize, i) + m.len[i] <= m.base + Total(m, runSize)
      BY <1>1, <1>3, StartOrder
    <2>2. m.base + Total(m, runSize) <= Len(tmp) /\ Total(m, runSize) \in Nat
      BY <1>1, <1>3, StartOrder DEF RunsOf
    <2>3. Start(m, runSize, i) + m.len[i] <= Len(tmp)
      <3>1. Len(tmp) \in Nat /\ m.base \in Nat
        BY <1>2
      <3>2. QED
        BY <1>5, <2>1, <2>2, <3>1
    <2>4. QED
      BY <1>5, <2>1, <2>3
  <1>8. r = 1 \/ p < block \/ (p = block /\ d = l - r + 1 /\ d < l)
    <2> SUFFICES ASSUME r # 1, ~(p < block) PROVE p = block /\ d = l - r + 1 /\ d < l
      OBVIOUS
    <2>1. r > 1
      BY <1>6
    <2>2. BufferOf(tmp, m, runSize, block, i)
      BY <1>3
    <2>3. m.push[i] = block /\ m.read[i] = Gone(m, i) + 1 /\ m.read[i] < m.len[i]
      BY <1>1, <1>3, <1>5, <2>1, <2>2, UsedUp
    <2>4. QED
      BY <1>5, <1>6, <2>3
  <1>9. MergeType(After)
    <2>1. m.read[i] <= m.len[i] \/ m.rem[i] = 1 \/ m.push[i] < InputBuffer(FanIn)
      BY <1>5, <1>8
    <2>2. m.live \subseteq DOMAIN m.len /\ i \in DOMAIN m.len
      BY <1>1, <1>3
    <2>3. InputBuffer(FanIn) \in Nat
      OBVIOUS
    <2>4. QED
      BY <1>3, <1>4, <2>1, <2>2, <2>3, AfterType
  <1>10. PICK a : a = After
    OBVIOUS
  <1>11. a.base = m.base /\ a.len = m.len /\ a.rem = [m.rem EXCEPT ![i] = @ - 1]
    BY <1>1, <1>3, <1>4, <1>10, AfterFields
  <1>12. \/ /\ r = 1
            /\ a.live = m.live \ {i} /\ a.buf = m.buf
            /\ a.push = m.push /\ a.read = m.read
         \/ /\ r # 1 /\ p < block
            /\ a.live = m.live /\ a.buf = m.buf
            /\ a.push = [m.push EXCEPT ![i] = @ + 1] /\ a.read = m.read
         \/ /\ r # 1 /\ ~(p < block)
            /\ a.live = m.live
            /\ a.buf = [m.buf EXCEPT ![i] = Read(tmp, LoadOffset(i), LoadSize(i), @)]
            /\ a.push = [m.push EXCEPT ![i] = 1]
            /\ a.read = [m.read EXCEPT ![i] = @ + LoadSize(i)]
    BY <1>1, <1>3, <1>4, <1>5, <1>10, AfterFields
  <1>13. /\ a.rem[i] = r - 1 /\ \A j \in 1..k : j # i => a.rem[j] = m.rem[j]
         /\ \A j \in 1..k : a.rem[j] <= m.len[j]
    <2>1. a.rem[i] = r - 1 /\ \A j \in 1..k : j # i => a.rem[j] = m.rem[j]
      BY <1>2, <1>3, <1>5, <1>11
    <2>2. a.rem[i] <= m.len[i]
      BY <1>5, <1>6, <2>1
    <2>3. QED
      BY <1>3, <2>1, <2>2
  <1>14. a.live = {j \in 1..k : a.rem[j] > 0}
    <2>1. CASE r = 1 /\ a.live = m.live \ {i}
      BY <1>3, <1>13, <2>1
    <2>2. CASE r # 1 /\ a.live = m.live
      <3>1. a.rem[i] > 0
        BY <1>6, <1>13, <2>2
      <3>2. QED
        BY <1>3, <1>13, <2>2, <3>1
    <2>3. QED
      BY <1>12, <2>1, <2>2
  <1>15. ASSUME NEW j \in a.live, j # i PROVE BufferOf(tmp, a, runSize, block, j)
    <2>1. j \in 1..k /\ j \in m.live /\ a.rem[j] = m.rem[j]
      BY <1>3, <1>13, <1>14, <1>15
    <2>2. a.push[j] = m.push[j] /\ a.read[j] = m.read[j] /\ a.buf[j] = m.buf[j]
      BY <1>2, <1>12, <1>15, <2>1
    <2>3. BufferOf(tmp, m, runSize, block, j)
      BY <1>3, <2>1
    <2>4. QED
      BY <1>11, <2>1, <2>2, <2>3, BufferKept
  <1>16. Gone(a, i) = l - r + 1 /\ Start(a, runSize, i) = s
    <2>1. a.len[i] = l /\ a.rem[i] = r - 1
      BY <1>5, <1>11, <1>13
    <2>2. Gone(a, i) = l - (r - 1)
      BY <2>1 DEF Gone
    <2>3. Start(a, runSize, i) = s
      BY <1>7, <1>11 DEF Start
    <2>4. QED
      BY <2>2, <2>3
  <1>17. CASE r = 1
    <2>1. i \notin a.live
      BY <1>13, <1>14, <1>17
    <2>2. Buffers(tmp, a, runSize, block)
      BY <1>1, <1>3, <1>11, <1>12, <1>13, <1>14, <1>15, <1>17, <2>1 DEF Buffers
    <2>3. a.read[i] - m.read[i] = 0
      BY <1>5, <1>12, <1>17
    <2>4. LoadedBlock = <<>>
      BY <1>10, <2>3, NoPart DEF LoadedBlock
    <2>5. Ascending(LoadedBlock)
      BY <2>4 DEF Ascending
    <2>6. QED
      BY <1>9, <1>10, <2>2, <2>5
  <1>18. CASE r # 1 /\ p < block
    <2>1. a.push[i] = p + 1 /\ a.read[i] = d /\ a.buf[i] = m.buf[i]
      BY <1>2, <1>3, <1>5, <1>12, <1>18
    <2>2. BufferOf(tmp, a, runSize, block, i)
      <3>1. BufferOf(tmp, m, runSize, block, i)
        BY <1>3
      <3>2. (l - r + 1) - (p + 1) + 1 = l - r - p + 1 /\ p + 1 \in 1..block
        BY <1>6, <1>18
      <3>3. Gone(a, i) - a.push[i] + 1 = Gone(m, i) - m.push[i] + 1
        <4>1. Gone(a, i) = l - r + 1 /\ Gone(m, i) = l - r /\ a.push[i] = p + 1 /\ m.push[i] = p
          BY <1>5, <1>6, <1>16, <2>1
        <4>2. QED
          BY <3>2, <4>1
      <3>4. QED
        <4>1. PICK first \in Int : first = l - r - p + 1
          OBVIOUS
        <4>2. Gone(m, i) - m.push[i] + 1 = first /\ Gone(a, i) - a.push[i] + 1 = first
          BY <1>5, <1>6, <3>3, <4>1
        <4>3. /\ first >= 0
              /\ d = first + block \/ (d = l /\ l <= first + block)
              /\ \A j \in 1..block : first + j <= l => m.buf[i][j] = tmp[s + first + j]
          BY <1>5, <1>7, <3>1, <4>2 DEF BufferOf
        <4>4. a.len[i] = l /\ Start(a, runSize, i) = s /\ a.push[i] \in 1..block
          BY <1>5, <1>11, <1>16, <2>1, <3>2
        <4>5. QED
          BY <2>1, <4>2, <4>3, <4>4 DEF BufferOf
    <2>3. Buffers(tmp, a, runSize, block)
      BY <1>1, <1>3, <1>11, <1>12, <1>13, <1>14, <1>15, <1>18, <2>2 DEF Buffers
    <2>4. a.read[i] - m.read[i] = 0
      BY <1>5, <2>1
    <2>5. LoadedBlock = <<>>
      BY <1>10, <2>4, NoPart DEF LoadedBlock
    <2>6. Ascending(LoadedBlock)
      BY <2>5 DEF Ascending
    <2>7. QED
      BY <1>9, <1>10, <2>3, <2>6
  <1>19. CASE r # 1 /\ ~(p < block)
    <2>1. d = l - r + 1 /\ d < l /\ p = block
      BY <1>8, <1>19
    <2>2. PICK size \in Nat \ {0} : size = LoadSize(i) /\ size = (IF d + block >= l THEN l - d ELSE block)
      BY <1>5, <2>1, SMTT(40) DEF LoadSize
    <2>3. LoadOffset(i) = s + d
      <3>1. runSize * (i - 1) = (i - 1) * runSize
        BY <1>3
      <3>2. PICK x \in Nat : x = (i - 1) * runSize
        BY <1>3, NextBlock
      <3>3. s = m.base + x
        BY <1>7, <3>2 DEF Start
      <3>4. LoadOffset(i) = d + x + m.base
        BY <1>5, <3>1, <3>2 DEF LoadOffset
      <3>5. m.base \in Nat
        BY <1>2
      <3>6. QED
        BY <3>3, <3>4, <3>5
    <2>4. PICK b : b = Read(tmp, s + d, size, m.buf[i])
      OBVIOUS
    <2>5. /\ b \in Seq(Content) /\ Len(b) = block
          /\ \A j \in 1..block : b[j] = IF j <= size /\ s + d + j <= Len(tmp) THEN tmp[s + d + j] ELSE m.buf[i][j]
      <3>1. m.buf[i] \in Seq(Content) /\ Len(m.buf[i]) = block /\ s + d \in Nat
        <4>1. m.buf[i] \in Seq(Content) /\ Len(m.buf[i]) = block
          BY <1>2, <1>3
        <4>2. s + d \in Nat
          OBVIOUS
        <4>3. QED
          BY <4>1, <4>2
      <3>2. QED
        BY <2>4, <3>1, ReadBlock
    <2>6. \A j \in 1..block : d + j <= l => j <= size /\ b[j] = tmp[s + d + j]
      <3> SUFFICES ASSUME NEW j \in 1..block, d + j <= l PROVE j <= size /\ b[j] = tmp[s + d + j]
        OBVIOUS
      <3>1. j <= size
        BY <2>2
      <3>2. Len(tmp) \in Nat
        OBVIOUS
      <3>3. s + d + j <= Len(tmp)
        BY <1>7, <3>2
      <3>4. QED
        BY <2>5, <3>1, <3>3
    <2>7. a.push[i] = 1 /\ a.read[i] = d + size /\ a.buf[i] = b
      <3>1. a.push[i] = 1
        BY <1>2, <1>3, <1>12, <1>19
      <3>2. a.read = [m.read EXCEPT ![i] = @ + size]
        BY <1>12, <1>19, <2>2
      <3>3. a.read[i] = d + size
        BY <1>2, <1>3, <1>5, <3>2
      <3>4. a.buf = [m.buf EXCEPT ![i] = b]
        BY <1>12, <1>19, <2>2, <2>3, <2>4
      <3>5. a.buf[i] = b
        BY <1>2, <1>3, <3>4
      <3>6. QED
        BY <3>1, <3>3, <3>5
    <2>8. BufferOf(tmp, a, runSize, block, i)
      <3>1. Gone(a, i) - a.push[i] + 1 = d
        BY <1>16, <2>1, <2>7
      <3>2. a.read[i] = d + block \/ (a.read[i] = l /\ l <= d + block)
        BY <2>2, <2>7
      <3>3. \A j \in 1..block : d + j <= l => a.buf[i][j] = tmp[s + d + j]
        BY <2>6, <2>7
      <3>4. a.push[i] \in 1..block /\ d >= 0
        BY <2>7
      <3>5. QED
        BY <1>5, <1>11, <1>16, <3>1, <3>2, <3>3, <3>4 DEF BufferOf
    <2>9. \A j \in 1..k : Len(a.buf[j]) = block
      <3>1. \A j \in 1..k : j # i => a.buf[j] = m.buf[j]
        BY <1>2, <1>12, <1>19
      <3>2. QED
        BY <1>3, <2>5, <2>7, <3>1
    <2>10. Buffers(tmp, a, runSize, block)
      BY <1>1, <1>11, <1>13, <1>14, <1>15, <2>8, <2>9 DEF Buffers
    <2>11. Ascending(LoadedBlock)
      <3>1. size <= block /\ size \in Nat /\ d + size <= l
        BY <2>1, <2>2
      <3>2. LoadedBlock = SubSeq(b, 0 + 1, size)
        <4>1. a.read[i] - m.read[i] = size
          BY <1>5, <2>7
        <4>2. QED
          BY <1>10, <2>7, <4>1 DEF LoadedBlock
      <3>3. Rising(tmp, s, s + l)
        BY <1>1, <1>3, <1>5, <1>7 DEF RunsOf
      <3>4. Rising(tmp, s + d, s + l)
        <4>1. s + d \in Nat /\ s + l \in Nat /\ s <= s + d
          OBVIOUS
        <4>2. QED
          BY <3>3, <4>1, RisingPart
      <3>5. Rising(b, 0, size)
        <4>1. \A j \in 1 .. size - 0 : b[0 + j] = tmp[(s + d) + j]
          <5> SUFFICES ASSUME NEW j \in 1..size PROVE b[j] = tmp[(s + d) + j]
            OBVIOUS
          <5>1. j \in 1..block /\ d + j <= l /\ s + d + j = (s + d) + j
            BY <3>1
          <5>2. QED
            BY <2>6, <5>1
        <4>2. s + d \in Nat /\ s + l \in Nat /\ size - 0 <= (s + l) - (s + d)
          BY <3>1
        <4>3. QED
          BY <3>4, <4>1, <4>2, RisingElsewhere
      <3>6. Ascending(SubSeq(b, 0 + 1, size))
        <4>1. size <= Len(b) /\ 0 \in Nat /\ 0 <= size
          BY <2>5, <3>1
        <4>2. QED
          BY <2>5, <3>1, <3>5, <4>1, PartAscends
      <3>7. QED
        BY <3>2, <3>6
    <2>12. QED
      BY <1>9, <1>10, <2>10, <2>11
  <1>20. QED
    BY <1>17, <1>18, <1>19

(* The result, of ww written values, by positions. *)
ResultIs(mm, file, ww) ==
    /\ ww \in Nat /\ Done(mm) = ww + mm.count
    /\ Result(mm, file) \in Seq(Content) /\ Len(Result(mm, file)) = Done(mm)
    /\ \A j \in 1..Done(mm) :
          Result(mm, file)[j] = IF j <= ww THEN file[j] ELSE mm.out[j - ww]

(* What has been written, and behind it what is in the output buffer. *)
LEMMA ResultElements ==
    ASSUME NEW mm, NEW file \in Seq(Content), mm.out \in Seq(Content), mm.count \in Nat,
           mm.writes \in Nat, mm.count <= Len(mm.out), Done(mm) <= Len(file),
           NEW ww, ww = mm.writes * Len(mm.out)
    PROVE  ResultIs(mm, file, ww)
  <1>1. PICK W \in Nat, L \in Nat, c \in Nat, w \in Nat :
           W = Len(mm.out) /\ L = Len(file) /\ c = mm.count /\ w = mm.writes
    OBVIOUS
  <1>2. ww = w * W /\ ww \in Nat
    BY <1>1, NextBlock
  <1>3. Done(mm) = ww + c /\ ww <= L /\ c <= W
    BY <1>1, <1>2 DEF Done
  <1>4. PICK front : front = SubSeq(file, 0 + 1, ww)
    OBVIOUS
  <1>5. front \in Seq(Content) /\ Len(front) = ww /\ \A j \in 1..ww : front[j] = file[j]
    <2>1. /\ SubSeq(file, 0 + 1, ww) \in Seq(Content) /\ Len(SubSeq(file, 0 + 1, ww)) = ww - 0
          /\ \A j \in 1 .. ww - 0 : SubSeq(file, 0 + 1, ww)[j] = file[0 + j]
      <3>1. 0 \in Nat /\ 0 <= ww /\ ww <= Len(file)
        BY <1>1, <1>2, <1>3
      <3>2. QED
        BY <1>2, <3>1, PartOf
    <2>2. ww - 0 = ww /\ \A j \in 1..ww : 0 + j = j
      BY <1>2
    <2>3. QED
      BY <1>4, <2>1, <2>2
  <1>6. PICK back : back = SubSeq(mm.out, 0 + 1, c)
    OBVIOUS
  <1>7. back \in Seq(Content) /\ Len(back) = c /\ \A j \in 1..c : back[j] = mm.out[j]
    <2>1. /\ SubSeq(mm.out, 0 + 1, c) \in Seq(Content) /\ Len(SubSeq(mm.out, 0 + 1, c)) = c - 0
          /\ \A j \in 1 .. c - 0 : SubSeq(mm.out, 0 + 1, c)[j] = mm.out[0 + j]
      <3>1. 0 \in Nat /\ 0 <= c /\ c <= Len(mm.out)
        BY <1>1, <1>3
      <3>2. QED
        BY <3>1, PartOf
    <2>2. c - 0 = c /\ \A j \in 1..c : 0 + j = j
      OBVIOUS
    <2>3. QED
      BY <1>6, <2>1, <2>2
  <1>8. Result(mm, file) = front \o back
    <2>1. 0 + 1 = 1
      OBVIOUS
    <2>2. QED
      BY <1>1, <1>2, <1>4, <1>6, <2>1 DEF Result
  <1>9. /\ front \o back \in Seq(Content) /\ Len(front \o back) = Len(front) + Len(back)
        /\ \A j \in 1 .. Len(front) + Len(back) :
              (front \o back)[j] = IF j <= Len(front) THEN front[j] ELSE back[j - Len(front)]
    <2>1. front \in Seq(Content) /\ back \in Seq(Content)
      BY <1>5, <1>7
    <2>2. front \o back \in Seq(Content) /\ Len(front \o back) = Len(front) + Len(back)
      BY <2>1, ConcatProperties
    <2>3. \A j \in 1 .. Len(front) + Len(back) :
             (front \o back)[j] = IF j <= Len(front) THEN front[j] ELSE back[j - Len(front)]
      BY <2>1, ConcatProperties
    <2>4. QED
      BY <2>2, <2>3
  <1>10. ASSUME NEW j \in 1 .. ww + c
         PROVE  (front \o back)[j] = IF j <= ww THEN file[j] ELSE mm.out[j - ww]
    <2>1. (front \o back)[j] = IF j <= ww THEN front[j] ELSE back[j - ww]
      BY <1>5, <1>7, <1>9
    <2>2. CASE j <= ww
      BY <1>2, <1>5, <2>1, <2>2
    <2>3. CASE ~(j <= ww)
      <3>1. j - ww \in 1..c
        BY <1>2, <2>3
      <3>2. QED
        BY <1>7, <2>1, <2>3, <3>1
    <2>4. QED
      BY <2>2, <2>3
  <1>11. QED
    BY <1>1, <1>2, <1>3, <1>5, <1>7, <1>8, <1>9, <1>10 DEF ResultIs

(* Where the merge stands: what is done fits into the file. *)
LEMMA DoneFits ==
    ASSUME NEW t, NEW mm, NEW size \in Nat, NEW file \in Seq(Content), MergeType(mm), RunsOf(t, mm, size),
           Written(t, mm, size, file), \A i \in DOMAIN mm.len : mm.rem[i] <= mm.len[i],
           NEW ww, ww = mm.writes * Len(mm.out)
    PROVE  /\ Done(mm) \in Nat /\ Done(mm) <= Len(file) /\ Len(file) = Total(mm, size)
           /\ ResultIs(mm, file, ww)
  <1>1. Done(mm) = Cardinality(Given(mm, size)) /\ Len(file) = Total(mm, size) /\ mm.count < Len(mm.out)
    BY DEF Written
  <1>2. IsFiniteSet(Given(mm, size)) /\ Cardinality(Given(mm, size)) <= Total(mm, size)
    BY GivenInside
  <1>3. Cardinality(Given(mm, size)) \in Nat
    BY <1>2, FS_CardinalityType
  <1>4. mm.out \in Seq(Content) /\ mm.count \in Nat /\ mm.writes \in Nat /\ Len(mm.out) \in Nat
    BY MergeFields
  <1>5. mm.count <= Len(mm.out) /\ Done(mm) <= Len(file)
    BY <1>1, <1>2, <1>4
  <1>6. ResultIs(mm, file, ww)
    BY <1>4, <1>5, ResultElements
  <1>7. Done(mm) \in Nat
    BY <1>1, <1>3
  <1>8. QED
    BY <1>1, <1>5, <1>6, <1>7

(* What is written after a step: one value more, and none less than those before. *)
LEMMA AfterWritten ==
    ASSUME NEW f \in Seq(Content), NEW i, i = Taken, i \in m.live, NEW block \in Nat \ {0},
           MergeType(m), RunsOf(tmp, m, runSize), Buffers(tmp, m, runSize, block),
           Written(tmp, m, runSize, f), MergeType(After), tmp \in Seq(Content), runSize \in Nat,
           \A j \in m.live : Offered(i) <= Offered(j)
    PROVE  /\ Written(tmp, After, runSize, Flushed(f)) /\ Flushed(f) \in Seq(Content)
           /\ Full => Ascending(TakenOut)
  <1>1. PICK k \in Nat \ {0} : k = Len(m.len) /\ DOMAIN m.len = 1..k
    BY MergeFields
  <1>2. /\ m.len \in [1..k -> Nat \ {0}] /\ m.rem \in [1..k -> Nat] /\ m.out \in Seq(Content)
        /\ m.base \in Nat /\ m.count \in Nat /\ m.writes \in Nat
    BY <1>1, MergeFields
  <1>3. /\ m.live = {j \in 1..k : m.rem[j] > 0} /\ i \in 1..k /\ m.rem[i] > 0
        /\ \A j \in 1..k : m.rem[j] <= m.len[j]
    BY <1>1 DEF Buffers
  <1>4. PICK W \in Nat, c \in Nat, w \in Nat : W = Len(m.out) /\ c = m.count /\ w = m.writes
    BY <1>2
  <1>5. PICK ww \in Nat : ww = w * W
    BY <1>4, NextBlock
  <1>6. c < W
    BY <1>4 DEF Written
  <1>7. PICK R : R = Result(m, f)
    OBVIOUS
  <1>0. /\ Done(m) \in Nat /\ Done(m) <= Len(f) /\ Len(f) = Total(m, runSize)
        /\ ResultIs(m, f, ww)
    <2>1. \A j \in DOMAIN m.len : m.rem[j] <= m.len[j]
      BY <1>1, <1>3
    <2>2. ww = m.writes * Len(m.out)
      BY <1>4, <1>5
    <2>3. QED
      BY <2>1, <2>2, DoneFits
  <1>8. PICK D \in Nat : D = Done(m)
    BY <1>0
  <1>9. /\ D = ww + c /\ R \in Seq(Content) /\ Len(R) = D /\ D <= Len(f) /\ Len(f) = Total(m, runSize)
        /\ \A j \in 1..D : R[j] = IF j <= ww THEN f[j] ELSE m.out[j - ww]
    BY <1>0, <1>4, <1>7, <1>8 DEF ResultIs
  <1>10. PICK v : v = Offered(i) /\ v \in Content /\ v \in Nat
    BY OfferedIsNext
  <1>11. PICK q : q = Start(m, runSize, i) + Gone(m, i) + 1
    OBVIOUS
  <1>12. tmp[q] = v
    BY <1>10, <1>11, OfferedIsNext
  <1>13. PICK a : a = After
    OBVIOUS
  <1>14. /\ a.base = m.base /\ a.len = m.len /\ a.rem = [m.rem EXCEPT ![i] = @ - 1]
         /\ a.out = TakenOut /\ MergeType(a)
         /\ a.count = (IF Full THEN 0 ELSE m.count + 1)
         /\ a.writes = (IF Full THEN m.writes + 1 ELSE m.writes)
    <2>1. m.live \subseteq DOMAIN m.len /\ i \in DOMAIN m.len /\ m.count < Len(m.out)
      BY <1>1, <1>3, <1>4, <1>6
    <2>2. QED
      BY <1>3, <1>10, <1>13, <2>1, AfterFields
  <1>15. /\ Given(a, runSize) = Given(m, runSize) \cup {q} /\ q \notin Given(m, runSize)
    <2>1. \A j \in DOMAIN m.len : m.rem[j] <= m.len[j]
      BY <1>1, <1>3
    <2>2. QED
      <3>1. i \in DOMAIN m.len
        BY <1>1, <1>3
      <3>0. GaveOne(m, a, i) /\ m.rem[i] > 0
        BY <1>3, <1>14 DEF GaveOne
      <3>2. GivenGrows(m, a, runSize, i)
        BY <2>1, <3>0, <3>1, GivenNext
      <3>3. QED
        BY <1>11, <3>2 DEF GivenGrows
  <1>16. IsFiniteSet(Given(m, runSize)) /\ D = Cardinality(Given(m, runSize))
    <2>1. \A j \in DOMAIN m.len : m.rem[j] <= m.len[j]
      BY <1>1, <1>3
    <2>2. IsFiniteSet(Given(m, runSize))
      BY <2>1, GivenInside
    <2>3. QED
      BY <1>8, <2>2 DEF Written
  <1>17. Cardinality(Given(a, runSize)) = D + 1
    BY <1>15, <1>16, CountOne
  <1>18. /\ a.rem[i] = m.rem[i] - 1 /\ \A j \in 1..k : j # i => a.rem[j] = m.rem[j]
         /\ \A j \in 1..k : a.rem[j] <= a.len[j]
    <2>1. /\ a.rem[i] = m.rem[i] - 1 /\ \A j \in 1..k : j # i => a.rem[j] = m.rem[j]
      BY <1>2, <1>3, <1>14
    <2>2. m.rem[i] \in Nat /\ m.len[i] \in Nat
      BY <1>2, <1>3
    <2>3. m.rem[i] - 1 <= m.len[i]
      BY <1>3, <2>2
    <2>4. QED
      BY <1>3, <1>14, <2>1, <2>3
  <1>19. Total(a, runSize) = Total(m, runSize) /\ RunsOf(tmp, a, runSize)
    <2>1. \A j \in 1..k : Start(a, runSize, j) = Start(m, runSize, j)
      BY <1>14 DEF Start
    <2>2. Total(a, runSize) = Total(m, runSize)
      BY <1>14 DEF Total
    <2>3. QED
      BY <1>1, <1>14, <2>1, <2>2 DEF RunsOf
  <1>20. D + 1 <= Len(f)
    <2>1. \A j \in DOMAIN a.len : a.rem[j] <= a.len[j]
      BY <1>1, <1>14, <1>18
    <2>2. Cardinality(Given(a, runSize)) <= Total(a, runSize)
      BY <1>14, <1>19, <2>1, GivenInside
    <2>3. QED
      BY <1>9, <1>17, <1>19, <2>2
  <1>21. PICK out : out = TakenOut
    OBVIOUS
  <1>22. /\ out \in Seq(Content) /\ Len(out) = W
         /\ \A j \in 1..W : out[j] = IF j = c + 1 THEN v ELSE m.out[j]
    <2>1. c + 1 \in 1..Len(m.out)
      BY <1>4, <1>6
    <2>2. out = [m.out EXCEPT ![c + 1] = v]
      BY <1>4, <1>10, <1>21 DEF TakenOut
    <2>3. QED
      BY <1>2, <1>4, <1>10, <2>1, <2>2, ReplaceEntry
  <1>23. PICK g : g = Flushed(f)
    OBVIOUS
  <1>24. Full <=> c + 1 = W
    BY <1>4 DEF Full
  <1>25. PICK x \in Nat : x = a.writes * W
    <2>1. a.writes \in Nat
      BY <1>14, MergeFields
    <2>2. QED
      BY <2>1, NextBlock
  <1>26. /\ g \in Seq(Content) /\ Len(g) = Len(f)
         /\ x + a.count = D + 1 /\ a.count < W
         /\ \A j \in 1 .. D + 1 :
               (IF j <= x THEN g[j] ELSE out[j - x]) = (IF j <= ww THEN f[j] ELSE out[j - ww])
    <2>1. CASE Full
      <3>1. a.writes = w + 1 /\ a.count = 0
        BY <1>4, <1>14, <2>1
      <3>2. x = ww + W
        <4>1. (w + 1) * W = w * W + W
          BY NextBlock
        <4>2. QED
          BY <1>5, <1>25, <3>1, <4>1
      <3>3. g = Write(f, ww, out)
        BY <1>4, <1>5, <1>21, <1>23, <2>1 DEF Flushed
      <3>4. ww + Len(out) = D + 1 /\ Len(f) \in Nat
        BY <1>9, <1>22, <1>24, <2>1
      <3>5. /\ g \in Seq(Content) /\ Len(g) = Len(f)
            /\ \A j \in 1..Len(f) : g[j] = IF ww < j /\ j <= ww + Len(out) THEN out[j - ww] ELSE f[j]
        <4>1. ww + Len(out) <= Len(f)
          BY <1>20, <3>4
        <4>2. QED
          BY <1>22, <3>3, <4>1, WriteInside
      <3>6. ASSUME NEW j \in 1 .. D + 1
            PROVE  (IF j <= x THEN g[j] ELSE out[j - x]) = (IF j <= ww THEN f[j] ELSE out[j - ww])
        <4>1. j <= x /\ j \in 1..Len(f) /\ j <= ww + Len(out)
          BY <1>20, <1>22, <3>2, <3>4
        <4>2. g[j] = IF ww < j THEN out[j - ww] ELSE f[j]
          BY <3>5, <4>1
        <4>3. QED
          BY <4>1, <4>2
      <3>7. x + a.count = D + 1 /\ a.count < W
        BY <1>6, <1>22, <3>1, <3>2, <3>4
      <3>8. QED
        BY <3>5, <3>6, <3>7
    <2>2. CASE ~Full
      <3>1. a.writes = w /\ a.count = c + 1 /\ g = f
        BY <1>4, <1>14, <1>23, <2>2 DEF Flushed
      <3>2. x = ww /\ c + 1 < W
        BY <1>5, <1>6, <1>24, <1>25, <2>2, <3>1
      <3>3. QED
        BY <1>9, <3>1, <3>2
    <2>3. QED
      BY <2>1, <2>2
  <1>27. Done(a) = D + 1 /\ a.out = out /\ a.count \in Nat /\ a.writes \in Nat
    <2>1. a.count \in Nat /\ a.writes \in Nat /\ a.out = out
      BY <1>14, <1>21, MergeFields
    <2>2. QED
      BY <1>22, <1>25, <1>26, <2>1 DEF Done
  <1>28. PICK S : S = Result(a, g)
    OBVIOUS
  <1>29. /\ S \in Seq(Content) /\ \A j \in 1 .. D + 1 : S[j] = IF j <= x THEN g[j] ELSE out[j - x]
    <2>1. a.count <= Len(a.out) /\ Done(a) <= Len(g) /\ x = a.writes * Len(a.out)
      BY <1>20, <1>22, <1>25, <1>26, <1>27
    <2>2. QED
      <3>1. a.out \in Seq(Content) /\ g \in Seq(Content)
        BY <1>22, <1>26, <1>27
      <3>2. ResultIs(a, g, x)
        BY <1>27, <2>1, <3>1, ResultElements
      <3>3. QED
        BY <1>27, <1>28, <3>2 DEF ResultIs
  <1>30. \A j \in 1 .. D + 1 : S[j] = IF j <= ww THEN f[j] ELSE out[j - ww]
    BY <1>26, <1>29
  <1>31. \A j \in 1..D : S[j] = R[j]
    <2> SUFFICES ASSUME NEW j \in 1..D PROVE S[j] = R[j]
      OBVIOUS
    <2>1. CASE j <= ww
      BY <1>9, <1>30, <2>1
    <2>2. CASE ~(j <= ww)
      <3>1. j - ww \in 1..W /\ j - ww # c + 1
        BY <1>6, <1>9, <2>2
      <3>2. QED
        BY <1>9, <1>22, <1>30, <2>2, <3>1
    <2>3. QED
      BY <2>1, <2>2
  <1>32. S[D + 1] = v
    <2>1. D + 1 - ww = c + 1 /\ c + 1 \in 1..W /\ ~(D + 1 <= ww) /\ D + 1 \in 1 .. D + 1
      BY <1>6, <1>9
    <2>2. QED
      BY <1>22, <1>30, <2>1
  <1>33. Rising(S, 0, D + 1)
    <2> SUFFICES ASSUME NEW p \in 0 + 1 .. D + 1 - 1 PROVE S[p] <= S[p + 1]
      BY DEF Rising
    <2>1. p \in 1..D /\ S[p] = R[p]
      BY <1>31
    <2>2. CASE p = D
      <3>1. R[D] <= tmp[q]
        BY <1>7, <1>8, <1>11, <2>1, <2>2 DEF Written
      <3>2. QED
        BY <1>12, <1>32, <2>1, <2>2, <3>1
    <2>3. CASE p # D
      <3>1. p + 1 \in 1..D /\ p \in 0 + 1 .. D - 1
        BY <2>1, <2>3
      <3>2. R[p] <= R[p + 1]
        BY <1>7, <1>8, <3>1 DEF Written, Rising
      <3>3. QED
        BY <1>31, <2>1, <3>1, <3>2
    <2>4. QED
      BY <2>2, <2>3
  <1>34. ASSUME NEW u \in Content PROVE Count(u, S, 1 .. D + 1) = Count(u, tmp, Given(a, runSize))
    <2>1. Count(u, S, 1..D) = Count(u, R, 1..D)
      BY <1>31, CountSame
    <2>2. Count(u, R, 1..D) = Count(u, tmp, Given(m, runSize))
      BY <1>7, <1>8 DEF Written
    <2>3. Count(u, S, 1..D \cup {D + 1}) = Count(u, S, 1..D) + (IF S[D + 1] = u THEN 1 ELSE 0)
      <3>1. PICK T, e : T = 1..D /\ e = D + 1
        OBVIOUS
      <3>2. IsFiniteSet(T) /\ e \notin T
        BY <3>1, FirstCount
      <3>3. Count(u, S, T \cup {e}) = Count(u, S, T) + (IF S[e] = u THEN 1 ELSE 0)
        BY <3>2, CountOne
      <3>4. QED
        BY <3>1, <3>3
    <2>4. 1..D \cup {D + 1} = 1 .. D + 1
      OBVIOUS
    <2>5. Count(u, tmp, Given(m, runSize) \cup {q}) = Count(u, tmp, Given(m, runSize)) + (IF tmp[q] = u THEN 1 ELSE 0)
      BY <1>15, <1>16, CountOne
    <2>6. QED
      BY <1>12, <1>15, <1>32, <2>1, <2>2, <2>3, <2>4, <2>5
  <1>35. ASSUME NEW j \in a.live, a.live \subseteq m.live, a.live = {h \in 1..k : a.rem[h] > 0}
         PROVE  v <= tmp[Start(a, runSize, j) + Gone(a, j) + 1]
    <2>1. j \in 1..k /\ Start(a, runSize, j) = Start(m, runSize, j)
      BY <1>14, <1>35 DEF Start
    <2>2. CASE j # i
      <3>1. Gone(a, j) = Gone(m, j)
        BY <1>14, <1>18, <2>1, <2>2 DEF Gone
      <3>2. j \in m.live
        BY <1>35
      <3>3. Offered(j) = tmp[Start(m, runSize, j) + Gone(m, j) + 1]
        BY <3>2, OfferedIsNext
      <3>4. QED
        BY <1>10, <2>1, <3>1, <3>2, <3>3
    <2>3. CASE j = i
      <3>1. PICK s \in Nat, l \in Nat, r \in Nat : s = Start(m, runSize, i) /\ l = m.len[i] /\ r = m.rem[i]
        BY <1>1, <1>2, <1>3, StartOrder
      <3>2. Gone(m, i) = l - r /\ Gone(a, i) = l - r + 1
        <4>1. a.len[i] = l /\ a.rem[i] = r - 1
          BY <1>14, <1>18, <3>1
        <4>2. Gone(a, i) = l - (r - 1)
          BY <4>1 DEF Gone
        <4>3. QED
          BY <3>1, <4>2 DEF Gone
      <3>3. r - 1 > 0 /\ r <= l
        BY <1>3, <1>18, <1>35, <2>3, <3>1
      <3>4. Rising(tmp, s, s + l)
        BY <1>1, <1>3, <3>1 DEF RunsOf
      <3>5. q = s + (l - r) + 1 /\ q \in s + 1 .. s + l - 1
        <4>1. q = s + (l - r) + 1
          BY <1>11, <3>1, <3>2
        <4>2. QED
          BY <3>3, <4>1
      <3>6. tmp[q] <= tmp[q + 1]
        <4>1. q \in s + 1 .. s + l - 1
          BY <3>5
        <4>2. QED
          BY <3>4, <4>1 DEF Rising
      <3>7. q + 1 = s + (l - r + 1) + 1
        BY <3>5
      <3>8. QED
        BY <1>12, <2>1, <2>3, <3>1, <3>2, <3>6, <3>7
    <2>4. QED
      BY <2>2, <2>3
  <1>36. a.live \subseteq m.live /\ a.live = {h \in 1..k : a.rem[h] > 0}
    <2>1. \/ m.rem[i] = 1 /\ a.live = m.live \ {i}
          \/ m.rem[i] # 1 /\ a.live = m.live
      <3>1. m.live \subseteq DOMAIN m.len /\ i \in DOMAIN m.len /\ m.count < Len(m.out)
        BY <1>1, <1>3, <1>4, <1>6
      <3>2. QED
        BY <1>3, <1>10, <1>13, <3>1, AfterFields
    <2>2. m.rem[i] \in Nat
      BY <1>2, <1>3
    <2>3. CASE m.rem[i] = 1 /\ a.live = m.live \ {i}
      BY <1>3, <1>18, <2>3
    <2>4. CASE m.rem[i] # 1 /\ a.live = m.live
      <3>1. a.rem[i] > 0
        BY <1>3, <1>18, <2>2, <2>4
      <3>2. QED
        BY <1>3, <1>18, <2>4, <3>1
    <2>5. QED
      BY <2>1, <2>3, <2>4
  <1>37. Written(tmp, a, runSize, g)
    <2>1. a.count < Len(a.out) /\ Len(g) = Total(a, runSize)
      BY <1>9, <1>19, <1>22, <1>26, <1>27
    <2>2. Done(a) = Cardinality(Given(a, runSize))
      BY <1>17, <1>27
    <2>3. \A u \in Content : Count(u, Result(a, g), 1..Done(a)) = Count(u, tmp, Given(a, runSize))
      BY <1>27, <1>28, <1>34
    <2>4. Rising(Result(a, g), 0, Done(a))
      BY <1>27, <1>28, <1>33
    <2>5. \A j \in a.live : Result(a, g)[Done(a)] <= tmp[Start(a, runSize, j) + Gone(a, j) + 1]
      BY <1>27, <1>28, <1>32, <1>35, <1>36
    <2>6. QED
      BY <2>1, <2>2, <2>3, <2>4, <2>5 DEF Written
  <1>38. ASSUME Full PROVE Ascending(TakenOut)
    <2>1. D + 1 = ww + W
      BY <1>9, <1>24, <1>38
    <2>2. \A j \in 1 .. W - 0 : out[0 + j] = S[ww + j]
      <3> SUFFICES ASSUME NEW j \in 1..W PROVE out[j] = S[ww + j]
        OBVIOUS
      <3>1. ww + j \in 1 .. D + 1 /\ ~(ww + j <= ww) /\ ww + j - ww = j
        BY <2>1
      <3>2. QED
        BY <1>30, <3>1
    <2>3. 0 \in Nat /\ D + 1 \in Nat /\ W - 0 <= D + 1 - ww /\ 0 <= ww
      BY <2>1
    <2>4. Rising(S, ww, D + 1)
      BY <1>33, <2>3, RisingPart
    <2>5. Rising(out, 0, W)
      <3>1. PICK e \in Nat : e = D + 1
        BY <2>3
      <3>2. Rising(S, ww, e) /\ W - 0 <= e - ww
        BY <2>3, <2>4, <3>1
      <3>3. QED
        BY <2>2, <2>3, <3>2, RisingElsewhere
    <2>6. QED
      BY <1>21, <1>22, <2>5, WholeAscends
  <1>39. QED
    BY <1>13, <1>23, <1>26, <1>37, <1>38

(* A step of a merge keeps what is said of it, and finds its assertions true. *)
LEMMA MergeStep ==
    ASSUME NEW f \in Seq(Content), tmp \in Seq(Content), runSize \in Nat, mem \in Nat,
           Merging(tmp, m, runSize, mem, f), m.live # {}
    PROVE  /\ Merging(tmp, After, runSize, mem, Flushed(f)) /\ Flushed(f) \in Seq(Content)
           /\ Ascending(LoadedBlock) /\ (Full => Ascending(TakenOut))
           /\ After.base = m.base /\ After.len = m.len
  <1>1. PICK k \in Nat \ {0} : k = Len(m.len) /\ DOMAIN m.len = 1..k
    BY MergeFields DEF Merging
  <1>2. PICK block \in Nat \ {0} : block = mem \div (k + 1)
    <2>1. PICK b \in Nat \ {0} : b = k + 1
      OBVIOUS
    <2>2. mem \div b \in Nat
      BY <2>1, Division
    <2>3. mem \div (k + 1) > 0
      BY <1>1 DEF Merging
    <2>4. QED
      BY <2>1, <2>2, <2>3
  <1>3. /\ MergeType(m) /\ Len(m.out) = mem - k * block /\ RunsOf(tmp, m, runSize)
        /\ Buffers(tmp, m, runSize, block) /\ Written(tmp, m, runSize, f)
    BY <1>1, <1>2 DEF Merging
  <1>4. block = InputBuffer(FanIn)
    BY <1>1, <1>2 DEF InputBuffer, FanIn
  <1>5. m.live \subseteq 1..k /\ m.count < Len(m.out)
    BY <1>1, <1>3 DEF Buffers, Written
  <1>6. PICK i : i = Taken
    OBVIOUS
  <1>7. i \in m.live /\ \A j \in m.live : Offered(i) <= Offered(j)
    <2>1. \A j \in m.live : Offered(j) \in Nat
      BY <1>3, OfferedIsNext
    <2>2. QED
      BY <1>5, <1>6, <2>1, TakenIsLeast
  <1>8. MergeType(After) /\ Buffers(tmp, After, runSize, block) /\ Ascending(LoadedBlock)
    BY <1>3, <1>4, <1>5, <1>6, <1>7, AfterBuffers
  <1>9. /\ Written(tmp, After, runSize, Flushed(f)) /\ Flushed(f) \in Seq(Content)
        /\ Full => Ascending(TakenOut)
    BY <1>3, <1>6, <1>7, <1>8, AfterWritten
  <1>10. After.base = m.base /\ After.len = m.len /\ After.out = TakenOut
    <2>1. Offered(i) \in Content /\ i \in DOMAIN m.len /\ m.rem[i] > 0
      BY <1>3, <1>7, OfferedIsNext
    <2>2. QED
      BY <1>1, <1>3, <1>5, <1>6, <2>1, AfterFields
  <1>11. Len(After.out) = mem - k * block
    <2>1. m.out \in Seq(Content)
      BY <1>3, MergeFields
    <2>2. Len(TakenOut) = Len(m.out)
      BY <2>1 DEF TakenOut
    <2>3. QED
      BY <1>3, <1>10, <2>2
  <1>12. RunsOf(tmp, After, runSize)
    <2>1. \A j \in 1..k : Start(After, runSize, j) = Start(m, runSize, j)
      BY <1>10 DEF Start
    <2>2. Total(After, runSize) = Total(m, runSize)
      BY <1>10 DEF Total
    <2>3. QED
      BY <1>1, <1>3, <1>10, <2>1, <2>2 DEF RunsOf
  <1>13. Len(After.len) = k
    BY <1>1, <1>10
  <1>14. Merging(tmp, After, runSize, mem, Flushed(f))
    BY <1>2, <1>8, <1>9, <1>11, <1>12, <1>13 DEF Merging
  <1>15. QED
    BY <1>8, <1>9, <1>10, <1>14

(* The action MergeOne in these words. *)
LEMMA MergeOneInter ==
    ASSUME MergeOne(inter), MergeType(m)
    PROVE  /\ m.live # {} /\ m' = After /\ inter' = Flushed(inter)
           /\ failed' = (failed \/ ~(Ascending(LoadedBlock) /\ (Full => Ascending(TakenOut))))
  <1>1. Len(TakenOut) = Len(m.out)
    <2>1. m.out \in Seq(Content)
      BY MergeFields
    <2>2. QED
      BY <2>1 DEF TakenOut
  <1>2. Len([m.out EXCEPT ![m.count + 1] = Offered(Taken)]) = Len(m.out)
    BY <1>1 DEF TakenOut
  <1>3. QED
    BY <1>2 DEF MergeOne, After, Counted, Flushed, Full, LoadedBlock, TakenOut, Asserts

(* The same when the output file is what is written. *)
LEMMA MergeOneOutput ==
    ASSUME MergeOne(output), MergeType(m)
    PROVE  /\ m.live # {} /\ m' = After /\ output' = Flushed(output)
           /\ failed' = (failed \/ ~(Ascending(LoadedBlock) /\ (Full => Ascending(TakenOut))))
  <1>1. Len(TakenOut) = Len(m.out)
    <2>1. m.out \in Seq(Content)
      BY MergeFields
    <2>2. QED
      BY <2>1 DEF TakenOut
  <1>2. Len([m.out EXCEPT ![m.count + 1] = Offered(Taken)]) = Len(m.out)
    BY <1>1 DEF TakenOut
  <1>3. QED
    BY <1>2 DEF MergeOne, After, Counted, Flushed, Full, LoadedBlock, TakenOut, Asserts

(* At the end of a merge the file and the rest of the output buffer are the result. *)
LEMMA MergeEnd ==
    ASSUME NEW f \in Seq(Content), tmp \in Seq(Content), runSize \in Nat \ {0}, mem \in Nat,
           Merging(tmp, m, runSize, mem, f), m.live = {},
           NEW g, g = Write(f, m.writes * Len(m.out), Rest(Len(f)))
    PROVE  /\ g \in Seq(Content) /\ Len(g) = Len(f) /\ Len(f) = Total(m, runSize)
           /\ Rising(g, 0, Len(g)) /\ Ascending(Rest(Len(f)))
           /\ \A v \in Content :
                 Count(v, g, 1..Len(g)) = Count(v, tmp, m.base + 1 .. m.base + Len(g))
  <1>1. PICK k \in Nat \ {0} : k = Len(m.len) /\ DOMAIN m.len = 1..k
    BY MergeFields DEF Merging
  <1>2. PICK block \in Nat \ {0} : block = mem \div (k + 1)
    <2>1. PICK b \in Nat \ {0} : b = k + 1
      OBVIOUS
    <2>2. mem \div b \in Nat
      BY <2>1, Division
    <2>3. mem \div (k + 1) > 0
      BY <1>1 DEF Merging
    <2>4. QED
      BY <2>1, <2>2, <2>3
  <1>3. /\ MergeType(m) /\ RunsOf(tmp, m, runSize)
        /\ Buffers(tmp, m, runSize, block) /\ Written(tmp, m, runSize, f)
    BY <1>1, <1>2 DEF Merging
  <1>4. PICK L \in Nat : L = Len(f) /\ L = Total(m, runSize)
    BY <1>3 DEF Written
  <1>5. \A i \in DOMAIN m.len : m.rem[i] <= m.len[i] /\ m.rem[i] = 0
    <2>1. \A i \in 1..k : m.rem[i] <= m.len[i] /\ ~(m.rem[i] > 0)
      BY <1>1, <1>3 DEF Buffers
    <2>2. m.rem \in [1..k -> Nat]
      BY <1>1, <1>3, MergeFields
    <2>3. QED
      BY <1>1, <2>1, <2>2
  <1>6. Given(m, runSize) = m.base + 1 .. m.base + L
    BY <1>3, <1>4, <1>5, GivenAll
  <1>7. m.base \in Nat /\ m.out \in Seq(Content) /\ m.count \in Nat /\ m.writes \in Nat
    BY <1>3, MergeFields
  <1>8. Done(m) = L
    <2>1. PICK a \in Nat, b \in Nat : a = m.base /\ b = m.base + L
      BY <1>7
    <2>2. Cardinality(a + 1 .. b) = b - a
      BY <2>1, IntervalCount, SMTT(40)
    <2>3. Done(m) = Cardinality(Given(m, runSize))
      BY <1>3 DEF Written
    <2>4. QED
      BY <1>6, <2>1, <2>2, <2>3
  <1>9. PICK W \in Nat, c \in Nat, ww \in Nat : W = Len(m.out) /\ c = m.count /\ ww = m.writes * W
    <2>1. Len(m.out) \in Nat /\ m.writes * Len(m.out) \in Nat
      BY <1>7, NextBlock
    <2>2. QED
      BY <1>7, <2>1
  <1>10. c < W /\ L = ww + c
    BY <1>3, <1>8, <1>9 DEF Written, Done
  <1>11. L % W = c
    <2>1. W \in Nat \ {0} /\ c \in 0 .. W - 1
      BY <1>10
    <2>2. m.writes \in Nat /\ L = m.writes * W + c
      BY <1>7, <1>9, <1>10
    <2>3. QED
      BY <2>1, <2>2, DivisionUnique
  <1>12. PICK rest : rest = SubSeq(m.out, 0 + 1, c)
    OBVIOUS
  <1>13. Rest(Len(f)) = rest
    <2>1. 0 + 1 = 1
      OBVIOUS
    <2>2. QED
      BY <1>4, <1>9, <1>11, <1>12, <2>1 DEF Rest
  <1>14. rest \in Seq(Content) /\ Len(rest) = c /\ \A j \in 1..c : rest[j] = m.out[j]
    <2>1. 0 \in Nat /\ 0 <= c /\ c <= Len(m.out)
      BY <1>9, <1>10
    <2>2. /\ SubSeq(m.out, 0 + 1, c) \in Seq(Content) /\ Len(SubSeq(m.out, 0 + 1, c)) = c - 0
          /\ \A j \in 1 .. c - 0 : SubSeq(m.out, 0 + 1, c)[j] = m.out[0 + j]
      BY <1>7, <2>1, PartOf
    <2>3. c - 0 = c /\ \A j \in 1..c : 0 + j = j
      OBVIOUS
    <2>4. QED
      BY <1>12, <2>2, <2>3
  <1>15. /\ g \in Seq(Content) /\ Len(g) = L
         /\ \A j \in 1..L : g[j] = IF ww < j /\ j <= ww + c THEN rest[j - ww] ELSE f[j]
    <2>1. g = Write(f, ww, rest) /\ ww + Len(rest) <= Len(f)
      BY <1>4, <1>9, <1>10, <1>13, <1>14
    <2>2. /\ Write(f, ww, rest) \in Seq(Content) /\ Len(Write(f, ww, rest)) = Len(f)
          /\ \A i \in 1..Len(f) :
                Write(f, ww, rest)[i] =
                   IF ww < i /\ i <= ww + Len(rest) THEN rest[i - ww] ELSE f[i]
      <3>1. rest \in Seq(Content) /\ ww \in Nat
        BY <1>14
      <3>2. QED
        BY <2>1, <3>1, WriteInside
    <2>3. Len(rest) = c /\ Len(f) = L
      BY <1>4, <1>14
    <2>4. QED
      BY <2>1, <2>2, <2>3
  <1>16. PICK R : R = Result(m, f)
    OBVIOUS
  <1>17. \A j \in 1..L : R[j] = IF j <= ww THEN f[j] ELSE m.out[j - ww]
    <2>1. ResultIs(m, f, ww)
      <3>1. \A i \in DOMAIN m.len : m.rem[i] <= m.len[i]
        BY <1>5
      <3>2. ww = m.writes * Len(m.out)
        BY <1>9
      <3>3. QED
        BY <1>3, <3>1, <3>2, DoneFits
    <2>2. QED
      BY <1>8, <1>16, <2>1 DEF ResultIs
  <1>18. \A j \in 1..L : g[j] = R[j]
    <2> SUFFICES ASSUME NEW j \in 1..L PROVE g[j] = R[j]
      OBVIOUS
    <2>1. CASE j <= ww
      BY <1>15, <1>17, <2>1
    <2>2. CASE ~(j <= ww)
      <3>1. j - ww \in 1..c /\ ww < j /\ j <= ww + c
        BY <1>10, <2>2
      <3>2. QED
        BY <1>14, <1>15, <1>17, <2>2, <3>1
    <2>3. QED
      BY <2>1, <2>2
  <1>19. Rising(R, 0, L)
    BY <1>3, <1>8, <1>16 DEF Written
  <1>20. Rising(g, 0, L)
    <2>1. \A p \in 0 + 1 .. L - 1 : g[p] = R[p] /\ g[p + 1] = R[p + 1]
      BY <1>18
    <2>2. QED
      BY <1>19, <2>1 DEF Rising
  <1>21. Ascending(rest)
    <2>1. \A j \in 1..c : rest[j] = g[ww + j]
      <3> SUFFICES ASSUME NEW j \in 1..c PROVE rest[j] = g[ww + j]
        OBVIOUS
      <3>1. ww + j \in 1..L /\ ww < ww + j /\ ww + j <= ww + c /\ ww + j - ww = j
        BY <1>10
      <3>2. QED
        BY <1>15, <3>1
    <2>2. 0 \in Nat /\ c - 0 <= L - ww /\ 0 <= ww
      BY <1>10
    <2>3. Rising(g, ww, L)
      BY <1>20, <2>2, RisingPart
    <2>4. Rising(rest, 0, c)
      <3> SUFFICES ASSUME NEW p \in 1 .. c - 1 PROVE rest[p] <= rest[p + 1]
        BY DEF Rising
      <3>1. p \in 1..c /\ p + 1 \in 1..c /\ ww + p \in ww + 1 .. L - 1 /\ ww + (p + 1) = (ww + p) + 1
        BY <1>10
      <3>2. rest[p] = g[ww + p] /\ rest[p + 1] = g[(ww + p) + 1]
        BY <2>1, <3>1
      <3>3. g[ww + p] <= g[(ww + p) + 1]
        BY <2>3, <3>1 DEF Rising
      <3>4. QED
        BY <3>2, <3>3
    <2>5. QED
      BY <1>14, <2>4, WholeAscends
  <1>22. ASSUME NEW v \in Content PROVE Count(v, g, 1..L) = Count(v, tmp, m.base + 1 .. m.base + L)
    <2>1. Count(v, g, 1..L) = Count(v, R, 1..L)
      BY <1>18, CountSame
    <2>2. Count(v, R, 1..L) = Count(v, tmp, Given(m, runSize))
      BY <1>3, <1>8, <1>16 DEF Written
    <2>3. QED
      BY <1>6, <2>1, <2>2
  <1>23. QED
    BY <1>4, <1>13, <1>15, <1>20, <1>21, <1>22

------------------------------------------------------------------------------
(* The beginning of a merge. *)

(* The memory is cut into buffers that are not empty. *)
LEMMA BufferSizes ==
    ASSUME NEW k \in Nat \ {0}, mem \in Nat, InputBuffer(k) > 0
    PROVE  /\ InputBuffer(k) \in Nat \ {0} /\ OutBuffer(k) \in Nat \ {0}
           /\ OutBuffer(k) = mem - k * InputBuffer(k)
  <1>1. PICK b \in Nat \ {0} : b = k + 1
    OBVIOUS
  <1>2. mem \div b \in Nat /\ mem % b \in 0 .. b - 1 /\ mem = (mem \div b) * b + (mem % b)
    BY Division
  <1>3. PICK block \in Nat : block = mem \div b
    BY <1>2
  <1>4. InputBuffer(k) = block /\ block > 0
    BY <1>1, <1>3 DEF InputBuffer
  <1>5. PICK r \in Nat : r = mem % b
    BY <1>2
  <1>6. (k + 1) * block = k * block + block /\ k * block \in Nat
    BY NextBlock
  <1>7. PICK c \in Nat : c = k * block
    BY <1>6
  <1>8. block * b = c + block
    BY <1>1, <1>6, <1>7
  <1>9. mem = c + block + r
    BY <1>2, <1>3, <1>5, <1>8
  <1>10. OutBuffer(k) = mem - c
    BY <1>4, <1>7 DEF OutBuffer
  <1>11. mem - c \in Nat \ {0}
    BY <1>4, <1>9
  <1>12. QED
    BY <1>4, <1>7, <1>10, <1>11

(***************************************************************************)
(* A merge that has not given anything away: every buffer holds the first  *)
(* block of its run, and offers the first value of it.                     *)
(***************************************************************************)
Fresh(t, mm, base, lengths, size, memory, k, block) ==
    /\ MergeType(mm) /\ mm.base = base /\ mm.len = lengths
    /\ k \in Nat \ {0} /\ block \in Nat \ {0}
    /\ Len(mm.out) = memory - k * block /\ Len(mm.out) \in Nat \ {0}
    /\ mm.rem = lengths /\ mm.live = 1..k /\ mm.count = 0 /\ mm.writes = 0
    /\ \A i \in 1..k :
          /\ mm.push[i] = 1 /\ mm.read[i] = block
          /\ mm.buf[i] = Read(t, base + (i - 1) * size, block, Blank(block))
          /\ Len(mm.buf[i]) = block

(* What a merge begins with. *)
LEMMA LoadedFields ==
    ASSUME NEW base \in Nat, NEW lengths \in Seq(Nat \ {0}), lengths # <<>>,
           NEW k, k = Len(lengths), NEW block, block = InputBuffer(k), block > 0,
           tmp \in Seq(Content), runSize \in Nat, mem \in Nat,
           NEW mm, mm = Loaded(base, lengths)
    PROVE  Fresh(tmp, mm, base, lengths, runSize, mem, k, block)
  <1>1. lengths \in [1..k -> Nat \ {0}] /\ DOMAIN lengths = 1..k /\ k \in Nat
    BY ListFunction
  <1>2. k \in Nat \ {0}
    BY <1>1
  <1>3. block \in Nat \ {0} /\ OutBuffer(k) \in Nat \ {0} /\ OutBuffer(k) = mem - k * block
    BY <1>2, BufferSizes
  <1>4. PICK out : out = Blank(OutBuffer(k))
    OBVIOUS
  <1>5. out \in Seq(Content) /\ Len(out) = mem - k * block /\ Len(out) \in Nat \ {0}
    BY <1>3, <1>4, BlankContent
  <1>6. PICK buf : buf = [i \in 1..k |-> Read(tmp, base + (i - 1) * runSize, block, Blank(block))]
    OBVIOUS
  <1>7. ASSUME NEW i \in 1..k
        PROVE  /\ Read(tmp, base + (i - 1) * runSize, block, Blank(block)) \in Seq(Content)
               /\ Len(Read(tmp, base + (i - 1) * runSize, block, Blank(block))) = block
    <2>1. PICK a \in Nat : a = base + (i - 1) * runSize
      <3>1. PICK j \in Nat : j = i - 1
        BY <1>2
      <3>2. j * runSize \in Nat
        BY NextBlock
      <3>3. QED
        BY <3>1, <3>2
    <2>2. Blank(block) \in Seq(Content) /\ Len(Blank(block)) = block
      BY <1>3, BlankContent
    <2>3. block \in Int
      BY <1>3
    <2>4. /\ Read(tmp, a, block, Blank(block)) \in Seq(Content)
          /\ Len(Read(tmp, a, block, Blank(block))) = Len(Blank(block))
      BY <2>2, <2>3, ReadBlock
    <2>5. QED
      BY <2>1, <2>2, <2>4
  <1>8. buf \in Seq(Seq(Content)) /\ Len(buf) = k
    <2>1. buf \in [1..k -> Seq(Content)]
      BY <1>6, <1>7
    <2>2. QED
      BY <1>2, <2>1
  <1>9. PICK push : push = [i \in 1..k |-> 1]
    OBVIOUS
  <1>10. PICK read : read = [i \in 1..k |-> block]
    OBVIOUS
  <1>11. push \in Seq(Nat) /\ Len(push) = k /\ read \in Seq(Nat) /\ Len(read) = k
    BY <1>2, <1>3, <1>9, <1>10
  <1>12. mm = [base |-> base, len |-> lengths, rem |-> lengths, buf |-> buf, push |-> push,
               read |-> read, live |-> 1..k, out |-> out, count |-> 0, writes |-> 0]
    BY <1>1, <1>4, <1>6, <1>9, <1>10 DEF Loaded
  <1>13. /\ mm.base = base /\ mm.len = lengths /\ mm.rem = lengths /\ mm.buf = buf
         /\ mm.push = push /\ mm.read = read /\ mm.live = 1..k /\ mm.out = out
         /\ mm.count = 0 /\ mm.writes = 0
    BY <1>12
  <1>14. MergeType(mm)
    <2>1. lengths \in Seq(Nat) /\ 1..k \in SUBSET Nat
      BY <1>1, <1>2
    <2>2. mm \in [base : Nat, len : Seq(Nat \ {0}), rem : Seq(Nat), buf : Seq(Seq(Content)),
                  push : Seq(Nat), read : Seq(Nat), live : SUBSET Nat, out : Seq(Content),
                  count : Nat, writes : Nat]
      BY <1>5, <1>8, <1>11, <1>12, <2>1
    <2>3. QED
      BY <1>8, <1>11, <1>13, <2>2 DEF MergeType
  <1>15. ASSUME NEW i \in 1..k
         PROVE  /\ mm.push[i] = 1 /\ mm.read[i] = block
                /\ mm.buf[i] = Read(tmp, base + (i - 1) * runSize, block, Blank(block))
                /\ Len(mm.buf[i]) = block
    BY <1>6, <1>7, <1>9, <1>10, <1>13
  <1>16. QED
    BY <1>2, <1>3, <1>5, <1>13, <1>14, <1>15 DEF Fresh

(* A merge begins with the first block of every run, and nothing given away. *)
LEMMA LoadedMerging ==
    ASSUME NEW base \in Nat, NEW lengths \in Seq(Nat \ {0}), lengths # <<>>,
           tmp \in Seq(Content), runSize \in Nat, mem \in Nat, InputBuffer(Len(lengths)) > 0,
           NEW mm, mm = Loaded(base, lengths), RunsOf(tmp, mm, runSize),
           NEW file \in Seq(Content), Len(file) = Total(mm, runSize)
    PROVE  Merging(tmp, mm, runSize, mem, file)
  <1>1. PICK k, block : k = Len(lengths) /\ block = InputBuffer(k)
    OBVIOUS
  <1>2. /\ MergeType(mm) /\ mm.base = base /\ mm.len = lengths
        /\ k \in Nat \ {0} /\ block \in Nat \ {0}
        /\ Len(mm.out) = mem - k * block /\ Len(mm.out) \in Nat \ {0}
        /\ mm.rem = lengths /\ mm.live = 1..k /\ mm.count = 0 /\ mm.writes = 0
        /\ \A i \in 1..k :
              /\ mm.push[i] = 1 /\ mm.read[i] = block
              /\ mm.buf[i] = Read(tmp, base + (i - 1) * runSize, block, Blank(block))
              /\ Len(mm.buf[i]) = block
    <2>1. block > 0
      BY <1>1
    <2>2. Fresh(tmp, mm, base, lengths, runSize, mem, k, block)
      BY <1>1, <2>1, LoadedFields
    <2>3. QED
      BY <2>2 DEF Fresh
  <1>3. DOMAIN mm.len = 1..k /\ mm.len \in [1..k -> Nat \ {0}]
    BY <1>1, <1>2, ListFunction, SMTT(40)
  <1>4. \A i \in 1..k : mm.len[i] \in Nat \ {0} /\ mm.rem[i] = mm.len[i] /\ Gone(mm, i) = 0
    <2> SUFFICES ASSUME NEW i \in 1..k
                 PROVE  mm.len[i] \in Nat \ {0} /\ mm.rem[i] = mm.len[i] /\ Gone(mm, i) = 0
      OBVIOUS
    <2>1. PICK l \in Nat \ {0} : l = mm.len[i]
      BY <1>3
    <2>2. mm.rem[i] = l
      BY <1>2, <2>1
    <2>3. QED
      BY <2>1, <2>2 DEF Gone
  <1>5. ASSUME NEW i \in 1..k PROVE BufferOf(tmp, mm, runSize, block, i)
    <2>1. PICK a \in Nat, l \in Nat : a = Start(mm, runSize, i) /\ l = mm.len[i]
      <3>1. i \in DOMAIN mm.len
        BY <1>3
      <3>2. Start(mm, runSize, i) \in Nat
        BY <1>2, <3>1, StartOrder
      <3>3. QED
        BY <1>4, <3>2
    <2>2. a + l <= Len(tmp)
      <3>1. i \in DOMAIN mm.len
        BY <1>3
      <3>2. /\ Start(mm, runSize, i) + mm.len[i] <= mm.base + Total(mm, runSize)
            /\ Total(mm, runSize) \in Nat
        BY <1>2, <3>1, StartOrder
      <3>3. mm.base + Total(mm, runSize) <= Len(tmp)
        BY DEF RunsOf
      <3>4. Len(tmp) \in Nat
        BY ContentNumbers
      <3>5. QED
        BY <1>2, <2>1, <3>2, <3>3, <3>4, SMTT(40)
    <2>3. mm.buf[i] = Read(tmp, a, block, Blank(block))
      BY <1>2, <2>1 DEF Start
    <2>4. /\ Len(Blank(block)) = block
          /\ \A j \in 1..block :
                mm.buf[i][j] = IF j <= block /\ a + j <= Len(tmp) THEN tmp[a + j] ELSE Blank(block)[j]
      <3>1. Blank(block) \in Seq(Content) /\ Len(Blank(block)) = block
        BY <1>2, BlankContent
      <3>2. block \in Int
        BY <1>2
      <3>3. \A j \in 1..Len(Blank(block)) :
               Read(tmp, a, block, Blank(block))[j] =
                  IF j <= block /\ a + j <= Len(tmp) THEN tmp[a + j] ELSE Blank(block)[j]
        <4>1. PICK buf \in Seq(Content) : buf = Blank(block)
          BY <3>1
        <4>2. \A j \in 1..Len(buf) :
                 Read(tmp, a, block, buf)[j] =
                    IF j <= block /\ a + j <= Len(tmp) THEN tmp[a + j] ELSE buf[j]
          <5> TAKE j \in 1..Len(buf)
          <5>1. QED
            BY <3>2, ReadElement
        <4>3. QED
          BY <4>1, <4>2
      <3>4. QED
        BY <2>3, <3>1, <3>3
    <2>5. \A j \in 1..block : 0 + j <= l => mm.buf[i][j] = tmp[a + 0 + j]
      <3> SUFFICES ASSUME NEW j \in 1..block, j <= l PROVE mm.buf[i][j] = tmp[a + j]
        OBVIOUS
      <3>1. j <= block /\ a + j <= Len(tmp)
        <4>1. Len(tmp) \in Nat
          BY ContentNumbers
        <4>2. QED
          BY <2>2, <4>1
      <3>2. QED
        BY <2>4, <3>1
    <2>6. Gone(mm, i) - mm.push[i] + 1 = 0
      BY <1>2, <1>4
    <2>7. mm.push[i] \in 1..block /\ mm.read[i] = 0 + block
      BY <1>2
    <2>8. QED
      BY <2>1, <2>5, <2>6, <2>7, SMTT(40) DEF BufferOf
  <1>6. Buffers(tmp, mm, runSize, block)
    <2>1. \A i \in DOMAIN mm.len : mm.rem[i] <= mm.len[i] /\ Len(mm.buf[i]) = block
      BY <1>2, <1>3, <1>4, SMTT(40)
    <2>2. mm.live = {i \in DOMAIN mm.len : mm.rem[i] > 0}
      BY <1>2, <1>3, <1>4
    <2>3. QED
      BY <1>2, <1>5, <2>1, <2>2 DEF Buffers
  <1>7. Given(mm, runSize) = {}
    <2>1. ASSUME NEW i \in 1..k
          PROVE  Start(mm, runSize, i) + 1 .. Start(mm, runSize, i) + Gone(mm, i) = {}
      <3>1. i \in DOMAIN mm.len
        BY <1>3
      <3>2. PICK a \in Nat : a = Start(mm, runSize, i)
        BY <1>2, <3>1, StartOrder
      <3>3. a + 1 .. a + 0 = {}
        OBVIOUS
      <3>4. QED
        BY <1>4, <3>2, <3>3
    <2>2. QED
      BY <1>3, <2>1 DEF Given
  <1>8. Done(mm) = 0
    <2>1. PICK w \in Nat : w = Len(mm.out)
      BY <1>2
    <2>2. 0 * w + 0 = 0
      OBVIOUS
    <2>3. QED
      BY <1>2, <2>1, <2>2 DEF Done
  <1>9. Written(tmp, mm, runSize, file)
    <2>1. 1..0 = {} /\ Cardinality({}) = 0
      BY FS_EmptySet
    <2>2. \A v \in Content :
             Count(v, Result(mm, file), 1..Done(mm)) = Count(v, tmp, Given(mm, runSize))
      <3> SUFFICES ASSUME NEW v \in Content
                   PROVE  Count(v, Result(mm, file), {}) = Count(v, tmp, {})
        BY <1>7, <1>8, <2>1
      <3>1. {p \in {} : Result(mm, file)[p] = v} = {} /\ {p \in {} : tmp[p] = v} = {}
        OBVIOUS
      <3>2. QED
        BY <3>1 DEF Count
    <2>3. Rising(Result(mm, file), 0, 0)
      BY DEF Rising
    <2>4. mm.count < Len(mm.out)
      BY <1>2
    <2>5. QED
      BY <1>7, <1>8, <2>1, <2>2, <2>3, <2>4 DEF Written
  <1>10. block = mem \div (Len(mm.len) + 1) /\ Len(mm.len) = k
    BY <1>1, <1>2 DEF InputBuffer
  <1>11. QED
    BY <1>2, <1>6, <1>9, <1>10 DEF Merging

------------------------------------------------------------------------------
(* The steps of external_sort. *)

(* What the types say of the single variables. *)
LEMMA TypeFacts ==
    ASSUME TypeInv
    PROVE  /\ input \in Seq(Content) /\ Len(input) \in Nat /\ n \in Nat /\ n <= Len(input)
           /\ mem \in Nat \ {0} /\ mem >= 3
           /\ runs \in Nat /\ runSize \in Nat /\ lastSize \in Nat /\ it \in Nat /\ its \in Nat
  <1>1. input \in Seq(Values)
    BY SortAssumption DEF TypeInv
  <1>2. input \in Seq(Content) /\ Len(input) \in Nat
    BY <1>1 DEF Content
  <1>3. n \in Nat /\ n <= Len(input)
    <2>1. n \in 0..Len(input)
      BY DEF TypeInv
    <2>2. PICK l \in Nat : l = Len(input)
      BY <1>2
    <2>3. QED
      BY <2>1, <2>2
  <1>4. mem \in Nat /\ mem >= 3
    BY SortAssumption DEF TypeInv
  <1>5. runs \in Nat /\ runSize \in Nat /\ lastSize \in Nat /\ it \in Nat /\ its \in Nat
    BY DEF TypeInv
  <1>6. mem \in Nat \ {0}
    BY <1>4
  <1>7. QED
    BY <1>2, <1>3, <1>4, <1>5, <1>6

(* Nothing agrees with nothing. *)
LEMMA AgreeNothing ==
    ASSUME NEW f, NEW g
    PROVE  Agree(f, g, 0)
  <1> SUFFICES ASSUME NEW v \in Content PROVE Count(v, f, 1..0) = Count(v, g, 1..0)
    BY DEF Agree
  <1>1. 1..0 = {}
    OBVIOUS
  <1>2. {p \in {} : f[p] = v} = {} /\ {p \in {} : g[p] = v} = {}
    OBVIOUS
  <1>3. QED
    BY <1>1, <1>2 DEF Count

(* The files agree in the words of the property. *)
LEMMA SameFromAgree ==
    ASSUME NEW f \in Seq(Content), NEW g \in Seq(Content), Len(f) <= Len(g), Agree(f, g, Len(f))
    PROVE  SameValues(f, SubSeq(g, 1, Len(f)))
  <1>1. PICK k \in Nat : k = Len(f) /\ DOMAIN f = 1..k /\ \A p \in 1..k : f[p] \in Content
    BY ContentNumbers
  <1>2. PICK t : t = SubSeq(g, 0 + 1, k)
    OBVIOUS
  <1>3. /\ t \in Seq(Content) /\ Len(t) = k - 0
        /\ \A p \in 1 .. k - 0 : t[p] = g[0 + p]
    <2>1. 0 \in Nat /\ 0 <= k /\ k <= Len(g)
      BY <1>1
    <2>2. /\ SubSeq(g, 0 + 1, k) \in Seq(Content) /\ Len(SubSeq(g, 0 + 1, k)) = k - 0
          /\ \A p \in 1 .. k - 0 : SubSeq(g, 0 + 1, k)[p] = g[0 + p]
      BY <2>1, PartOf
    <2>3. QED
      BY <1>2, <2>2
  <1>4. Len(t) = k /\ DOMAIN t = 1..k /\ \A p \in 1..k : t[p] = g[p] /\ t[p] \in Content
    <2>1. Len(t) = k /\ \A p \in 1..k : t[p] = g[p]
      BY <1>3
    <2>2. QED
      BY <1>3, <2>1, ContentNumbers
  <1>5. ToSet(f) \cup ToSet(t) \subseteq Content
    BY <1>1, <1>4 DEF ToSet
  <1>6. ASSUME NEW v \in Content PROVE Occurrences(v, f) = Occurrences(v, t)
    <2>1. Occurrences(v, f) = Count(v, f, 1..k)
      BY <1>1 DEF Occurrences, Count
    <2>2. Occurrences(v, t) = Count(v, t, 1..k)
      BY <1>4 DEF Occurrences, Count
    <2>3. Count(v, t, 1..k) = Count(v, g, 1..k)
      BY <1>4, CountSame
    <2>4. Count(v, f, 1..k) = Count(v, g, 1..k)
      BY <1>1 DEF Agree
    <2>5. QED
      BY <2>1, <2>2, <2>3, <2>4
  <1>7. SubSeq(g, 1, Len(f)) = t
    <2>1. 0 + 1 = 1
      OBVIOUS
    <2>2. QED
      BY <1>1, <1>2, <2>1
  <1>8. QED
    BY <1>1, <1>4, <1>5, <1>6, <1>7 DEF SameValues

(* How the values of a file are divided into runs of one size. *)
LEMMA CeilDivLast ==
    ASSUME n \in Nat \ {0}, NEW size \in Nat \ {0}, NEW k, k = CeilDiv(n, size),
           NEW l, l = LastOf(k, size)
    PROVE  k \in Nat \ {0} /\ l \in 1..size /\ (k - 1) * size + l = n
  <1>1. PICK q \in Nat, r \in 0 .. size - 1 : q = (n - 1) \div size /\ n - 1 = q * size + r
    <2>1. PICK a \in Nat : a = n - 1
      OBVIOUS
    <2>2. a \div size \in Nat /\ a % size \in 0 .. size - 1 /\ a = (a \div size) * size + (a % size)
      BY Division
    <2>3. QED
      BY <2>1, <2>2
  <1>2. k = q + 1
    BY <1>1 DEF CeilDiv
  <1>3. (q + 1) * size = q * size + size /\ q * size \in Nat
    BY NextBlock
  <1>4. PICK c \in Nat : c = q * size
    BY <1>3
  <1>5. k * size = c + size /\ (k - 1) * size = c
    BY <1>2, <1>3, <1>4
  <1>6. l = IF n = c + size THEN size ELSE n - c
    BY <1>5 DEF LastOf
  <1>7. n = c + r + 1
    BY <1>1, <1>4
  <1>8. l = r + 1
    BY <1>6, <1>7
  <1>9. QED
    BY <1>2, <1>5, <1>7, <1>8

(* A number that is not less than the divisor is divided at least once. *)
LEMMA DividedOnce ==
    ASSUME NEW a \in Nat, NEW b \in Nat \ {0}, b <= a
    PROVE  a \div b \in Nat /\ a \div b > 0
  <1>1. PICK q \in Nat, r \in 0 .. b - 1 : q = a \div b /\ a = q * b + r
    BY Division
  <1>2. q # 0
    <2>1. SUFFICES ASSUME q = 0 PROVE FALSE
      OBVIOUS
    <2>2. q * b = 0
      BY <2>1
    <2>3. QED
      BY <1>1, <2>2
  <1>3. QED
    BY <1>1, <1>2

(***************************************************************************)
(* A file of runs is what sort_phase_done asks for: no run but the last is *)
(* cut by the blocks it looks at, and within the last run every block      *)
(* ascends.                                                                *)
(***************************************************************************)
LEMMA RunsPhaseDone ==
    ASSUME n \in Nat, NEW f \in Seq(Content), Len(f) = n,
           NEW k, NEW size, NEW last, Runs(f, n, k, size, last, 0)
    PROVE  SortPhaseDone(f, size)
  <1>1. /\ k \in Nat \ {0} /\ size \in Nat \ {0} /\ last \in Nat \ {0}
        /\ (k - 1) * size + last = n
        /\ \A i \in 0 .. k - 2 : Rising(f, i * size, (i + 1) * size)
        /\ Rising(f, (k - 1) * size, n)
    BY DEF Runs
  <1>2. PICK c \in Nat : c = (k - 1) * size
    <2>1. PICK j \in Nat : j = k - 1
      BY <1>1
    <2>2. j * size \in Nat
      BY <1>1, NextBlock
    <2>3. QED
      BY <2>1, <2>2
  <1>3. n \in Nat \ {0}
    BY <1>1, <1>2
  <1>4. PICK b, l : b = CeilDiv(n, size) /\ l = LastOf(b, size)
    OBVIOUS
  <1>5. b \in Nat \ {0} /\ l \in 1..size /\ (b - 1) * size + l = n
    BY <1>1, <1>3, <1>4, CeilDivLast
  <1>6. ASSUME NEW i \in 0 .. b - 1, NEW a \in Nat, NEW e \in Nat,
               a = i * size, a <= e, e <= n, e <= a + size,
               i = b - 1 => e = n
        PROVE  Rising(f, a, e)
    <2>1. CASE i <= k - 2
      <3>1. Rising(f, i * size, (i + 1) * size)
        BY <1>1, <2>1
      <3>2. (i + 1) * size = a + size
        BY <1>1, <1>6, NextBlock
      <3>3. Rising(f, a, a + size)
        BY <1>6, <3>1, <3>2
      <3>4. a + size \in Nat
        BY <1>1
      <3>5. QED
        BY <1>6, <3>3, <3>4, RisingPart
    <2>2. CASE ~(i <= k - 2)
      <3>1. c <= a
        <4>1. PICK j \in Nat : j = k - 1 /\ j <= i
          BY <1>1, <2>2
        <4>2. CASE j = i
          BY <1>2, <1>6, <4>1, <4>2
        <4>3. CASE j < i
          <5>1. j * size + size <= i * size
            BY <1>1, <4>3, BlockOrder
          <5>2. QED
            BY <1>1, <1>2, <1>6, <4>1, <5>1
        <4>4. QED
          BY <4>1, <4>2, <4>3
      <3>2. Rising(f, c, n)
        BY <1>1, <1>2
      <3>3. QED
        BY <1>6, <3>1, <3>2, RisingPart
    <2>3. QED
      BY <2>1, <2>2
  <1>7. ASSUME NEW i \in 0 .. b - 2 PROVE Ascending(SubSeq(f, i * size + 1, (i + 1) * size))
    <2>1. (i + 1) * size = i * size + size /\ i * size \in Nat
      BY <1>1, NextBlock
    <2>2. PICK a \in Nat, e \in Nat : a = i * size /\ e = (i + 1) * size /\ e = a + size
      BY <1>1, <2>1
    <2>3. e <= n
      <3>1. PICK j \in Nat : j = b - 1 /\ i < j
        BY <1>5
      <3>2. i * size + size <= j * size
        BY <1>1, <3>1, BlockOrder, SMTT(40)
      <3>3. PICK d \in Nat : d = j * size
        BY <1>1, <3>1, NextBlock
      <3>4. QED
        BY <1>5, <2>2, <3>1, <3>2, <3>3
    <2>4. i \in 0 .. b - 1 /\ a <= e /\ e <= a + size /\ i # b - 1
      BY <1>1, <1>5, <2>2
    <2>5. Rising(f, a, e)
      BY <1>6, <2>2, <2>3, <2>4
    <2>6. Ascending(SubSeq(f, a + 1, e))
      BY <2>3, <2>4, <2>5, PartAscends
    <2>7. QED
      BY <2>2, <2>6
  <1>8. Ascending(SubSeq(f, (b - 1) * size + 1, (b - 1) * size + l))
    <2>1. PICK i \in Nat : i = b - 1
      BY <1>5
    <2>2. PICK a \in Nat : a = i * size
      BY <1>1, NextBlock
    <2>3. a + l = n
      BY <1>5, <2>1, <2>2
    <2>4. i \in 0 .. b - 1 /\ a <= n /\ n <= n /\ n <= a + size
      BY <1>1, <1>5, <2>1, <2>3
    <2>5. Rising(f, a, n)
      BY <1>6, <2>2, <2>4
    <2>6. Ascending(SubSeq(f, a + 1, n))
      BY <2>4, <2>5, PartAscends
    <2>7. QED
      BY <2>1, <2>2, <2>3, <2>6
  <1>9. l <= size
    BY <1>1, <1>5
  <1>10. QED
    BY <1>4, <1>7, <1>8, <1>9 DEF SortPhaseDone

(***************************************************************************)
(* The output of a sort that is done: it has the place of the first values *)
(* of the input, ascends and agrees with them.                             *)
(***************************************************************************)
Finished(file, total) ==
    /\ file \in Seq(Content) /\ Len(file) = total
    /\ Rising(file, 0, total) /\ Agree(file, input, total)

(* Such an output is what the property asks for. *)
LEMMA FinishedSorted ==
    ASSUME NEW f, NEW k, k \in Nat, k <= Len(input), input \in Seq(Content), Finished(f, k)
    PROVE  Ascending(f) /\ SameValues(f, SubSeq(input, 1, k))
  <1>1. f \in Seq(Content) /\ Len(f) = k /\ Rising(f, 0, k) /\ Agree(f, input, k)
    BY DEF Finished
  <1>2. Ascending(f)
    BY <1>1, WholeAscends
  <1>3. SameValues(f, SubSeq(input, 1, Len(f)))
    BY <1>1, SameFromAgree
  <1>4. QED
    BY <1>1, <1>2, <1>3

(* The step with which external_sort is done. *)
LEMMA DoneStep ==
    ASSUME IInv, pc' = "done", Finished(output', n), failed' = FALSE,
           tmp' = tmp, inter' = inter,
           UNCHANGED <<input, n, mem, runs, runSize, lastSize, it, its>>
    PROVE  IInv'
  <1>1. TypeInv /\ input \in Seq(Content) /\ n \in Nat /\ n <= Len(input)
    BY TypeFacts DEF IInv
  <1>2. output' \in Seq(Content)
    BY DEF Finished
  <1>3. TypeInv'
    BY <1>1, <1>2 DEF TypeInv
  <1>4. SortInv' /\ RunsInv' /\ MergeInv'
    BY DEF SortInv, RunsInv, MergeInv
  <1>5. Ascending(output') /\ SameValues(output', SubSeq(input, 1, n))
    BY <1>1, FinishedSorted
  <1>6. OutputSorted'
    BY <1>5 DEF OutputSorted
  <1>7. AssertionsHold'
    BY DEF AssertionsHold
  <1>8. QED
    BY <1>3, <1>4, <1>6, <1>7 DEF IInv

(* Initially nothing is said but the types. *)
LEMMA InitStep == Init => IInv
  <1> SUFFICES ASSUME Init PROVE IInv
    OBVIOUS
  <1>1. PICK s \in Nat : n = Len(input) - s /\ n >= 0
    BY SortAssumption DEF Init
  <1>2. input \in Inputs /\ mem \in MemSizes
    BY DEF Init
  <1>3. PICK l \in Nat : l = Len(input)
    <2>1. input \in Seq(Values)
      BY <1>2, SortAssumption
    <2>2. QED
      BY <2>1
  <1>4. n \in 0..Len(input)
    BY <1>1, <1>3
  <1>5. TypeInv
    <2>1. <<>> \in Seq(Content)
      OBVIOUS
    <2>2. QED
      BY <1>2, <1>4, <2>1 DEF Init, TypeInv
  <1>6. SortInv /\ RunsInv /\ MergeInv /\ OutputSorted /\ AssertionsHold
    BY DEF Init, SortInv, RunsInv, MergeInv, OutputSorted, AssertionsHold
  <1>7. QED
    BY <1>5, <1>6 DEF IInv

(* With nothing to sort the output is empty. *)
LEMMA SortNothingStep == IInv /\ SortNothing => IInv'
  <1> SUFFICES ASSUME IInv, SortNothing PROVE IInv'
    OBVIOUS
  <1>1. output' = <<>> /\ n = 0 /\ pc' = "done"
    BY DEF SortNothing
  <1>2. Finished(<<>>, 0)
    <2>1. Rising(<<>>, 0, 0)
      BY DEF Rising
    <2>2. Agree(<<>>, input, 0)
      BY AgreeNothing
    <2>3. QED
      BY <2>1, <2>2 DEF Finished
  <1>3. failed' = FALSE
    BY DEF IInv, AssertionsHold, SortNothing
  <1>4. tmp' = tmp /\ inter' = inter /\ UNCHANGED <<input, n, mem, runs, runSize, lastSize, it, its>>
    BY DEF SortNothing
  <1>5. QED
    BY <1>1, <1>2, <1>3, <1>4, DoneStep

(* A block that is read, sorted and has the size that was read. *)
LEMMA SortedBlock ==
    ASSUME NEW f \in Seq(Content), NEW a \in Nat, NEW size \in Nat, a + size <= Len(f),
           NEW s, s = Sorted(Read(f, a, size, Blank(size)))
    PROVE  /\ s \in Seq(Content) /\ Len(s) = size /\ Rising(s, 0, size)
           /\ \A v \in Content : Count(v, s, 1..size) = Count(v, f, a + 1 .. a + size)
  <1>1. PICK buf : buf = Blank(size)
    OBVIOUS
  <1>2. buf \in Seq(Content) /\ Len(buf) = size
    BY <1>1, BlankContent
  <1>3. PICK r : r = Read(f, a, size, buf)
    OBVIOUS
  <1>4. /\ r \in Seq(Content) /\ Len(r) = size
        /\ \A i \in 1..size : r[i] = IF i <= size /\ a + i <= Len(f) THEN f[a + i] ELSE buf[i]
    <2>1. size \in Int
      OBVIOUS
    <2>2. /\ Read(f, a, size, buf) \in Seq(Content)
          /\ Len(Read(f, a, size, buf)) = Len(buf)
          /\ \A i \in 1..Len(buf) :
                Read(f, a, size, buf)[i] =
                   IF i <= size /\ a + i <= Len(f) THEN f[a + i] ELSE buf[i]
      BY <1>2, <2>1, ReadBlock
    <2>3. QED
      BY <1>2, <1>3, <2>2
  <1>5. \A i \in 1..size : r[i] = f[a + i]
    <2> SUFFICES ASSUME NEW i \in 1..size PROVE r[i] = f[a + i]
      OBVIOUS
    <2>1. PICK l \in Nat : l = Len(f)
      BY ContentNumbers
    <2>2. i <= size /\ a + i <= Len(f)
      BY <2>1
    <2>3. QED
      BY <1>4, <2>2
  <1>6. /\ s \in Seq(Content) /\ Len(s) = Len(r) /\ Rising(s, 0, Len(r))
        /\ \A v \in Content : Count(v, s, 1..Len(r)) = Count(v, r, 1..Len(r))
    <2>1. s = Sorted(r)
      BY <1>1, <1>3
    <2>2. QED
      BY <1>4, <2>1, SortedProperties
  <1>7. ASSUME NEW v \in Content PROVE Count(v, r, 1..size) = Count(v, f, a + 1 .. a + size)
    <2>1. PICK z \in Nat : z = 0
      OBVIOUS
    <2>2. SameBlock(r, z, f, a, size)
      BY <1>5, <2>1 DEF SameBlock
    <2>3. Count(v, r, z + 1 .. z + size) = Count(v, f, a + 1 .. a + size)
      <3>1. SameCount(v, r, z, f, a, size)
        BY <2>2, CountBlock
      <3>2. QED
        BY <3>1 DEF SameCount
    <2>4. z + 1 = 1 /\ z + size = size
      BY <2>1
    <2>5. QED
      BY <2>3, <2>4
  <1>8. QED
    BY <1>4, <1>6, <1>7

(* What fits into memory is sorted there, and is the output. *)
LEMMA InMemorySortStep == IInv /\ InMemorySort => IInv'
  <1> SUFFICES ASSUME IInv, InMemorySort PROVE IInv'
    OBVIOUS
  <1>1. TypeInv /\ input \in Seq(Content) /\ n \in Nat /\ n <= Len(input) /\ Len(input) \in Nat
    BY TypeFacts DEF IInv
  <1>2. PICK b, s : b = Blank(n) /\ s = Sorted(Read(input, 0, n, b))
    OBVIOUS
  <1>3. output' = Write(b, 0, s) /\ pc' = "done"
    BY <1>2 DEF InMemorySort
  <1>4. b \in Seq(Content) /\ Len(b) = n
    BY <1>1, <1>2, BlankContent
  <1>5. PICK k \in Nat, z \in Nat : k = n /\ z = 0
    BY <1>1
  <1>6. /\ s \in Seq(Content) /\ Len(s) = k /\ Rising(s, 0, k)
        /\ \A v \in Content : Count(v, s, 1..k) = Count(v, input, z + 1 .. z + k)
    <2>1. z + k <= Len(input)
      BY <1>1, <1>5
    <2>2. s = Sorted(Read(input, z, k, Blank(k)))
      BY <1>2, <1>5
    <2>3. QED
      BY <1>1, <2>1, <2>2, SortedBlock
  <1>7. z + 1 = 1 /\ z + k = k
    BY <1>5
  <1>8. /\ output' \in Seq(Content) /\ Len(output') = k
        /\ \A i \in 1..k : output'[i] = IF z < i /\ i <= z + Len(s) THEN s[i - z] ELSE b[i]
    <2>1. z + Len(s) <= Len(b)
      BY <1>4, <1>5, <1>6
    <2>2. output' = Write(b, z, s)
      BY <1>3, <1>5
    <2>3. /\ Write(b, z, s) \in Seq(Content) /\ Len(Write(b, z, s)) = Len(b)
          /\ \A i \in 1..Len(b) :
                Write(b, z, s)[i] = IF z < i /\ i <= z + Len(s) THEN s[i - z] ELSE b[i]
      BY <1>4, <1>6, <2>1, WriteInside
    <2>4. Len(b) = k
      BY <1>4, <1>5
    <2>5. QED
      BY <2>2, <2>3, <2>4
  <1>9. \A i \in 1..k : output'[i] = s[i]
    BY <1>5, <1>6, <1>8
  <1>10. Finished(output', k)
    <2>1. Rising(output', 0, k)
      <3>1. \A p \in 0 + 1 .. k - 1 : output'[p] = s[p] /\ output'[p + 1] = s[p + 1]
        BY <1>9
      <3>2. QED
        BY <1>6, <3>1 DEF Rising
    <2>2. ASSUME NEW v \in Content PROVE Count(v, output', 1..k) = Count(v, input, 1..k)
      <3>1. Count(v, output', 1..k) = Count(v, s, 1..k)
        BY <1>9, CountSame
      <3>2. QED
        BY <1>6, <1>7, <3>1
    <2>3. QED
      BY <1>8, <2>1, <2>2 DEF Finished, Agree
  <1>11. failed' = FALSE
    BY DEF IInv, AssertionsHold, InMemorySort
  <1>12. tmp' = tmp /\ inter' = inter /\ UNCHANGED <<input, n, mem, runs, runSize, lastSize, it, its>>
    BY DEF InMemorySort
  <1>13. QED
    BY <1>3, <1>5, <1>10, <1>11, <1>12, DoneStep

(* The first run is not sorted yet when the sort phase begins. *)
LEMMA SplitIntoRunsStep == IInv /\ SplitIntoRuns => IInv'
  <1> SUFFICES ASSUME IInv, SplitIntoRuns PROVE IInv'
    OBVIOUS
  <1>1. TypeInv /\ input \in Seq(Content) /\ n \in Nat /\ n <= Len(input) /\ mem \in Nat \ {0}
    BY TypeFacts DEF IInv
  <1>2. n \in Nat \ {0}
    <2>1. n > mem
      BY DEF SplitIntoRuns
    <2>2. QED
      BY <1>1, <2>1
  <1>3. PICK k, l : k = CeilDiv(n, mem) /\ l = LastOf(k, mem)
    OBVIOUS
  <1>4. k \in Nat \ {0} /\ l \in 1..mem /\ (k - 1) * mem + l = n
    BY <1>1, <1>2, <1>3, CeilDivLast
  <1>5. runs' = k /\ runSize' = mem /\ lastSize' = l /\ output' = Blank(n) /\ tmp' = Blank(n)
    BY <1>3 DEF SplitIntoRuns
  <1>6. pc' = "sort" /\ UNCHANGED <<input, n, mem, inter, it, its, m>>
    BY DEF SplitIntoRuns
  <1>7. Blank(n) \in Seq(Content) /\ Len(Blank(n)) = n
    BY <1>1, BlankContent
  <1>8. it = 0
    BY DEF SplitIntoRuns, IInv, SortInv
  <1>9. l \in Nat \ {0} /\ l <= mem
    BY <1>1, <1>4
  <1>10. TypeInv'
    BY <1>1, <1>4, <1>5, <1>6, <1>7, <1>9 DEF TypeInv
  <1>11. SortInv'
    <2>1. it * mem = 0
      BY <1>1, <1>8
    <2>2. Agree(Blank(n), input, 0)
      BY AgreeNothing
    <2>3. n > 0 /\ 0 < k /\ \A i \in 0 .. 0 - 1 : Rising(tmp', i * mem, (i + 1) * mem)
      BY <1>2, <1>4
    <2>4. QED
      BY <1>1, <1>4, <1>5, <1>6, <1>7, <1>8, <1>9, <2>1, <2>2, <2>3 DEF SortInv
  <1>12. RunsInv' /\ MergeInv' /\ OutputSorted'
    BY <1>6 DEF RunsInv, MergeInv, OutputSorted
  <1>13. AssertionsHold'
    <2>1. failed' = (failed \/ ~(lastSize' <= mem))
      BY DEF SplitIntoRuns, Asserts
    <2>2. QED
      BY <1>5, <1>9, <2>1 DEF IInv, AssertionsHold
  <1>14. QED
    BY <1>10, <1>11, <1>12, <1>13 DEF IInv

(* A sorted block in its place of the file. *)
LEMMA SortedInPlace ==
    ASSUME NEW f \in Seq(Content), NEW t \in Seq(Content), NEW a \in Nat, NEW size \in Nat,
           a + size <= Len(t), a + size <= Len(f), Agree(t, f, a),
           NEW g, g = Write(t, a, Sorted(Read(f, a, size, Blank(size))))
    PROVE  /\ g \in Seq(Content) /\ Len(g) = Len(t)
           /\ \A p \in 1..a : g[p] = t[p]
           /\ Rising(g, a, a + size)
           /\ Agree(g, f, a + size)
  <1>1. PICK s : s = Sorted(Read(f, a, size, Blank(size)))
    OBVIOUS
  <1>2. /\ s \in Seq(Content) /\ Len(s) = size /\ Rising(s, 0, size)
        /\ \A v \in Content : Count(v, s, 1..size) = Count(v, f, a + 1 .. a + size)
    BY <1>1, SortedBlock
  <1>3. PICK L \in Nat : L = Len(t)
    BY ContentNumbers
  <1>4. /\ g \in Seq(Content) /\ Len(g) = L
        /\ \A i \in 1..L : g[i] = IF a < i /\ i <= a + size THEN s[i - a] ELSE t[i]
    <2>1. a + Len(s) <= Len(t)
      BY <1>2
    <2>2. /\ Write(t, a, s) \in Seq(Content) /\ Len(Write(t, a, s)) = Len(t)
          /\ \A i \in 1..Len(t) :
                Write(t, a, s)[i] = IF a < i /\ i <= a + Len(s) THEN s[i - a] ELSE t[i]
      BY <1>2, <2>1, WriteInside
    <2>3. QED
      BY <1>1, <1>2, <1>3, <2>2
  <1>5. \A p \in 1..a : g[p] = t[p]
    <2> SUFFICES ASSUME NEW p \in 1..a PROVE g[p] = t[p]
      OBVIOUS
    <2>1. p \in 1..L /\ ~(a < p)
      BY <1>3
    <2>2. QED
      BY <1>4, <2>1
  <1>6. \A j \in 1..size : g[a + j] = s[j]
    <2> SUFFICES ASSUME NEW j \in 1..size PROVE g[a + j] = s[j]
      OBVIOUS
    <2>1. a + j \in 1..L /\ a < a + j /\ a + j <= a + size /\ (a + j) - a = j
      BY <1>3
    <2>2. QED
      BY <1>4, <2>1
  <1>7. Rising(g, a, a + size)
    <2> SUFFICES ASSUME NEW p \in a + 1 .. a + size - 1 PROVE g[p] <= g[p + 1]
      BY DEF Rising
    <2>1. PICK j \in 1 .. size - 1 : p = a + j /\ p + 1 = a + (j + 1) /\ j \in 1..size /\ j + 1 \in 1..size
      <3>1. p - a \in 1 .. size - 1 /\ p = a + (p - a)
        OBVIOUS
      <3>2. QED
        BY <3>1
    <2>2. s[j] <= s[j + 1]
      BY <1>2 DEF Rising
    <2>3. g[p] = s[j] /\ g[p + 1] = s[j + 1]
      BY <1>6, <2>1
    <2>4. QED
      BY <2>2, <2>3
  <1>8. ASSUME NEW v \in Content
        PROVE  Count(v, g, a + 1 .. a + size) = Count(v, f, a + 1 .. a + size)
    <2>1. PICK z \in Nat : z = 0
      OBVIOUS
    <2>2. SameBlock(g, a, s, z, size)
      BY <1>6, <2>1 DEF SameBlock
    <2>3. SameCount(v, g, a, s, z, size)
      BY <2>2, CountBlock
    <2>4. z + 1 = 1 /\ z + size = size
      BY <2>1
    <2>5. Count(v, g, a + 1 .. a + size) = Count(v, s, 1..size)
      BY <2>3, <2>4 DEF SameCount
    <2>6. QED
      BY <1>2, <2>5
  <1>9. Agree(g, f, a + size)
    <2>1. PICK b \in Nat : b = a + size /\ a <= b
      OBVIOUS
    <2>2. \A v \in Content : Count(v, g, a + 1 .. b) = Count(v, f, a + 1 .. b)
      BY <1>8, <2>1
    <2>3. Agree(g, f, b)
      BY <1>5, <2>1, <2>2, AgreeFurther
    <2>4. QED
      BY <2>1, <2>3
  <1>10. QED
    BY <1>3, <1>4, <1>5, <1>7, <1>9

(* Where the same values stand it rises in both files. *)
LEMMA RisingSame ==
    ASSUME NEW f, NEW g, NEW a \in Nat, NEW b \in Nat,
           Rising(f, a, b), \A p \in a + 1 .. b : g[p] = f[p]
    PROVE  Rising(g, a, b)
  <1> SUFFICES ASSUME NEW p \in a + 1 .. b - 1 PROVE g[p] <= g[p + 1]
    BY DEF Rising
  <1>1. p \in a + 1 .. b /\ p + 1 \in a + 1 .. b
    OBVIOUS
  <1>2. QED
    BY <1>1 DEF Rising

(* One more run of the input is sorted into the temporary file. *)
LEMMA SortRunStep == IInv /\ SortRun => IInv'
  <1> SUFFICES ASSUME IInv, SortRun PROVE IInv'
    OBVIOUS
  <1>1. TypeInv /\ input \in Seq(Content) /\ n \in Nat /\ n <= Len(input) /\ Len(input) \in Nat
    BY TypeFacts DEF IInv
  <1>2. /\ n > 0 /\ Len(tmp) = n /\ Len(output) = n
        /\ runs \in Nat \ {0} /\ runSize \in Nat \ {0} /\ lastSize \in Nat \ {0}
        /\ (runs - 1) * runSize + lastSize = n /\ it < runs /\ it \in Nat
        /\ \A i \in 0 .. it - 1 : Rising(tmp, i * runSize, (i + 1) * runSize)
        /\ Agree(tmp, input, it * runSize)
    <2>1. pc = "sort" /\ it \in Nat
      BY <1>1, TypeFacts DEF SortRun
    <2>2. QED
      BY <2>1 DEF IInv, SortInv
  <1>3. tmp \in Seq(Content)
    BY <1>1 DEF TypeInv
  <1>4. PICK size \in Nat \ {0} : size = IF it = runs - 1 THEN lastSize ELSE runSize
    BY <1>2
  <1>5. /\ tmp' = Write(tmp, it * runSize, Sorted(Read(input, it * runSize, size, Blank(size))))
        /\ it' = it + 1 /\ pc' = (IF it = runs - 1 THEN "sorted" ELSE "sort")
        /\ UNCHANGED <<input, n, mem, inter, output, runs, runSize, lastSize, its, m, failed>>
    BY <1>4 DEF SortRun
  <1>6. PICK a \in Nat : a = it * runSize /\ (it + 1) * runSize = a + runSize
    BY <1>2, NextBlock
  <1>7. a + size <= n /\ (it = runs - 1 => a + size = n)
    <2>1. CASE it = runs - 1
      BY <1>2, <1>4, <1>6, <2>1
    <2>2. CASE it # runs - 1
      <3>1. PICK j \in Nat : j = runs - 1 /\ it < j
        BY <1>2, <2>2
      <3>2. it * runSize + runSize <= j * runSize
        BY <1>2, <3>1, BlockOrder
      <3>3. PICK d \in Nat : d = j * runSize
        BY <1>2, NextBlock
      <3>4. QED
        BY <1>2, <1>4, <1>6, <2>2, <3>1, <3>2, <3>3
    <2>3. QED
      BY <2>1, <2>2
  <1>8. PICK g : g = tmp'
    OBVIOUS
  <1>9. /\ g \in Seq(Content) /\ Len(g) = n
        /\ \A p \in 1..a : g[p] = tmp[p]
        /\ Rising(g, a, a + size)
        /\ Agree(g, input, a + size)
    <2>1. a + size <= Len(tmp) /\ a + size <= Len(input)
      BY <1>1, <1>2, <1>7
    <2>2. Agree(tmp, input, a)
      BY <1>2, <1>6
    <2>3. g = Write(tmp, a, Sorted(Read(input, a, size, Blank(size))))
      BY <1>5, <1>6, <1>8
    <2>4. QED
      BY <1>1, <1>2, <1>3, <2>1, <2>2, <2>3, SortedInPlace
  <1>10. ASSUME NEW i \in 0 .. it - 1 PROVE Rising(g, i * runSize, (i + 1) * runSize)
    <2>1. PICK b \in Nat, c \in Nat : b = i * runSize /\ c = (i + 1) * runSize /\ c = b + runSize
      BY <1>2, NextBlock
    <2>2. c <= a
      <3>1. i \in Nat /\ i < it
        BY <1>2
      <3>2. i * runSize + runSize <= it * runSize
        BY <1>2, <3>1, BlockOrder
      <3>3. QED
        BY <1>6, <2>1, <3>2
    <2>3. Rising(tmp, b, c)
      BY <1>2, <2>1
    <2>4. \A p \in b + 1 .. c : g[p] = tmp[p]
      <3>1. \A p \in b + 1 .. c : p \in 1..a
        BY <2>2
      <3>2. QED
        BY <1>9, <3>1
    <2>5. Rising(g, b, c)
      BY <2>3, <2>4, RisingSame
    <2>6. QED
      BY <2>1, <2>5
  <1>11. TypeInv'
    <2>1. it + 1 \in Nat /\ tmp' \in Seq(Content) /\ pc' \in {"sort", "sorted"}
      BY <1>2, <1>5, <1>8, <1>9
    <2>2. QED
      BY <1>1, <1>5, <2>1 DEF TypeInv
  <1>12. OutputSorted' /\ AssertionsHold' /\ MergeInv'
    BY <1>5 DEF IInv, OutputSorted, AssertionsHold, MergeInv
  <1>13. CASE it = runs - 1
    <2>1. pc' = "sorted"
      BY <1>5, <1>13
    <2>2. SortInv'
      BY <1>2, <1>5, <1>8, <1>9, <2>1 DEF SortInv
    <2>3. Runs(g, n, runs, runSize, lastSize, 0)
      <3>1. Rising(g, (runs - 1) * runSize, n)
        BY <1>6, <1>7, <1>9, <1>13
      <3>2. \A i \in 2 * 0 .. runs - 2 : Rising(g, i * runSize, (i + 1) * runSize)
        <4>1. \A i \in 2 * 0 .. runs - 2 : i \in 0 .. it - 1
          BY <1>2, <1>13
        <4>2. QED
          BY <1>10, <4>1
      <3>3. \A i \in 0 .. 0 - 1 : Rising(g, i * (2 * runSize), (i + 1) * (2 * runSize))
        OBVIOUS
      <3>4. QED
        BY <1>2, <3>1, <3>2, <3>3 DEF Runs
    <2>4. Agree(g, input, n)
      BY <1>7, <1>9, <1>13
    <2>5. RunsInv'
      BY <1>5, <1>8, <2>1, <2>3, <2>4 DEF RunsInv
    <2>6. QED
      BY <1>11, <1>12, <2>2, <2>5 DEF IInv
  <1>14. CASE it # runs - 1
    <2>1. pc' = "sort" /\ size = runSize
      BY <1>4, <1>5, <1>14
    <2>2. it + 1 < runs
      BY <1>2, <1>14
    <2>3. \A i \in 0 .. (it + 1) - 1 : Rising(g, i * runSize, (i + 1) * runSize)
      <3> SUFFICES ASSUME NEW i \in 0 .. (it + 1) - 1
                   PROVE  Rising(g, i * runSize, (i + 1) * runSize)
        OBVIOUS
      <3>1. CASE i = it
        BY <1>6, <1>9, <2>1, <3>1
      <3>2. CASE i # it
        <4>1. i \in 0 .. it - 1
          BY <1>2, <3>2
        <4>2. QED
          BY <1>10, <4>1
      <3>3. QED
        BY <3>1, <3>2
    <2>4. Agree(g, input, (it + 1) * runSize)
      BY <1>6, <1>9, <2>1
    <2>5. SortInv'
      BY <1>2, <1>5, <1>8, <1>9, <2>1, <2>2, <2>3, <2>4 DEF SortInv
    <2>6. RunsInv'
      BY <2>1 DEF RunsInv
    <2>7. QED
      BY <1>11, <1>12, <2>5, <2>6 DEF IInv
  <1>15. QED
    BY <1>13, <1>14

(* The sort phase leaves runs, and the first merge is chosen. *)
LEMMA ChooseMergeStep == IInv /\ ChooseMerge => IInv'
  <1> SUFFICES ASSUME IInv, ChooseMerge PROVE IInv'
    OBVIOUS
  <1>1. TypeInv /\ n \in Nat /\ mem \in Nat \ {0}
    BY TypeFacts DEF IInv
  <1>2. /\ n > 0 /\ Len(tmp) = n /\ Len(output) = n /\ Agree(tmp, input, n)
        /\ Runs(tmp, n, runs, runSize, lastSize, 0)
    BY DEF IInv, SortInv, RunsInv, ChooseMerge
  <1>3. /\ pc' = (IF mem \div (runs + 1) = 0 THEN "pass" ELSE "final")
        /\ UNCHANGED <<input, n, mem, tmp, inter, output, runs, runSize, lastSize, it, its, m>>
        /\ failed' = (failed \/ ~SortPhaseDone(tmp, runSize))
    BY DEF ChooseMerge, Asserts
  <1>4. SortPhaseDone(tmp, runSize)
    <2>1. tmp \in Seq(Content)
      BY <1>1 DEF TypeInv
    <2>2. QED
      BY <1>1, <1>2, <2>1, RunsPhaseDone
  <1>5. AssertionsHold'
    BY <1>3, <1>4 DEF IInv, AssertionsHold
  <1>6. mem \div (runs + 1) \in Nat
    <2>1. PICK b \in Nat \ {0} : b = runs + 1
      BY <1>2 DEF Runs
    <2>2. mem \div b \in Nat
      BY <1>1, Division
    <2>3. QED
      BY <2>1, <2>2
  <1>7. pc' \in {"pass", "final"} /\ (pc' = "final" => mem \div (runs + 1) > 0)
    BY <1>3, <1>6
  <1>8. TypeInv'
    BY <1>1, <1>3, <1>7 DEF TypeInv
  <1>9. SortInv' /\ RunsInv' /\ MergeInv' /\ OutputSorted'
    BY <1>2, <1>3, <1>7 DEF SortInv, RunsInv, MergeInv, OutputSorted
  <1>10. QED
    BY <1>5, <1>8, <1>9 DEF IInv

(* The pairs of a pass are halves of the runs; two runs fit into any memory. *)
LEMMA BeginPassStep == IInv /\ BeginPass => IInv'
  <1> SUFFICES ASSUME IInv, BeginPass PROVE IInv'
    OBVIOUS
  <1>1. TypeInv /\ n \in Nat /\ mem \in Nat \ {0} /\ mem >= 3
    BY TypeFacts DEF IInv
  <1>2. /\ n > 0 /\ Len(tmp) = n /\ Len(output) = n /\ Agree(tmp, input, n)
        /\ Runs(tmp, n, runs, runSize, lastSize, 0) /\ runs \in Nat \ {0}
    BY DEF IInv, SortInv, RunsInv, Runs, BeginPass
  <1>3. /\ pc' = (IF runs > 2 THEN "pair" ELSE "final")
        /\ its' = runs \div 2 /\ it' = 0
        /\ UNCHANGED <<input, n, mem, tmp, inter, output, runs, runSize, lastSize, m, failed>>
    BY DEF BeginPass
  <1>4. PICK h \in Nat : h = runs \div 2
    BY <1>2
  <1>5. TypeInv'
    <2>1. its' \in Nat /\ it' \in Nat /\ pc' \in {"pair", "final"}
      BY <1>3, <1>4
    <2>2. QED
      BY <1>1, <1>3, <2>1 DEF TypeInv
  <1>6. OutputSorted' /\ AssertionsHold' /\ SortInv' /\ MergeInv'
    <2>1. pc' \in {"pair", "final"}
      BY <1>3
    <2>2. OutputSorted' /\ AssertionsHold'
      BY <1>3, <2>1 DEF IInv, OutputSorted, AssertionsHold
    <2>3. SortInv'
      BY <1>2, <1>3, <2>1 DEF SortInv
    <2>4. MergeInv'
      BY <2>1 DEF MergeInv
    <2>5. QED
      BY <2>2, <2>3, <2>4
  <1>7. RunsInv'
    <2>1. CASE runs > 2
      <3>1. 0 < h
        BY <1>2, <1>4, <2>1
      <3>2. pc' = "pair" /\ its' = h
        BY <1>3, <1>4, <2>1
      <3>3. QED
        BY <1>2, <1>3, <1>4, <3>1, <3>2 DEF RunsInv
    <2>2. CASE ~(runs > 2)
      <3>1. PICK b \in Nat \ {0} : b = runs + 1 /\ b <= 3
        BY <1>2, <2>2
      <3>2. b <= mem
        BY <1>1, <3>1
      <3>3. mem \div b > 0
        BY <1>1, <3>2, DividedOnce
      <3>4. pc' = "final"
        BY <1>3, <2>2
      <3>5. QED
        BY <1>2, <1>3, <3>1, <3>3, <3>4 DEF RunsInv
    <2>3. QED
      BY <2>1, <2>2
  <1>8. QED
    BY <1>5, <1>6, <1>7 DEF IInv

(***************************************************************************)
(* Two runs next to each other, run number j of the file and the next,     *)
(* which has size l.                                                       *)
(***************************************************************************)
Pair(f, total, j, base, size, l) ==
    /\ j \in Nat /\ base \in Nat /\ l \in Nat \ {0} /\ base = j * size
    /\ base + size + l <= total
    /\ Rising(f, base, base + size) /\ Rising(f, base + size, base + size + l)

(* The pair that is merged in an iteration; the last one ends the file. *)
LEMMA PairOfIteration ==
    ASSUME NEW f, n \in Nat, it \in Nat, its \in Nat, it < its, its = runs \div 2,
           Runs(f, n, runs, runSize, lastSize, it),
           NEW j, j = 2 * it + (IF Odd THEN 1 ELSE 0),
           NEW base, base = 2 * runSize * it + (IF Odd THEN runSize ELSE 0),
           NEW l, l = IF LastPair THEN lastSize ELSE runSize
    PROVE  /\ Pair(f, n, j, base, runSize, l)
           /\ LastPair => j = runs - 2 /\ base + runSize + l = n
           /\ ~LastPair => j = 2 * it /\ j + 2 <= runs - 2
  <1>1. /\ runs \in Nat \ {0} /\ runSize \in Nat \ {0} /\ lastSize \in Nat \ {0}
        /\ (runs - 1) * runSize + lastSize = n
        /\ \A i \in 2 * it .. runs - 2 : Rising(f, i * runSize, (i + 1) * runSize)
        /\ Rising(f, (runs - 1) * runSize, n)
    BY DEF Runs
  <1>2. LastPair => j = runs - 2
    <2>1. CASE Odd
      <3>1. runs % 2 # 0 /\ it = its - 1
        BY <2>1 DEF Odd, LastPair
      <3>2. QED
        BY <1>1, <2>1, <3>1
    <2>2. CASE ~Odd
      <3> SUFFICES ASSUME LastPair PROVE j = runs - 2
        OBVIOUS
      <3>1. runs % 2 = 0 /\ it = its - 1
        BY <2>2 DEF Odd, LastPair
      <3>2. QED
        BY <1>1, <2>2, <3>1
    <2>3. QED
      BY <2>1, <2>2
  <1>3. ~LastPair => ~Odd /\ j = 2 * it /\ j + 2 <= runs - 2
    <2> SUFFICES ASSUME ~LastPair PROVE ~Odd /\ j = 2 * it /\ j + 2 <= runs - 2
      OBVIOUS
    <2>1. ~Odd /\ it # its - 1
      BY DEF Odd, LastPair
    <2>2. QED
      BY <1>1, <2>1
  <1>4. j \in 2 * it .. runs - 2 /\ j \in Nat
    <2>1. j \in Nat /\ 2 * it <= j
      BY <1>1
    <2>2. j <= runs - 2
      BY <1>1, <1>2, <1>3, <2>1
    <2>3. QED
      BY <1>1, <2>1, <2>2
  <1>5. base = j * runSize /\ base \in Nat
    <2>1. PICK e \in Nat : e = 2 * it
      OBVIOUS
    <2>2. base = j * runSize
      <3>1. e * runSize = 2 * runSize * it /\ e * runSize \in Nat
        BY <1>1, <2>1
      <3>2. (e + 1) * runSize = e * runSize + runSize
        BY <1>1, NextBlock
      <3>3. CASE Odd
        <4>1. j = e + 1
          BY <2>1, <3>3
        <4>2. base = e * runSize + runSize
          BY <3>1, <3>3
        <4>3. QED
          BY <3>2, <4>1, <4>2
      <3>4. CASE ~Odd
        <4>1. j = e
          BY <2>1, <3>4
        <4>2. base = e * runSize + 0
          BY <3>1, <3>4
        <4>3. QED
          BY <3>1, <4>1, <4>2
      <3>5. QED
        BY <3>3, <3>4
    <2>3. j * runSize \in Nat
      BY <1>1, <1>4, NextBlock
    <2>4. QED
      BY <2>2, <2>3
  <1>6. PICK d \in Nat : d = base + runSize /\ d = (j + 1) * runSize
    <2>1. (j + 1) * runSize = j * runSize + runSize
      BY <1>1, <1>4, NextBlock
    <2>2. QED
      BY <1>1, <1>5, <2>1
  <1>7. Rising(f, base, d)
    BY <1>1, <1>4, <1>5, <1>6
  <1>8. CASE LastPair
    <2>1. l = lastSize /\ j + 1 = runs - 1
      BY <1>1, <1>2, <1>8
    <2>2. d + l = n /\ Rising(f, d, n)
      BY <1>1, <1>6, <2>1
    <2>3. QED
      BY <1>1, <1>2, <1>4, <1>5, <1>6, <1>7, <1>8, <2>1, <2>2 DEF Pair
  <1>9. CASE ~LastPair
    <2>1. l = runSize /\ j = 2 * it /\ j + 2 <= runs - 2
      BY <1>3, <1>9
    <2>2. PICK i \in Nat : i = j + 1 /\ i \in 2 * it .. runs - 2
      BY <1>1, <1>4, <2>1
    <2>3. (i + 1) * runSize = i * runSize + runSize
      BY <1>1, <2>2, NextBlock
    <2>4. Rising(f, d, d + runSize)
      BY <1>1, <1>6, <2>2, <2>3
    <2>5. d + runSize <= n
      <3>1. PICK e \in Nat : e = (runs - 1) * runSize
        <4>1. PICK q \in Nat : q = runs - 1
          BY <1>1
        <4>2. QED
          BY <1>1, <4>1, NextBlock
      <3>2. i < runs - 1 /\ runs - 1 \in Nat
        BY <1>1, <2>2
      <3>3. i * runSize + runSize <= (runs - 1) * runSize
        BY <1>1, <3>2, BlockOrder
      <3>4. QED
        BY <1>1, <1>6, <2>2, <3>1, <3>3
    <2>6. QED
      BY <1>1, <1>4, <1>5, <1>6, <1>7, <1>9, <2>1, <2>4, <2>5 DEF Pair
  <1>10. QED
    BY <1>8, <1>9

(* The two runs of a pair in the record of their merge. *)
LEMMA PairRuns ==
    ASSUME NEW f, NEW total \in Nat, NEW j, NEW base, NEW size \in Nat \ {0}, NEW l,
           Pair(f, total, j, base, size, l), total <= Len(f),
           NEW mm, mm.base = base, mm.len = <<size, l>>
    PROVE  RunsOf(f, mm, size) /\ Total(mm, size) = size + l
  <1>1. Len(mm.len) = 2 /\ DOMAIN mm.len = 1..2 /\ mm.len[1] = size /\ mm.len[2] = l
    OBVIOUS
  <1>2. base \in Nat /\ l \in Nat \ {0} /\ base + size + l <= total
        /\ Rising(f, base, base + size) /\ Rising(f, base + size, base + size + l)
    BY DEF Pair
  <1>3. Total(mm, size) = size + l
    BY <1>1, <1>2 DEF Total
  <1>4. Start(mm, size, 1) = base /\ Start(mm, size, 2) = base + size
    BY <1>2 DEF Start
  <1>5. \A i \in DOMAIN mm.len : Rising(f, Start(mm, size, i), Start(mm, size, i) + mm.len[i])
    <2>1. \A i \in 1..2 : i = 1 \/ i = 2
      OBVIOUS
    <2>2. QED
      BY <1>1, <1>2, <1>4, <2>1
  <1>6. \A i \in 1 .. Len(mm.len) - 1 : mm.len[i] = size
    <2>1. \A i \in 1 .. 2 - 1 : i = 1
      OBVIOUS
    <2>2. QED
      BY <1>1, <2>1
  <1>7. QED
    <2>1. mm.base + Total(mm, size) <= Len(f)
      BY <1>2, <1>3
    <2>2. QED
      BY <1>3, <1>5, <1>6, <2>1 DEF RunsOf

(* The file t is f, but for what is between base and e, and rises there. *)
CopiedIn(f, t, base, e, total) ==
    /\ t \in Seq(Content) /\ Len(t) = total
    /\ \A p \in 1..base : t[p] = f[p]
    /\ \A p \in e + 1 .. total : t[p] = f[p]
    /\ Rising(t, base, e)

(* Outside it rises where it has risen before. *)
LEMMA RisingOutside ==
    ASSUME NEW f, NEW t, NEW base \in Nat, NEW e \in Nat, NEW total \in Nat,
           CopiedIn(f, t, base, e, total), NEW a \in Nat, NEW b \in Nat,
           b <= base \/ e <= a, b <= total, Rising(f, a, b)
    PROVE  Rising(t, a, b)
  <1>1. ASSUME NEW p \in a + 1 .. b PROVE t[p] = f[p]
    <2>1. p \in 1..base \/ p \in e + 1 .. total
      OBVIOUS
    <2>2. QED
      BY <2>1 DEF CopiedIn
  <1>2. QED
    BY <1>1, RisingSame

(* A merged pair is copied to where its two runs were. *)
LEMMA CopiedBack ==
    ASSUME NEW f \in Seq(Content), NEW g \in Seq(Content), NEW base \in Nat, NEW L \in Nat,
           Len(g) = L, base + L <= Len(f), Rising(g, 0, L),
           \A v \in Content : Count(v, g, 1..L) = Count(v, f, base + 1 .. base + L),
           NEW h, Agree(f, h, Len(f)), NEW t, t = Write(f, base, g)
    PROVE  CopiedIn(f, t, base, base + L, Len(f)) /\ Agree(t, h, Len(f))
  <1>1. PICK total \in Nat, e \in Nat : total = Len(f) /\ e = base + L /\ base <= e /\ e <= total
    BY ContentNumbers
  <1>2. /\ t \in Seq(Content) /\ Len(t) = total
        /\ \A i \in 1..total : t[i] = IF base < i /\ i <= e THEN g[i - base] ELSE f[i]
    <2>1. base + Len(g) <= Len(f)
      OBVIOUS
    <2>2. /\ Write(f, base, g) \in Seq(Content) /\ Len(Write(f, base, g)) = Len(f)
          /\ \A i \in 1..Len(f) :
                Write(f, base, g)[i] = IF base < i /\ i <= base + Len(g) THEN g[i - base] ELSE f[i]
      BY <2>1, WriteInside
    <2>3. QED
      BY <1>1, <2>2
  <1>3. (\A p \in 1..base : t[p] = f[p]) /\ (\A p \in e + 1 .. total : t[p] = f[p])
    <2>1. ASSUME NEW p \in 1..base PROVE t[p] = f[p]
      <3>1. p \in 1..total /\ ~(base < p)
        BY <1>1
      <3>2. QED
        BY <1>2, <3>1
    <2>2. ASSUME NEW p \in e + 1 .. total PROVE t[p] = f[p]
      <3>1. p \in 1..total /\ ~(p <= e)
        BY <1>1
      <3>2. QED
        BY <1>2, <3>1
    <2>3. QED
      BY <2>1, <2>2
  <1>4. \A j \in 1..L : t[base + j] = g[j]
    <2> SUFFICES ASSUME NEW j \in 1..L PROVE t[base + j] = g[j]
      OBVIOUS
    <2>1. base + j \in 1..total /\ base < base + j /\ base + j <= e /\ (base + j) - base = j
      BY <1>1
    <2>2. QED
      BY <1>2, <2>1
  <1>5. Rising(t, base, e)
    <2> SUFFICES ASSUME NEW p \in base + 1 .. e - 1 PROVE t[p] <= t[p + 1]
      BY DEF Rising
    <2>1. PICK j \in 1 .. L - 1 : p = base + j /\ p + 1 = base + (j + 1) /\ j \in 1..L /\ j + 1 \in 1..L
      <3>1. p - base \in 1 .. L - 1 /\ p = base + (p - base)
        BY <1>1
      <3>2. QED
        BY <3>1
    <2>2. g[j] <= g[j + 1]
      BY DEF Rising
    <2>3. t[p] = g[j] /\ t[p + 1] = g[j + 1]
      BY <1>4, <2>1
    <2>4. QED
      BY <2>2, <2>3
  <1>6. ASSUME NEW v \in Content PROVE Count(v, t, 1..total) = Count(v, f, 1..total)
    <2>1. Count(v, t, base + 1 .. e) = Count(v, f, base + 1 .. e)
      <3>1. PICK z \in Nat : z = 0
        OBVIOUS
      <3>2. SameBlock(t, base, g, z, L)
        BY <1>4, <3>1 DEF SameBlock
      <3>3. SameCount(v, t, base, g, z, L)
        BY <3>2, CountBlock
      <3>4. z + 1 = 1 /\ z + L = L
        BY <3>1
      <3>5. Count(v, t, base + 1 .. e) = Count(v, g, 1..L)
        BY <1>1, <3>3, <3>4 DEF SameCount
      <3>6. Count(v, g, 1..L) = Count(v, f, base + 1 .. e)
        BY <1>1
      <3>7. QED
        BY <3>5, <3>6
    <2>2. Count(v, t, 1..base) = Count(v, f, 1..base)
      BY <1>3, CountSame
    <2>3. Count(v, t, e + 1 .. total) = Count(v, f, e + 1 .. total)
      BY <1>3, CountSame
    <2>4. base <= e /\ e <= total
      BY <1>1
    <2>5. ASSUME NEW x
          PROVE  /\ Count(v, x, 1..total) = Count(v, x, 1..e) + Count(v, x, e + 1 .. total)
                 /\ Count(v, x, 1..e) = Count(v, x, 1..base) + Count(v, x, base + 1 .. e)
      <3>1. Count(v, x, 1..total) = Count(v, x, 1..e) + Count(v, x, e + 1 .. total)
        BY <2>4, CountUpTo
      <3>2. Count(v, x, 1..e) = Count(v, x, 1..base) + Count(v, x, base + 1 .. e)
        BY <2>4, CountUpTo
      <3>3. QED
        BY <3>1, <3>2
    <2>6. QED
      BY <2>1, <2>2, <2>3, <2>5
  <1>7. Agree(t, h, total)
    BY <1>1, <1>6 DEF Agree
  <1>8. QED
    BY <1>1, <1>2, <1>3, <1>5, <1>7 DEF CopiedIn

(* A number that is positive. *)
LEMMA PositiveNumber ==
    ASSUME NEW k \in Nat, k > 0
    PROVE  k \in Nat \ {0}
  OBVIOUS

(* What the invariant says within a pass. *)
LEMMA PassFacts ==
    ASSUME IInv, pc = "pair" \/ pc = "merge pair"
    PROVE  /\ n \in Nat \ {0} /\ mem \in Nat \ {0} /\ mem >= 3 /\ it \in Nat /\ its \in Nat
           /\ tmp \in Seq(Content) /\ inter \in Seq(Content) /\ Len(tmp) = n /\ Len(output) = n
           /\ Runs(tmp, n, runs, runSize, lastSize, it)
           /\ runs \in Nat \ {0} /\ runSize \in Nat \ {0} /\ lastSize \in Nat \ {0}
           /\ its = runs \div 2 /\ it < its /\ Agree(tmp, input, n)
  <1>1. TypeInv /\ n \in Nat /\ mem \in Nat \ {0} /\ mem >= 3 /\ it \in Nat /\ its \in Nat
    BY TypeFacts DEF IInv
  <1>2. tmp \in Seq(Content) /\ inter \in Seq(Content)
    BY <1>1 DEF TypeInv
  <1>3. n > 0 /\ Len(tmp) = n /\ Len(output) = n
    BY DEF IInv, SortInv
  <1>4. /\ Runs(tmp, n, runs, runSize, lastSize, it) /\ its = runs \div 2 /\ it < its
        /\ Agree(tmp, input, n)
    BY DEF IInv, RunsInv
  <1>5. runs \in Nat \ {0} /\ runSize \in Nat \ {0} /\ lastSize \in Nat \ {0}
    BY <1>4 DEF Runs
  <1>6. n \in Nat \ {0}
    BY <1>1, <1>3, PositiveNumber
  <1>7. QED
    BY <1>1, <1>2, <1>3, <1>4, <1>5, <1>6

(* The merge of a pair begins; there are values in memory for three buffers. *)
LEMMA LoadPairStep == IInv /\ LoadPair => IInv'
  <1> SUFFICES ASSUME IInv, LoadPair PROVE IInv'
    OBVIOUS
  <1>1. pc = "pair" /\ pc' = "merge pair"
    BY DEF LoadPair
  <1>2. /\ n \in Nat \ {0} /\ mem \in Nat \ {0} /\ mem >= 3 /\ it \in Nat /\ its \in Nat
        /\ tmp \in Seq(Content) /\ Len(tmp) = n /\ Len(output) = n
        /\ Runs(tmp, n, runs, runSize, lastSize, it)
        /\ runs \in Nat \ {0} /\ runSize \in Nat \ {0} /\ lastSize \in Nat \ {0}
        /\ its = runs \div 2 /\ it < its /\ Agree(tmp, input, n)
    BY <1>1, PassFacts
  <1>3. PICK base : base = 2 * runSize * it + (IF Odd THEN runSize ELSE 0)
    OBVIOUS
  <1>4. PICK l : l = IF LastPair THEN lastSize ELSE runSize
    OBVIOUS
  <1>5. PICK lengths : lengths = <<runSize, l>>
    OBVIOUS
  <1>6. /\ m' = Loaded(base, lengths) /\ inter' = Blank(runSize + l)
        /\ failed' = (failed \/ ~(InputBuffer(2) > 0 /\ OutBuffer(2) > 0))
        /\ UNCHANGED <<input, n, mem, tmp, output, runs, runSize, lastSize, it, its>>
    BY <1>3, <1>4, <1>5 DEF LoadPair, Asserts
  <1>7. PICK j : Pair(tmp, n, j, base, runSize, l)
    <2>1. PICK j : j = 2 * it + (IF Odd THEN 1 ELSE 0)
      OBVIOUS
    <2>2. Pair(tmp, n, j, base, runSize, l)
      BY <1>2, <1>3, <1>4, <2>1, PairOfIteration
    <2>3. QED
      BY <2>2
  <1>8. base \in Nat /\ l \in Nat \ {0} /\ lengths \in Seq(Nat \ {0}) /\ lengths # <<>> /\ Len(lengths) = 2
    <2>1. base \in Nat /\ l \in Nat \ {0}
      BY <1>7 DEF Pair
    <2>2. QED
      BY <1>2, <1>5, <2>1
  <1>9. InputBuffer(2) > 0 /\ OutBuffer(2) > 0
    <2>1. PICK b \in Nat \ {0}, k \in Nat \ {0} : b = 3 /\ b <= mem /\ k = 2 /\ k + 1 = b
      BY <1>2
    <2>2. mem \div b > 0
      BY <1>2, <2>1, DividedOnce
    <2>3. InputBuffer(k) > 0
      BY <2>1, <2>2 DEF InputBuffer
    <2>4. OutBuffer(k) \in Nat \ {0}
      BY <1>2, <2>3, BufferSizes
    <2>5. QED
      BY <2>1, <2>3, <2>4
  <1>10. PICK mm : mm = Loaded(base, lengths)
    OBVIOUS
  <1>11. mm.base = base /\ mm.len = lengths
    BY <1>10 DEF Loaded
  <1>12. RunsOf(tmp, mm, runSize) /\ Total(mm, runSize) = runSize + l
    <2>1. n \in Nat /\ n <= Len(tmp)
      BY <1>2
    <2>2. QED
      <3>1. PICK size \in Nat \ {0}, total \in Nat : size = runSize /\ total = n
        BY <1>2
      <3>2. mm.base = base /\ mm.len = <<size, l>>
        BY <1>5, <1>11, <3>1
      <3>3. Pair(tmp, total, j, base, size, l) /\ total <= Len(tmp)
        BY <1>7, <2>1, <3>1
      <3>4. RunsOf(tmp, mm, size) /\ Total(mm, size) = size + l
        BY <3>2, <3>3, PairRuns
      <3>5. QED
        BY <3>1, <3>4
  <1>13. inter' \in Seq(Content) /\ Len(inter') = runSize + l
    <2>1. PICK s \in Nat : s = runSize + l
      BY <1>2, <1>8
    <2>2. QED
      BY <1>6, <2>1, BlankContent
  <1>14. Merging(tmp, mm, runSize, mem, inter')
    <2>1. InputBuffer(Len(lengths)) > 0
      BY <1>8, <1>9
    <2>2. runSize \in Nat /\ mem \in Nat /\ Len(inter') = Total(mm, runSize)
      BY <1>2, <1>12, <1>13
    <2>3. QED
      BY <1>2, <1>8, <1>10, <1>12, <1>13, <2>1, <2>2, LoadedMerging
  <1>15. TypeInv'
    <2>1. TypeInv
      BY DEF IInv
    <2>2. QED
      BY <1>1, <1>6, <1>13, <2>1 DEF TypeInv
  <1>16. SortInv' /\ RunsInv'
    <2>1. n > 0
      BY <1>2
    <2>2. SortInv'
      BY <1>1, <1>2, <1>6, <2>1 DEF SortInv
    <2>3. RunsInv'
      BY <1>1, <1>2, <1>6 DEF RunsInv
    <2>4. QED
      BY <2>2, <2>3
  <1>17. MergeInv'
    <2>1. Merging(tmp, m, runSize, mem, inter)'
      BY <1>6, <1>10, <1>14
    <2>2. Odd' = Odd /\ LastPair' = LastPair
      BY <1>6 DEF Odd, LastPair
    <2>3. QED
      BY <1>1, <1>3, <1>4, <1>5, <1>6, <1>10, <1>11, <2>1, <2>2 DEF MergeInv
  <1>18. OutputSorted' /\ AssertionsHold'
    BY <1>1, <1>6, <1>9 DEF IInv, OutputSorted, AssertionsHold
  <1>19. QED
    BY <1>15, <1>16, <1>17, <1>18 DEF IInv

(* A value moves to the output buffer of a pair. *)
LEMMA MergePairStep == IInv /\ MergePair => IInv'
  <1> SUFFICES ASSUME IInv, MergePair PROVE IInv'
    OBVIOUS
  <1>1. pc = "merge pair" /\ pc' = "merge pair"
    BY DEF MergePair
  <1>2. /\ n \in Nat \ {0} /\ mem \in Nat \ {0} /\ it \in Nat /\ its \in Nat
        /\ tmp \in Seq(Content) /\ inter \in Seq(Content) /\ Len(tmp) = n /\ Len(output) = n
        /\ Runs(tmp, n, runs, runSize, lastSize, it)
        /\ runSize \in Nat \ {0}
        /\ its = runs \div 2 /\ it < its /\ Agree(tmp, input, n)
    BY <1>1, PassFacts
  <1>3. /\ Merging(tmp, m, runSize, mem, inter)
        /\ m.base = 2 * runSize * it + (IF Odd THEN runSize ELSE 0)
        /\ m.len = <<runSize, IF LastPair THEN lastSize ELSE runSize>>
    BY <1>1 DEF IInv, MergeInv
  <1>4. MergeOne(inter) /\ UNCHANGED <<input, n, mem, tmp, output, runs, runSize, lastSize, it, its>>
    BY DEF MergePair
  <1>5. /\ m.live # {} /\ m' = After /\ inter' = Flushed(inter)
        /\ failed' = (failed \/ ~(Ascending(LoadedBlock) /\ (Full => Ascending(TakenOut))))
    <2>1. MergeType(m)
      BY <1>3 DEF Merging
    <2>2. QED
      BY <1>4, <2>1, MergeOneInter
  <1>6. /\ Merging(tmp, After, runSize, mem, Flushed(inter)) /\ Flushed(inter) \in Seq(Content)
        /\ Ascending(LoadedBlock) /\ (Full => Ascending(TakenOut))
        /\ After.base = m.base /\ After.len = m.len
    <2>1. runSize \in Nat /\ mem \in Nat
      BY <1>2
    <2>2. QED
      BY <1>2, <1>3, <1>5, <2>1, MergeStep
  <1>7. TypeInv'
    <2>1. TypeInv
      BY DEF IInv
    <2>2. QED
      BY <1>1, <1>4, <1>5, <1>6, <2>1 DEF TypeInv
  <1>8. SortInv' /\ RunsInv'
    <2>1. n > 0
      BY <1>2
    <2>2. SortInv'
      BY <1>1, <1>2, <1>4, <2>1 DEF SortInv
    <2>3. RunsInv'
      BY <1>1, <1>2, <1>4 DEF RunsInv
    <2>4. QED
      BY <2>2, <2>3
  <1>9. MergeInv'
    <2>1. Merging(tmp, m, runSize, mem, inter)'
      BY <1>4, <1>5, <1>6
    <2>2. Odd' = Odd /\ LastPair' = LastPair
      BY <1>4 DEF Odd, LastPair
    <2>3. m'.base = m.base /\ m'.len = m.len
      BY <1>5, <1>6
    <2>4. QED
      BY <1>1, <1>3, <1>4, <2>1, <2>2, <2>3 DEF MergeInv
  <1>10. OutputSorted' /\ AssertionsHold'
    BY <1>1, <1>5, <1>6 DEF IInv, OutputSorted, AssertionsHold
  <1>11. QED
    BY <1>7, <1>8, <1>9, <1>10 DEF IInv

(***************************************************************************)
(* The runs of the file after a pair has been merged: with an odd run out  *)
(* one run less, after the last pair half of them, and else one more pair  *)
(* that is merged.                                                         *)
(***************************************************************************)
LEMMA RunsAfterPair ==
    ASSUME NEW f, NEW t, n \in Nat, it \in Nat, its \in Nat, it < its, its = runs \div 2,
           Runs(f, n, runs, runSize, lastSize, it),
           NEW j, j = 2 * it + (IF Odd THEN 1 ELSE 0),
           NEW base, base = 2 * runSize * it + (IF Odd THEN runSize ELSE 0),
           NEW l, l = (IF LastPair THEN lastSize ELSE runSize),
           NEW e, e = base + runSize + l, CopiedIn(f, t, base, e, n)
    PROVE  /\ Odd => /\ Runs(t, n, runs - 1, runSize, lastSize + runSize, it)
                     /\ its = (runs - 1) \div 2
           /\ LastPair /\ ~Odd => Runs(t, n, runs \div 2, 2 * runSize, lastSize + runSize, 0)
           /\ ~LastPair => Runs(t, n, runs, runSize, lastSize, it + 1) /\ it + 1 < its
  <1>1. /\ Pair(f, n, j, base, runSize, l)
        /\ LastPair => j = runs - 2 /\ base + runSize + l = n
        /\ ~LastPair => j = 2 * it /\ j + 2 <= runs - 2
    BY PairOfIteration
  <1>2. /\ runs \in Nat \ {0} /\ runSize \in Nat \ {0} /\ lastSize \in Nat \ {0}
        /\ (runs - 1) * runSize + lastSize = n
        /\ \A i \in 0 .. it - 1 : Rising(f, i * (2 * runSize), (i + 1) * (2 * runSize))
        /\ \A i \in 2 * it .. runs - 2 : Rising(f, i * runSize, (i + 1) * runSize)
        /\ Rising(f, (runs - 1) * runSize, n)
    BY DEF Runs
  <1>3. /\ j \in Nat /\ base \in Nat /\ l \in Nat \ {0} /\ base = j * runSize
        /\ base + runSize + l <= n
    BY <1>1 DEF Pair
  <1>4. e \in Nat /\ base <= e /\ e <= n /\ e = base + (runSize + l)
    BY <1>2, <1>3
  <1>5. Rising(t, base, e)
    BY DEF CopiedIn
  <1>6. PICK d \in Nat \ {0} : d = 2 * runSize
    BY <1>2
  <1>7. it * d <= base /\ (~Odd => base = it * d)
    <2>1. PICK x \in Nat : x = it * runSize
      BY <1>2, NextBlock
    <2>2. 2 * runSize * it = 2 * x /\ it * d = 2 * x
      BY <1>2, <1>6, <2>1, NextBlock
    <2>3. CASE Odd
      BY <1>2, <2>2, <2>3
    <2>4. CASE ~Odd
      BY <1>2, <2>2, <2>4
    <2>5. QED
      BY <2>3, <2>4
  <1>8. ASSUME NEW i \in 0 .. it - 1 PROVE Rising(t, i * d, (i + 1) * d)
    <2>1. PICK a \in Nat, b \in Nat : a = i * d /\ b = (i + 1) * d /\ b = a + d
      BY NextBlock
    <2>2. i * d + d <= it * d
      BY BlockOrder
    <2>3. b <= base /\ b <= n
      BY <1>3, <1>4, <1>7, <2>1, <2>2
    <2>4. Rising(f, a, b)
      BY <1>2, <1>6, <2>1
    <2>5. Rising(t, a, b)
      BY <1>3, <1>4, <2>3, <2>4, RisingOutside
    <2>6. QED
      BY <2>1, <2>5
  <1>9. ASSUME NEW i \in 2 * it .. runs - 2, i < j \/ e <= i * runSize
        PROVE  Rising(t, i * runSize, (i + 1) * runSize)
    <2>1. i \in Nat
      OBVIOUS
    <2>2. PICK a \in Nat, b \in Nat : a = i * runSize /\ b = (i + 1) * runSize /\ b = a + runSize
      BY <1>2, <2>1, NextBlock
    <2>3. b <= base \/ e <= a
      <3>1. CASE i < j
        <4>1. i * runSize + runSize <= j * runSize
          BY <1>2, <1>3, <2>1, <3>1, BlockOrder
        <4>2. QED
          BY <1>3, <2>2, <4>1
      <3>2. CASE e <= i * runSize
        BY <2>2, <3>2
      <3>3. QED
        BY <1>9, <3>1, <3>2
    <2>4. b <= n
      <3>1. PICK k \in Nat : k = runs - 1 /\ i < k
        BY <1>2
      <3>2. i * runSize + runSize <= k * runSize
        BY <1>2, <2>1, <3>1, BlockOrder
      <3>3. PICK c \in Nat : c = k * runSize
        BY <1>2, NextBlock
      <3>4. QED
        BY <1>2, <2>2, <3>1, <3>2, <3>3
    <2>5. Rising(f, a, b)
      BY <1>2, <2>2
    <2>6. Rising(t, a, b)
      BY <1>3, <1>4, <2>3, <2>4, <2>5, RisingOutside
    <2>7. QED
      BY <2>2, <2>6
  <1>10. ASSUME Odd
         PROVE  Runs(t, n, runs - 1, runSize, lastSize + runSize, it) /\ its = (runs - 1) \div 2
    <2>1. LastPair /\ runs % 2 # 0 /\ it = its - 1
      BY <1>10 DEF Odd, LastPair
    <2>2. PICK k \in Nat \ {0}, s \in Nat \ {0} : k = runs - 1 /\ s = lastSize + runSize
      BY <1>2, <2>1
    <2>3. its = k \div 2 /\ j = k - 1 /\ j = 2 * it + 1
      <3>1. j = 2 * it + 1
        BY <1>10
      <3>2. QED
        BY <1>1, <1>2, <2>1, <2>2, <3>1
    <2>4. (k - 1) * runSize = base /\ base + s = n /\ e = n
      <3>1. (k - 1) * runSize = base
        BY <1>3, <2>3
      <3>2. e = n /\ l = lastSize
        BY <1>1, <2>1
      <3>3. QED
        BY <1>2, <1>3, <1>4, <2>2, <3>1, <3>2
    <2>5. Rising(t, (k - 1) * runSize, n)
      BY <1>5, <2>4
    <2>6. \A i \in 2 * it .. k - 2 : Rising(t, i * runSize, (i + 1) * runSize)
      <3> SUFFICES ASSUME NEW i \in 2 * it .. k - 2 PROVE Rising(t, i * runSize, (i + 1) * runSize)
        OBVIOUS
      <3>1. i \in 2 * it .. runs - 2 /\ i < j
        BY <1>2, <2>2, <2>3
      <3>2. QED
        BY <1>9, <3>1
    <2>7. \A i \in 0 .. it - 1 : Rising(t, i * (2 * runSize), (i + 1) * (2 * runSize))
      BY <1>6, <1>8
    <2>8. Runs(t, n, k, runSize, s, it)
      BY <1>2, <2>4, <2>5, <2>6, <2>7 DEF Runs
    <2>9. QED
      BY <2>2, <2>3, <2>8
  <1>11. ASSUME LastPair, ~Odd
         PROVE  Runs(t, n, runs \div 2, 2 * runSize, lastSize + runSize, 0)
    <2>1. it = its - 1 /\ runs = 2 * its
      BY <1>2, <1>11 DEF Odd, LastPair
    <2>2. PICK s \in Nat \ {0} : s = lastSize + runSize
      BY <1>2
    <2>3. its \in Nat \ {0}
      OBVIOUS
    <2>4. (its - 1) * d = base /\ base + s = n /\ e = n
      <3>1. its - 1 = it
        BY <2>1
      <3>2. e = n /\ l = lastSize
        BY <1>1, <1>11
      <3>3. QED
        BY <1>2, <1>4, <1>7, <1>11, <2>2, <3>1, <3>2
    <2>5. Rising(t, (its - 1) * d, n)
      BY <1>5, <2>4
    <2>6. \A i \in 2 * 0 .. its - 2 : Rising(t, i * d, (i + 1) * d)
      <3>1. \A i \in 2 * 0 .. its - 2 : i \in 0 .. it - 1
        BY <2>1
      <3>2. QED
        BY <1>8, <3>1
    <2>7. \A i \in 0 .. 0 - 1 : Rising(t, i * (2 * d), (i + 1) * (2 * d))
      OBVIOUS
    <2>8. Runs(t, n, its, d, s, 0)
      BY <1>6, <2>3, <2>4, <2>5, <2>6, <2>7 DEF Runs
    <2>9. QED
      BY <1>6, <2>2, <2>8
  <1>12. ASSUME ~LastPair
         PROVE  Runs(t, n, runs, runSize, lastSize, it + 1) /\ it + 1 < its
    <2>1. it + 1 < its /\ j = 2 * it /\ j + 2 <= runs - 2 /\ l = runSize /\ ~Odd
      <3>1. ~Odd /\ it # its - 1
        BY <1>12 DEF LastPair, Odd
      <3>2. QED
        BY <1>1, <1>12, <3>1
    <2>2. base = it * d /\ e = (it + 1) * d
      <3>1. (it + 1) * d = it * d + d
        BY NextBlock
      <3>2. base = it * d
        BY <1>7, <2>1
      <3>3. e = base + d
        BY <1>2, <1>4, <1>6, <2>1
      <3>4. QED
        BY <3>1, <3>2, <3>3
    <2>3. \A i \in 0 .. (it + 1) - 1 : Rising(t, i * d, (i + 1) * d)
      <3> SUFFICES ASSUME NEW i \in 0 .. (it + 1) - 1 PROVE Rising(t, i * d, (i + 1) * d)
        OBVIOUS
      <3>1. CASE i = it
        BY <1>5, <2>2, <3>1
      <3>2. CASE i # it
        <4>1. i \in 0 .. it - 1
          BY <3>2
        <4>2. QED
          BY <1>8, <4>1
      <3>3. QED
        BY <3>1, <3>2
    <2>4. ASSUME NEW i \in Nat, j + 2 <= i PROVE e <= i * runSize /\ i * runSize \in Nat
      <3>1. PICK k \in Nat : k = j + 1 /\ k < i
        BY <1>3, <2>4
      <3>2. k * runSize + runSize <= i * runSize /\ i * runSize \in Nat
        BY <1>2, <3>1, BlockOrder, NextBlock
      <3>3. k * runSize = base + runSize
        BY <1>2, <1>3, <3>1, NextBlock
      <3>4. e = (base + runSize) + runSize
        BY <1>2, <1>3, <1>4, <2>1
      <3>5. QED
        BY <3>2, <3>3, <3>4
    <2>5. \A i \in 2 * (it + 1) .. runs - 2 : Rising(t, i * runSize, (i + 1) * runSize)
      <3> SUFFICES ASSUME NEW i \in 2 * (it + 1) .. runs - 2
                   PROVE  Rising(t, i * runSize, (i + 1) * runSize)
        OBVIOUS
      <3>1. i \in Nat /\ j + 2 <= i /\ i \in 2 * it .. runs - 2
        BY <1>2, <2>1
      <3>2. e <= i * runSize
        BY <2>4, <3>1
      <3>3. QED
        BY <1>9, <3>1, <3>2
    <2>6. Rising(t, (runs - 1) * runSize, n)
      <3>1. PICK k \in Nat : k = runs - 1 /\ j + 2 <= k
        BY <1>2, <1>3, <2>1
      <3>2. PICK a \in Nat : a = k * runSize /\ e <= a
        BY <2>4, <3>1
      <3>3. Rising(f, a, n) /\ n <= n
        BY <1>2, <3>1, <3>2
      <3>4. Rising(t, a, n)
        BY <1>3, <1>4, <3>2, <3>3, RisingOutside
      <3>5. QED
        BY <3>1, <3>2, <3>4
    <2>7. \A i \in 0 .. (it + 1) - 1 : Rising(t, i * (2 * runSize), (i + 1) * (2 * runSize))
      BY <1>6, <2>3
    <2>8. Runs(t, n, runs, runSize, lastSize, it + 1)
      BY <1>2, <2>5, <2>6, <2>7 DEF Runs
    <2>9. QED
      BY <2>1, <2>8
  <1>13. QED
    BY <1>10, <1>11, <1>12

(* A merged pair goes back to the temporary file. *)
LEMMA FinishPairStep == IInv /\ FinishPair => IInv'
  <1> SUFFICES ASSUME IInv, FinishPair PROVE IInv'
    OBVIOUS
  <1>1. pc = "merge pair" /\ m.live = {}
    BY DEF FinishPair
  <1>2. /\ n \in Nat \ {0} /\ mem \in Nat \ {0} /\ it \in Nat /\ its \in Nat
        /\ tmp \in Seq(Content) /\ inter \in Seq(Content) /\ Len(tmp) = n /\ Len(output) = n
        /\ Runs(tmp, n, runs, runSize, lastSize, it)
        /\ runs \in Nat \ {0} /\ runSize \in Nat \ {0} /\ lastSize \in Nat \ {0}
        /\ its = runs \div 2 /\ it < its /\ Agree(tmp, input, n)
    BY <1>1, PassFacts
  <1>3. /\ Merging(tmp, m, runSize, mem, inter)
        /\ m.base = 2 * runSize * it + (IF Odd THEN runSize ELSE 0)
        /\ m.len = <<runSize, IF LastPair THEN lastSize ELSE runSize>>
    BY <1>1 DEF IInv, MergeInv
  <1>4. PICK g : g = Write(inter, m.writes * Len(m.out), Rest(Len(inter)))
    OBVIOUS
  <1>5. PICK t : t = tmp'
    OBVIOUS
  <1>6. /\ inter' = g /\ t = Write(tmp, m.base, g)
        /\ UNCHANGED <<input, n, mem, output, its, m>>
        /\ failed' = (failed \/ ~(/\ Ascending(Rest(Len(inter))) /\ Ascending(g)
                                  /\ LastPair /\ ~Odd => SortPhaseDone(t, runSize')))
    BY <1>4, <1>5 DEF FinishPair, Asserts
  <1>7. \/ Odd /\ RepeatLast
        \/ /\ LastPair /\ ~Odd
           /\ runs' = runs \div 2 /\ lastSize' = lastSize + runSize /\ runSize' = 2 * runSize
           /\ it' = it + 1 /\ pc' = "pass"
        \/ ~LastPair /\ it' = it + 1 /\ pc' = "pair" /\ UNCHANGED <<runs, runSize, lastSize>>
    BY DEF FinishPair
  <1>8. PICK base : base = 2 * runSize * it + (IF Odd THEN runSize ELSE 0)
    OBVIOUS
  <1>9. PICK l : l = IF LastPair THEN lastSize ELSE runSize
    OBVIOUS
  <1>10. PICK j : j = 2 * it + (IF Odd THEN 1 ELSE 0)
    OBVIOUS
  <1>11. Pair(tmp, n, j, base, runSize, l)
    BY <1>2, <1>8, <1>9, <1>10, PairOfIteration
  <1>12. base \in Nat /\ l \in Nat \ {0} /\ base + runSize + l <= n
    BY <1>11 DEF Pair
  <1>13. PICK L \in Nat : L = runSize + l
    BY <1>2, <1>12
  <1>14. Total(m, runSize) = L
    <2>1. PICK size \in Nat \ {0}, total \in Nat : size = runSize /\ total = n
      BY <1>2
    <2>2. m.base = base /\ m.len = <<size, l>>
      BY <1>3, <1>8, <1>9, <2>1
    <2>3. Pair(tmp, total, j, base, size, l) /\ total <= Len(tmp)
      BY <1>2, <1>11, <2>1
    <2>4. Total(m, size) = size + l
      BY <2>2, <2>3, PairRuns
    <2>5. QED
      BY <1>13, <2>1, <2>4
  <1>15. /\ g \in Seq(Content) /\ Len(g) = L /\ Rising(g, 0, L) /\ Ascending(Rest(Len(inter)))
         /\ \A v \in Content : Count(v, g, 1..L) = Count(v, tmp, base + 1 .. base + L)
    <2>1. mem \in Nat
      BY <1>2
    <2>2. /\ g \in Seq(Content) /\ Len(g) = Len(inter) /\ Len(inter) = Total(m, runSize)
          /\ Rising(g, 0, Len(g)) /\ Ascending(Rest(Len(inter)))
          /\ \A v \in Content :
                Count(v, g, 1..Len(g)) = Count(v, tmp, m.base + 1 .. m.base + Len(g))
      BY <1>1, <1>2, <1>3, <1>4, <2>1, MergeEnd
    <2>3. Len(g) = L /\ m.base = base
      BY <1>3, <1>8, <1>14, <2>2
    <2>4. QED
      BY <2>2, <2>3
  <1>16. Ascending(g)
    BY <1>15, WholeAscends
  <1>17. PICK e \in Nat : e = base + L /\ e = base + runSize + l /\ e <= n
    BY <1>2, <1>12, <1>13
  <1>18. CopiedIn(tmp, t, base, e, n) /\ Agree(t, input, n)
    <2>1. t = Write(tmp, base, g)
      BY <1>3, <1>6, <1>8
    <2>2. base + L <= Len(tmp) /\ Agree(tmp, input, Len(tmp))
      BY <1>2, <1>17
    <2>3. CopiedIn(tmp, t, base, base + L, Len(tmp)) /\ Agree(t, input, Len(tmp))
      BY <1>2, <1>12, <1>15, <2>1, <2>2, CopiedBack
    <2>4. QED
      BY <1>2, <1>17, <2>3
  <1>19. t \in Seq(Content) /\ Len(t) = n
    BY <1>18 DEF CopiedIn
  <1>20. /\ Odd => /\ Runs(t, n, runs - 1, runSize, lastSize + runSize, it)
                   /\ its = (runs - 1) \div 2
         /\ LastPair /\ ~Odd => Runs(t, n, runs \div 2, 2 * runSize, lastSize + runSize, 0)
         /\ ~LastPair => Runs(t, n, runs, runSize, lastSize, it + 1) /\ it + 1 < its
    <2>1. n \in Nat
      BY <1>2
    <2>2. QED
      BY <1>2, <1>8, <1>9, <1>10, <1>17, <1>18, <2>1, RunsAfterPair
  <1>21. TypeInv'
    <2>1. runs' \in Nat /\ runSize' \in Nat /\ lastSize' \in Nat /\ it' \in Nat
      <3>1. /\ runs - 1 \in Nat /\ lastSize + runSize \in Nat /\ runs \div 2 \in Nat
            /\ 2 * runSize \in Nat /\ it + 1 \in Nat
        BY <1>2
      <3>2. QED
        BY <1>2, <1>7, <3>1 DEF RepeatLast
    <2>2. pc' \in {"pass", "pair"}
      BY <1>7 DEF RepeatLast
    <2>3. inter' \in Seq(Content) /\ tmp' \in Seq(Content)
      BY <1>5, <1>6, <1>15, <1>19
    <2>4. TypeInv
      BY DEF IInv
    <2>5. QED
      BY <1>6, <2>1, <2>2, <2>3, <2>4 DEF TypeInv
  <1>22. SortInv' /\ MergeInv' /\ OutputSorted'
    <2>1. pc' = "pass" \/ pc' = "pair"
      BY <1>7 DEF RepeatLast
    <2>2. n > 0
      BY <1>2
    <2>3. SortInv'
      BY <1>2, <1>5, <1>6, <1>19, <2>1, <2>2 DEF SortInv
    <2>4. QED
      BY <2>1, <2>3 DEF MergeInv, OutputSorted
  <1>23. RunsInv'
    <2>1. CASE Odd /\ RepeatLast
      <3>1. pc' = "pair" /\ runs' = runs - 1 /\ lastSize' = lastSize + runSize /\ UNCHANGED <<runSize, it>>
        BY <2>1 DEF RepeatLast
      <3>2. Runs(t, n, runs - 1, runSize, lastSize + runSize, it) /\ its = (runs - 1) \div 2
        BY <1>20, <2>1
      <3>3. QED
        BY <1>2, <1>5, <1>6, <1>18, <3>1, <3>2 DEF RunsInv
    <2>2. CASE /\ LastPair /\ ~Odd
               /\ runs' = runs \div 2 /\ lastSize' = lastSize + runSize /\ runSize' = 2 * runSize
               /\ it' = it + 1 /\ pc' = "pass"
      <3>1. Runs(t, n, runs \div 2, 2 * runSize, lastSize + runSize, 0)
        BY <1>20, <2>2
      <3>2. QED
        BY <1>5, <1>6, <1>18, <2>2, <3>1 DEF RunsInv
    <2>3. CASE ~LastPair /\ it' = it + 1 /\ pc' = "pair" /\ UNCHANGED <<runs, runSize, lastSize>>
      <3>1. Runs(t, n, runs, runSize, lastSize, it + 1) /\ it + 1 < its
        BY <1>20, <2>3
      <3>2. QED
        BY <1>2, <1>5, <1>6, <1>18, <2>3, <3>1 DEF RunsInv
    <2>4. QED
      BY <1>7, <2>1, <2>2, <2>3
  <1>24. AssertionsHold'
    <2>1. ASSUME LastPair, ~Odd PROVE SortPhaseDone(t, runSize')
      <3>1. runSize' = 2 * runSize
        BY <1>7, <2>1
      <3>2. Runs(t, n, runs \div 2, 2 * runSize, lastSize + runSize, 0)
        BY <1>20, <2>1
      <3>3. n \in Nat
        BY <1>2
      <3>4. SortPhaseDone(t, 2 * runSize)
        BY <1>19, <3>2, <3>3, RunsPhaseDone
      <3>5. QED
        BY <3>1, <3>4
    <2>2. failed' = FALSE
      BY <1>6, <1>15, <1>16, <2>1 DEF IInv, AssertionsHold
    <2>3. QED
      BY <2>2 DEF AssertionsHold
  <1>25. QED
    BY <1>21, <1>22, <1>23, <1>24 DEF IInv

(* What the invariant says of the last merge. *)
LEMMA LastMergeFacts ==
    ASSUME IInv, pc = "final" \/ pc = "merge all"
    PROVE  /\ n \in Nat \ {0} /\ mem \in Nat \ {0}
           /\ tmp \in Seq(Content) /\ output \in Seq(Content) /\ Len(tmp) = n /\ Len(output) = n
           /\ Runs(tmp, n, runs, runSize, lastSize, 0)
           /\ runs \in Nat \ {0} /\ runSize \in Nat \ {0} /\ lastSize \in Nat \ {0}
           /\ mem \div (runs + 1) > 0 /\ Agree(tmp, input, n)
  <1>1. TypeInv /\ n \in Nat /\ mem \in Nat \ {0}
    BY TypeFacts DEF IInv
  <1>2. tmp \in Seq(Content) /\ output \in Seq(Content)
    BY <1>1 DEF TypeInv
  <1>3. n > 0 /\ Len(tmp) = n /\ Len(output) = n
    BY DEF IInv, SortInv
  <1>4. /\ Runs(tmp, n, runs, runSize, lastSize, 0) /\ mem \div (runs + 1) > 0
        /\ Agree(tmp, input, n)
    BY DEF IInv, RunsInv
  <1>5. runs \in Nat \ {0} /\ runSize \in Nat \ {0} /\ lastSize \in Nat \ {0}
    BY <1>4 DEF Runs
  <1>6. n \in Nat \ {0}
    BY <1>1, <1>3, PositiveNumber
  <1>7. QED
    BY <1>1, <1>2, <1>3, <1>4, <1>5, <1>6

(* The last merge begins with all runs of the file. *)
LEMMA LoadAllStep == IInv /\ LoadAll => IInv'
  <1> SUFFICES ASSUME IInv, LoadAll PROVE IInv'
    OBVIOUS
  <1>1. pc = "final" /\ pc' = "merge all"
    BY DEF LoadAll
  <1>2. /\ n \in Nat \ {0} /\ mem \in Nat \ {0}
        /\ tmp \in Seq(Content) /\ output \in Seq(Content) /\ Len(tmp) = n /\ Len(output) = n
        /\ Runs(tmp, n, runs, runSize, lastSize, 0)
        /\ runs \in Nat \ {0} /\ runSize \in Nat \ {0} /\ lastSize \in Nat \ {0}
        /\ mem \div (runs + 1) > 0 /\ Agree(tmp, input, n)
    BY <1>1, LastMergeFacts
  <1>3. PICK k \in Nat \ {0}, size \in Nat \ {0}, last \in Nat \ {0} :
           k = runs /\ size = runSize /\ last = lastSize
    BY <1>2
  <1>4. PICK lengths : lengths = [i \in 1..k |-> IF i = k THEN last ELSE size]
    OBVIOUS
  <1>5. /\ lengths \in Seq(Nat \ {0}) /\ lengths # <<>> /\ Len(lengths) = k /\ DOMAIN lengths = 1..k
        /\ lengths[k] = last /\ \A i \in 1 .. k - 1 : lengths[i] = size
    <2>1. lengths \in [1..k -> Nat \ {0}]
      BY <1>4
    <2>2. lengths \in Seq(Nat \ {0}) /\ Len(lengths) = k /\ DOMAIN lengths = 1..k
      BY <2>1
    <2>3. lengths # <<>>
      BY <2>2
    <2>4. lengths[k] = last
      BY <1>4
    <2>5. \A i \in 1 .. k - 1 : lengths[i] = size
      BY <1>4
    <2>6. QED
      BY <2>2, <2>3, <2>4, <2>5
  <1>6. PICK mm : mm = Loaded(0, lengths)
    OBVIOUS
  <1>7. /\ m' = mm /\ failed' = (failed \/ ~(InputBuffer(runs) > 0 /\ OutBuffer(runs) > 0))
        /\ UNCHANGED <<input, n, mem, tmp, inter, output, runs, runSize, lastSize, it, its>>
    BY <1>3, <1>4, <1>6 DEF LoadAll, Asserts
  <1>8. mm.base = 0 /\ mm.len = lengths
    BY <1>6 DEF Loaded
  <1>9. InputBuffer(k) > 0 /\ OutBuffer(k) > 0
    <2>1. InputBuffer(k) > 0
      BY <1>2, <1>3 DEF InputBuffer
    <2>2. OutBuffer(k) \in Nat \ {0}
      BY <1>2, <2>1, BufferSizes
    <2>3. QED
      BY <2>1, <2>2
  <1>10. Total(mm, size) = n
    <2>1. (k - 1) * size + last = n
      BY <1>2, <1>3 DEF Runs
    <2>2. QED
      BY <1>5, <1>8, <2>1 DEF Total
  <1>11. \A i \in 1..k : Start(mm, size, i) = (i - 1) * size
    <2> SUFFICES ASSUME NEW i \in 1..k PROVE Start(mm, size, i) = (i - 1) * size
      OBVIOUS
    <2>1. PICK a \in Nat : a = (i - 1) * size
      <3>1. PICK x \in Nat : x = i - 1
        OBVIOUS
      <3>2. QED
        BY <3>1, NextBlock
    <2>2. QED
      BY <1>8, <2>1 DEF Start
  <1>12. ASSUME NEW i \in 1..k
         PROVE  Rising(tmp, Start(mm, size, i), Start(mm, size, i) + mm.len[i])
    <2>1. PICK x \in Nat : x = i - 1 /\ i = x + 1
      OBVIOUS
    <2>2. PICK a \in Nat : a = x * size /\ (x + 1) * size = a + size
      BY NextBlock
    <2>3. Start(mm, size, i) = a
      BY <1>11, <2>1, <2>2
    <2>4. CASE i = k
      <3>1. mm.len[i] = last
        BY <1>5, <1>8, <2>4
      <3>2. (k - 1) * size + last = n /\ Rising(tmp, (k - 1) * size, n)
        BY <1>2, <1>3 DEF Runs
      <3>3. k - 1 = x
        BY <2>1, <2>4
      <3>4. a + last = n /\ Rising(tmp, a, n)
        BY <2>2, <3>2, <3>3
      <3>5. QED
        BY <2>3, <3>1, <3>4
    <2>5. CASE i # k
      <3>1. i \in 1 .. k - 1 /\ x \in 2 * 0 .. k - 2
        BY <2>1, <2>5
      <3>2. mm.len[i] = size
        BY <1>5, <1>8, <3>1
      <3>3. \A y \in 2 * 0 .. k - 2 : Rising(tmp, y * size, (y + 1) * size)
        BY <1>2, <1>3 DEF Runs
      <3>4. Rising(tmp, a, a + size)
        BY <2>2, <3>1, <3>3
      <3>5. QED
        BY <2>3, <3>2, <3>4
    <2>6. QED
      BY <2>4, <2>5
  <1>13. RunsOf(tmp, mm, size)
    <2>1. DOMAIN mm.len = 1..k /\ Len(mm.len) = k
      BY <1>5, <1>8
    <2>2. \A i \in 1 .. Len(mm.len) - 1 : mm.len[i] = size
      BY <1>5, <1>8, <2>1
    <2>3. mm.base + Total(mm, size) <= Len(tmp)
      BY <1>2, <1>8, <1>10
    <2>4. QED
      BY <1>12, <2>1, <2>2, <2>3 DEF RunsOf
  <1>14. Merging(tmp, mm, runSize, mem, output)
    <2>1. InputBuffer(Len(lengths)) > 0
      BY <1>5, <1>9
    <2>2. runSize \in Nat /\ mem \in Nat /\ 0 \in Nat
      BY <1>2
    <2>3. RunsOf(tmp, mm, runSize) /\ Len(output) = Total(mm, runSize)
      BY <1>2, <1>3, <1>10, <1>13
    <2>4. QED
      BY <1>2, <1>5, <1>6, <2>1, <2>2, <2>3, LoadedMerging
  <1>15. TypeInv'
    <2>1. TypeInv
      BY DEF IInv
    <2>2. QED
      BY <1>1, <1>7, <2>1 DEF TypeInv
  <1>16. SortInv' /\ RunsInv'
    <2>1. n > 0
      BY <1>2
    <2>2. SortInv'
      BY <1>1, <1>2, <1>7, <2>1 DEF SortInv
    <2>3. RunsInv'
      BY <1>1, <1>2, <1>7 DEF RunsInv
    <2>4. QED
      BY <2>2, <2>3
  <1>17. MergeInv'
    BY <1>1, <1>3, <1>4, <1>7, <1>8, <1>14 DEF MergeInv
  <1>18. OutputSorted' /\ AssertionsHold'
    BY <1>1, <1>3, <1>7, <1>9 DEF IInv, OutputSorted, AssertionsHold
  <1>19. QED
    BY <1>15, <1>16, <1>17, <1>18 DEF IInv

(* A value moves to the output buffer of the last merge. *)
LEMMA MergeAllStep == IInv /\ MergeAll => IInv'
  <1> SUFFICES ASSUME IInv, MergeAll PROVE IInv'
    OBVIOUS
  <1>1. pc = "merge all" /\ pc' = "merge all"
    BY DEF MergeAll
  <1>2. /\ n \in Nat \ {0} /\ mem \in Nat \ {0}
        /\ tmp \in Seq(Content) /\ output \in Seq(Content) /\ Len(tmp) = n /\ Len(output) = n
        /\ Runs(tmp, n, runs, runSize, lastSize, 0) /\ runSize \in Nat \ {0}
        /\ mem \div (runs + 1) > 0 /\ Agree(tmp, input, n)
    BY <1>1, LastMergeFacts
  <1>3. /\ Merging(tmp, m, runSize, mem, output) /\ m.base = 0
        /\ m.len = [i \in 1..runs |-> IF i = runs THEN lastSize ELSE runSize]
    BY <1>1 DEF IInv, MergeInv
  <1>4. MergeOne(output) /\ UNCHANGED <<input, n, mem, tmp, inter, runs, runSize, lastSize, it, its>>
    BY DEF MergeAll
  <1>5. /\ m.live # {} /\ m' = After /\ output' = Flushed(output)
        /\ failed' = (failed \/ ~(Ascending(LoadedBlock) /\ (Full => Ascending(TakenOut))))
    <2>1. MergeType(m)
      BY <1>3 DEF Merging
    <2>2. QED
      BY <1>4, <2>1, MergeOneOutput
  <1>6. /\ Merging(tmp, After, runSize, mem, Flushed(output)) /\ Flushed(output) \in Seq(Content)
        /\ Ascending(LoadedBlock) /\ (Full => Ascending(TakenOut))
        /\ After.base = m.base /\ After.len = m.len
    <2>1. runSize \in Nat /\ mem \in Nat
      BY <1>2
    <2>2. QED
      BY <1>2, <1>3, <1>5, <2>1, MergeStep
  <1>7. Len(output') = n
    <2>1. Len(output) = Total(m, runSize)
      BY <1>3 DEF Merging, Written
    <2>2. Len(Flushed(output)) = Total(After, runSize)
      BY <1>6 DEF Merging, Written
    <2>3. Total(After, runSize) = Total(m, runSize)
      BY <1>6 DEF Total
    <2>4. QED
      BY <1>2, <1>5, <2>1, <2>2, <2>3
  <1>8. TypeInv'
    <2>1. TypeInv
      BY DEF IInv
    <2>2. QED
      BY <1>1, <1>4, <1>5, <1>6, <2>1 DEF TypeInv
  <1>9. SortInv' /\ RunsInv'
    <2>1. n > 0
      BY <1>2
    <2>2. SortInv'
      BY <1>1, <1>2, <1>4, <1>7, <2>1 DEF SortInv
    <2>3. RunsInv'
      BY <1>1, <1>2, <1>4 DEF RunsInv
    <2>4. QED
      BY <2>2, <2>3
  <1>10. MergeInv'
    BY <1>1, <1>3, <1>4, <1>5, <1>6 DEF MergeInv
  <1>11. OutputSorted' /\ AssertionsHold'
    BY <1>1, <1>5, <1>6 DEF IInv, OutputSorted, AssertionsHold
  <1>12. QED
    BY <1>8, <1>9, <1>10, <1>11 DEF IInv

(* The rest of the output buffer completes the output. *)
LEMMA FinishAllStep == IInv /\ FinishAll => IInv'
  <1> SUFFICES ASSUME IInv, FinishAll PROVE IInv'
    OBVIOUS
  <1>1. /\ pc = "merge all" /\ m.live = {} /\ pc' = "done"
        /\ output' = Write(output, m.writes * Len(m.out), Rest(n))
        /\ failed' = (failed \/ ~Ascending(Rest(n)))
        /\ UNCHANGED <<input, n, mem, tmp, inter, runs, runSize, lastSize, it, its, m>>
    BY DEF FinishAll, Asserts
  <1>2. /\ n \in Nat \ {0} /\ mem \in Nat
        /\ tmp \in Seq(Content) /\ output \in Seq(Content) /\ Len(tmp) = n /\ Len(output) = n
        /\ runSize \in Nat \ {0} /\ Agree(tmp, input, n)
    <2>1. pc = "final" \/ pc = "merge all"
      BY <1>1
    <2>2. mem \in Nat \ {0}
      BY <2>1, LastMergeFacts
    <2>3. mem \in Nat
      BY <2>2
    <2>4. QED
      BY <2>1, <2>3, LastMergeFacts
  <1>3. Merging(tmp, m, runSize, mem, output) /\ m.base = 0
    BY <1>1 DEF IInv, MergeInv
  <1>4. PICK g : g = output'
    OBVIOUS
  <1>5. /\ g \in Seq(Content) /\ Len(g) = Len(output)
        /\ Rising(g, 0, Len(g)) /\ Ascending(Rest(Len(output)))
        /\ \A v \in Content : Count(v, g, 1..Len(g)) = Count(v, tmp, m.base + 1 .. m.base + Len(g))
    <2>1. g = Write(output, m.writes * Len(m.out), Rest(Len(output)))
      BY <1>1, <1>2, <1>4
    <2>2. QED
      BY <1>1, <1>2, <1>3, <2>1, MergeEnd
  <1>6. PICK k \in Nat : k = n
    BY <1>2
  <1>7. Finished(g, k)
    <2>1. g \in Seq(Content) /\ Len(g) = k /\ Rising(g, 0, k)
      BY <1>2, <1>5, <1>6
    <2>2. ASSUME NEW v \in Content PROVE Count(v, g, 1..k) = Count(v, input, 1..k)
      <3>1. Count(v, g, 1..k) = Count(v, tmp, 0 + 1 .. 0 + k)
        BY <1>3, <1>5, <2>1
      <3>2. 0 + 1 = 1 /\ 0 + k = k
        OBVIOUS
      <3>3. Count(v, tmp, 1..k) = Count(v, input, 1..k)
        BY <1>2, <1>6 DEF Agree
      <3>4. QED
        BY <3>1, <3>2, <3>3
    <2>3. QED
      BY <2>1, <2>2 DEF Finished, Agree
  <1>8. failed' = FALSE
    BY <1>1, <1>2, <1>5 DEF IInv, AssertionsHold
  <1>9. Finished(output', n)
    BY <1>4, <1>6, <1>7
  <1>10. QED
    BY <1>1, <1>8, <1>9, DoneStep

------------------------------------------------------------------------------
(* The theorems. *)

(***************************************************************************)
(* Every step of external_sort keeps the invariant, whatever the input,    *)
(* the size of memory and the number of values to be sorted.               *)
(***************************************************************************)
LEMMA NextStep == IInv /\ [Next]_vars => IInv'
  <1> SUFFICES ASSUME IInv, [Next]_vars PROVE IInv'
    OBVIOUS
  <1>1. CASE SortNothing
    BY <1>1, SortNothingStep
  <1>2. CASE InMemorySort
    BY <1>2, InMemorySortStep
  <1>3. CASE SplitIntoRuns
    BY <1>3, SplitIntoRunsStep
  <1>4. CASE SortRun
    BY <1>4, SortRunStep
  <1>5. CASE ChooseMerge
    BY <1>5, ChooseMergeStep
  <1>6. CASE BeginPass
    BY <1>6, BeginPassStep
  <1>7. CASE LoadPair
    BY <1>7, LoadPairStep
  <1>8. CASE MergePair
    BY <1>8, MergePairStep
  <1>9. CASE FinishPair
    BY <1>9, FinishPairStep
  <1>10. CASE LoadAll
    BY <1>10, LoadAllStep
  <1>11. CASE MergeAll
    BY <1>11, MergeAllStep
  <1>12. CASE FinishAll
    BY <1>12, FinishAllStep
  <1>13. CASE UNCHANGED vars
    <2>1. UNCHANGED <<pc, input, n, mem, tmp, inter, output, runs, runSize, lastSize, it, its, m, failed>>
      BY <1>13 DEF vars
    <2>2. TypeInv' /\ SortInv' /\ RunsInv'
      BY <2>1 DEF IInv, TypeInv, SortInv, RunsInv
    <2>3. MergeInv'
      BY <2>1 DEF IInv, MergeInv, Odd, LastPair
    <2>4. OutputSorted' /\ AssertionsHold'
      BY <2>1 DEF IInv, OutputSorted, AssertionsHold
    <2>5. QED
      BY <2>2, <2>3, <2>4 DEF IInv
  <1>14. QED
    BY <1>1, <1>2, <1>3, <1>4, <1>5, <1>6, <1>7, <1>8, <1>9, <1>10, <1>11, <1>12, <1>13 DEF Next

(* The invariant, and with it the types, of every execution.                 *)
THEOREM Invariant == Spec => []IInv
  <1>1. Init => IInv
    BY InitStep
  <1>2. IInv /\ [Next]_vars => IInv'
    BY NextStep
  <1>3. QED
    BY <1>1, <1>2, PTL DEF Spec

(***************************************************************************)
(* external_sort is right: when it returns, the output holds the first     *)
(* num_values values of the input, every one as often, in ascending order. *)
(***************************************************************************)
THEOREM OutputSortedHolds == Spec => []OutputSorted
  <1>1. IInv => OutputSorted
    BY DEF IInv
  <1>2. QED
    BY <1>1, Invariant, PTL

(* No assertion of external_sort fails: what is loaded, written or merged is *)
(* in order, sort_phase_done holds before and after a pass, and no buffer is *)
(* empty.                                                                    *)
THEOREM AssertionsNeverFail == Spec => []AssertionsHold
  <1>1. IInv => AssertionsHold
    BY DEF IInv
  <1>2. QED
    BY <1>1, Invariant, PTL

(* NUM_RUNS, RUN_SIZE and LAST_RUN_SIZE describe the temporary file whenever *)
(* a pass or the last merge begins.                                          *)
THEOREM RunsDescribeFileHolds == Spec => []RunsDescribeFile
  <1>1. IInv => RunsDescribeFile
    <2> SUFFICES ASSUME IInv, pc \in {"pass", "final"}
                 PROVE  /\ (runs - 1) * runSize + lastSize = n
                        /\ \A i \in 0..runs - 2 : Ascending(SubSeq(tmp, i * runSize + 1, (i + 1) * runSize))
                        /\ Ascending(SubSeq(tmp, (runs - 1) * runSize + 1, n))
                        /\ SameValues(tmp, SubSeq(input, 1, n))
      BY DEF RunsDescribeFile
    <2>1. TypeInv /\ input \in Seq(Content) /\ n \in Nat /\ n <= Len(input)
      BY TypeFacts DEF IInv
    <2>2. tmp \in Seq(Content) /\ Len(tmp) = n /\ Agree(tmp, input, n)
      BY <2>1 DEF IInv, TypeInv, SortInv, RunsInv
    <2>3. /\ runs \in Nat \ {0} /\ runSize \in Nat \ {0} /\ lastSize \in Nat \ {0}
          /\ (runs - 1) * runSize + lastSize = n
          /\ \A i \in 2 * 0 .. runs - 2 : Rising(tmp, i * runSize, (i + 1) * runSize)
          /\ Rising(tmp, (runs - 1) * runSize, n)
      BY DEF IInv, RunsInv, Runs
    <2>4. PICK k \in Nat, c \in Nat : k = runs - 1 /\ c = k * runSize
      <3>1. PICK k \in Nat : k = runs - 1
        BY <2>3
      <3>2. k * runSize \in Nat
        BY <2>3, NextBlock
      <3>3. QED
        BY <3>1, <3>2
    <2>5. ASSUME NEW i \in 0..runs - 2
          PROVE  Ascending(SubSeq(tmp, i * runSize + 1, (i + 1) * runSize))
      <3>1. PICK a \in Nat, b \in Nat : a = i * runSize /\ b = (i + 1) * runSize /\ b = a + runSize
        <4>1. i \in Nat
          OBVIOUS
        <4>2. QED
          BY <2>3, <4>1, NextBlock
      <3>2. b <= n
        <4>1. i \in Nat /\ i < k
          BY <2>3, <2>4
        <4>2. i * runSize + runSize <= k * runSize
          BY <2>3, <4>1, BlockOrder
        <4>3. QED
          BY <2>3, <2>4, <3>1, <4>2
      <3>3. Rising(tmp, a, b)
        <4>1. i \in 2 * 0 .. runs - 2
          OBVIOUS
        <4>2. QED
          BY <2>3, <3>1, <4>1
      <3>4. a <= b /\ b <= Len(tmp)
        BY <2>2, <2>3, <3>1, <3>2
      <3>5. Ascending(SubSeq(tmp, a + 1, b))
        BY <2>2, <3>3, <3>4, PartAscends
      <3>6. QED
        BY <3>1, <3>5
    <2>6. Ascending(SubSeq(tmp, (runs - 1) * runSize + 1, n))
      <3>1. c <= n /\ n <= Len(tmp) /\ n \in Nat
        BY <2>1, <2>2, <2>3, <2>4
      <3>2. Rising(tmp, c, n)
        BY <2>3, <2>4
      <3>3. Ascending(SubSeq(tmp, c + 1, n))
        BY <2>2, <3>1, <3>2, PartAscends
      <3>4. QED
        BY <2>4, <3>3
    <2>7. SameValues(tmp, SubSeq(input, 1, n))
      <3>1. Len(tmp) <= Len(input) /\ Agree(tmp, input, Len(tmp))
        BY <2>1, <2>2
      <3>2. SameValues(tmp, SubSeq(input, 1, Len(tmp)))
        BY <2>1, <2>2, <3>1, SameFromAgree
      <3>3. QED
        BY <2>2, <3>2
    <2>8. QED
      BY <2>3, <2>5, <2>6, <2>7
  <1>2. QED
    BY <1>1, Invariant, PTL

(* A merge in progress conserves the values of its runs. *)
LEMMA MergingConserves ==
    ASSUME NEW f \in Seq(Content), tmp \in Seq(Content), runSize \in Nat \ {0}, mem \in Nat,
           Merging(tmp, m, runSize, mem, f)
    PROVE  /\ \A i \in m.live : Offered(i) = tmp[RunStart(i) + m.len[i] - m.rem[i] + 1]
           /\ Len(Merged(f)) = Cardinality(GivenAway)
           /\ \A v \in ToSet(tmp) :
                 Occurrences(v, Merged(f)) = Cardinality({p \in GivenAway : tmp[p] = v})
  <1>1. PICK k \in Nat \ {0} : k = Len(m.len) /\ DOMAIN m.len = 1..k
    BY MergeFields DEF Merging
  <1>2. PICK block \in Nat \ {0} : block = mem \div (k + 1)
    <2>1. PICK b \in Nat \ {0} : b = k + 1
      OBVIOUS
    <2>2. mem \div b \in Nat
      BY <2>1, Division
    <2>3. mem \div (k + 1) > 0
      BY <1>1 DEF Merging
    <2>4. QED
      BY <2>1, <2>2, <2>3
  <1>3. /\ MergeType(m) /\ RunsOf(tmp, m, runSize)
        /\ Buffers(tmp, m, runSize, block) /\ Written(tmp, m, runSize, f)
    BY <1>1, <1>2 DEF Merging
  <1>4. m.len \in [1..k -> Nat \ {0}] /\ m.rem \in [1..k -> Nat]
    BY <1>1, <1>3, MergeFields
  <1>5. ASSUME NEW i \in 1..k
        PROVE  /\ Start(m, runSize, i) = RunStart(i) /\ RunStart(i) \in Nat
               /\ RunStart(i) + m.len[i] - m.rem[i] = RunStart(i) + Gone(m, i)
    <2>1. PICK a \in Nat : a = Start(m, runSize, i)
      <3>1. i \in DOMAIN m.len
        BY <1>1
      <3>2. runSize \in Nat
        OBVIOUS
      <3>3. QED
        BY <1>3, <3>1, <3>2, StartOrder
    <2>2. RunStart(i) = a
      BY <2>1 DEF RunStart, Start
    <2>3. PICK l \in Nat, r \in Nat : l = m.len[i] /\ r = m.rem[i]
      BY <1>4
    <2>4. Gone(m, i) = l - r
      BY <2>3 DEF Gone
    <2>5. a + l - r = a + (l - r)
      BY <2>3
    <2>6. QED
      BY <2>1, <2>2, <2>3, <2>4, <2>5
  <1>6. ASSUME NEW i \in m.live
        PROVE  Offered(i) = tmp[RunStart(i) + m.len[i] - m.rem[i] + 1]
    <2>1. Offered(i) = tmp[Start(m, runSize, i) + Gone(m, i) + 1] /\ i \in DOMAIN m.len
      <3>1. runSize \in Nat
        OBVIOUS
      <3>2. QED
        BY <1>3, <3>1, OfferedIsNext
    <2>2. i \in 1..k
      BY <1>1, <2>1
    <2>3. /\ Start(m, runSize, i) = RunStart(i)
          /\ RunStart(i) + m.len[i] - m.rem[i] = RunStart(i) + Gone(m, i)
      BY <1>5, <2>2
    <2>4. QED
      BY <2>1, <2>3
  <1>7. GivenAway = Given(m, runSize)
    BY <1>1, <1>5 DEF GivenAway, Given
  <1>8. PICK R : R = Result(m, f)
    OBVIOUS
  <1>9. Merged(f) = R
    BY <1>8 DEF Merged, Result
  <1>10. PICK d \in Nat : d = Done(m) /\ R \in Seq(Content) /\ Len(R) = d /\ DOMAIN R = 1..d
    <2>1. PICK ww : ww = m.writes * Len(m.out)
      OBVIOUS
    <2>2. \A i \in DOMAIN m.len : m.rem[i] <= m.len[i]
      BY <1>3 DEF Buffers
    <2>3. runSize \in Nat
      OBVIOUS
    <2>4. Done(m) \in Nat /\ ResultIs(m, f, ww)
      BY <1>3, <2>1, <2>2, <2>3, DoneFits
    <2>5. R \in Seq(Content) /\ Len(R) = Done(m)
      BY <1>8, <2>4 DEF ResultIs
    <2>6. QED
      BY <2>4, <2>5
  <1>11. Len(Merged(f)) = Cardinality(GivenAway)
    BY <1>3, <1>7, <1>9, <1>10 DEF Written
  <1>12. ASSUME NEW v \in ToSet(tmp)
         PROVE  Occurrences(v, Merged(f)) = Cardinality({p \in GivenAway : tmp[p] = v})
    <2>1. v \in Content
      BY ContentNumbers DEF ToSet
    <2>2. Count(v, R, 1..d) = Count(v, tmp, Given(m, runSize))
      BY <1>3, <1>8, <1>10, <2>1 DEF Written
    <2>3. Occurrences(v, R) = Count(v, R, 1..d)
      BY <1>10 DEF Occurrences, Count
    <2>4. Count(v, tmp, Given(m, runSize)) = Cardinality({p \in GivenAway : tmp[p] = v})
      BY <1>7 DEF Count
    <2>5. QED
      BY <1>9, <2>2, <2>3, <2>4
  <1>13. QED
    BY <1>6, <1>11, <1>12

(* A buffer that is loaded again skips and repeats no value of its run, and  *)
(* what has been merged is exactly what the runs have given away.            *)
THEOREM MergeConservesHolds == Spec => []MergeConserves
  <1>1. IInv => MergeConserves
    <2> SUFFICES ASSUME IInv PROVE MergeConserves
      OBVIOUS
    <2>1. TypeInv /\ mem \in Nat \ {0}
      BY TypeFacts DEF IInv
    <2>2. mem \in Nat /\ inter \in Seq(Content) /\ output \in Seq(Content) /\ tmp \in Seq(Content)
      BY <2>1 DEF TypeInv
    <2>3. ASSUME pc = "merge pair" \/ pc = "merge all" PROVE runSize \in Nat \ {0}
      BY <2>3, PassFacts, LastMergeFacts
    <2>4. ASSUME NEW f \in Seq(Content), Merging(tmp, m, runSize, mem, f), runSize \in Nat \ {0}
          PROVE  /\ \A i \in m.live : Offered(i) = tmp[RunStart(i) + m.len[i] - m.rem[i] + 1]
                 /\ Len(Merged(f)) = Cardinality(GivenAway)
                 /\ \A v \in ToSet(tmp) :
                       Occurrences(v, Merged(f)) = Cardinality({p \in GivenAway : tmp[p] = v})
      BY <2>2, <2>4, MergingConserves
    <2>5. CASE pc = "merge pair"
      <3>1. Merging(tmp, m, runSize, mem, inter)
        BY <2>5 DEF IInv, MergeInv
      <3>2. QED
        BY <2>2, <2>3, <2>4, <2>5, <3>1 DEF MergeConserves
    <2>6. CASE pc = "merge all"
      <3>1. Merging(tmp, m, runSize, mem, output)
        BY <2>6 DEF IInv, MergeInv
      <3>2. QED
        BY <2>2, <2>3, <2>4, <2>6, <3>1 DEF MergeConserves
    <2>7. QED
      BY <2>5, <2>6 DEF MergeConserves
  <1>2. QED
    BY <1>1, Invariant, PTL
=============================================================================
