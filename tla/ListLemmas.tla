----------------------------- MODULE ListLemmas -----------------------------
(***************************************************************************)
(* Lemmas about lists of distinct elements, as the buffer manager and the  *)
(* replacer keep them: what erasing and adding an element do to the set of *)
(* elements and to their order.                                            *)
(***************************************************************************)
EXTENDS Integers, Sequences, SequencesExt, FiniteSetTheorems, SequenceTheorems,
        WellFoundedInduction, TLAPS

(* In the list e comes somewhere before f. *)
Before(list, e, f) ==
    \E i, j \in DOMAIN list : i < j /\ list[i] = e /\ list[j] = f

(* A set of numbers has a least element. *)
LEMMA NatMinimum ==
    ASSUME NEW T \in SUBSET Nat, T # {}
    PROVE  Min(T) \in T /\ \A y \in T : Min(T) <= y
  <1> DEFINE R == OpToRel(<, Nat)
  <1>1. IsWellFoundedOn(R, Nat)
    BY NatLessThanWellFounded
  <1>2. \A x, y \in Nat : <<x, y>> \in R <=> x < y
    BY DEF OpToRel
  <1> HIDE DEF R
  <1>3. PICK x \in T : \A y \in T : ~ (<<y, x>> \in R)
    BY <1>1, WFMin
  <1>4. ASSUME NEW y \in T PROVE x <= y
    <2>1. ~(y < x) /\ x \in Nat /\ y \in Nat
      BY <1>2, <1>3
    <2>2. QED
      BY <2>1
  <1>5. \E z \in T : \A y \in T : z <= y
    BY <1>4
  <1>6. QED
    BY <1>5 DEF Min

(* A set of numbers below n has a greatest element. *)
LEMMA NatMaximum ==
    ASSUME NEW n \in Nat, NEW T \in SUBSET (0..n), T # {}
    PROVE  Max(T) \in T /\ \A y \in T : y <= Max(T)
  <1> DEFINE U == {k \in 0..n : n - k \in T}
  <1>1. U \in SUBSET Nat /\ U # {}
    <2>1. PICK x \in T : TRUE
      OBVIOUS
    <2>2. x \in Int /\ n - x \in 0..n /\ n - (n - x) = x
      BY <2>1
    <2>3. n - x \in U
      BY <2>1, <2>2
    <2>4. U # {}
      BY <2>3
    <2>5. U \subseteq 0..n /\ 0..n \subseteq Nat
      OBVIOUS
    <2> HIDE DEF U
    <2>6. QED
      BY <2>4, <2>5
  <1> DEFINE k == Min(U)
  <1>2. k \in U /\ \A y \in U : k <= y
    BY <1>1, NatMinimum
  <1> HIDE DEF k
  <1>3. n - k \in T
    BY <1>2
  <1>4. ASSUME NEW y \in T PROVE y <= n - k
    <2>1. y \in Int /\ n - y \in 0..n /\ n - (n - y) = y
      OBVIOUS
    <2>2. n - y \in U
      BY <2>1
    <2>3. k <= n - y /\ k \in 0..n
      BY <1>2, <2>2
    <2>4. QED
      BY <2>3
  <1>5. \E x \in T : \A y \in T : x >= y
    <2>1. \A y \in T : n - k >= y
      BY <1>2, <1>4
    <2>2. QED
      BY <1>3, <2>1
  <1>6. QED
    BY <1>5 DEF Max

(* RemoveAt closes the gap it makes. *)
LEMMA RemoveAtElements ==
    ASSUME NEW S, NEW list \in Seq(S), NEW k \in 1..Len(list)
    PROVE  /\ RemoveAt(list, k) \in Seq(S)
           /\ Len(RemoveAt(list, k)) = Len(list) - 1
           /\ \A i \in 1..(Len(list) - 1) :
                 RemoveAt(list, k)[i] = IF i < k THEN list[i] ELSE list[i + 1]
  <1> DEFINE front == SubSeq(list, 1, k - 1)
             back == SubSeq(list, k + 1, Len(list))
  <1>0. Len(list) \in Nat /\ k \in Nat
    OBVIOUS
  <1>1. /\ front \in Seq(S) /\ Len(front) = k - 1
        /\ \A i \in 1..(k - 1) : front[i] = list[i]
    BY SubSeqProperties
  <1>2. /\ back \in Seq(S) /\ Len(back) = Len(list) - k
        /\ \A i \in 1..(Len(list) - k) : back[i] = list[k + i]
    BY SubSeqProperties
  <1>3. RemoveAt(list, k) = front \o back
    BY DEF RemoveAt
  <1> HIDE DEF front, back
  <1>4. /\ front \o back \in Seq(S)
        /\ Len(front \o back) = Len(list) - 1
        /\ \A i \in 1..(Len(list) - 1) :
              (front \o back)[i] = IF i <= k - 1 THEN front[i] ELSE back[i - (k - 1)]
    <2>1. front \o back \in Seq(S) /\ Len(front \o back) = Len(front) + Len(back)
      BY <1>1, <1>2, ConcatProperties
    <2>2. Len(front) + Len(back) = Len(list) - 1
      BY <1>0, <1>1, <1>2
    <2>3. \A i \in 1..(Len(front) + Len(back)) :
             (front \o back)[i] = IF i <= Len(front) THEN front[i] ELSE back[i - Len(front)]
      BY <1>1, <1>2, ConcatProperties
    <2>4. QED
      BY <1>1, <2>1, <2>2, <2>3
  <1>5. \A i \in 1..(Len(list) - 1) :
           (front \o back)[i] = IF i < k THEN list[i] ELSE list[i + 1]
    <2> TAKE i \in 1..(Len(list) - 1)
    <2>1. CASE i < k
      BY <2>1, <1>1, <1>4
    <2>2. CASE i >= k
      <3>1. i - (k - 1) \in 1..(Len(list) - k) /\ k + (i - (k - 1)) = i + 1
        BY <2>2
      <3>2. (front \o back)[i] = back[i - (k - 1)]
        BY <2>2, <1>4
      <3>3. back[i - (k - 1)] = list[k + (i - (k - 1))]
        BY <3>1, <1>2
      <3>4. QED
        BY <2>2, <3>1, <3>2, <3>3
    <2>3. i < k \/ i >= k
      BY <1>0
    <2>4. QED
      BY <2>1, <2>2, <2>3
  <1>6. QED
    BY <1>3, <1>4, <1>5

(* RemoveFirst erases an element where it is. *)
LEMMA RemoveFirstAt ==
    ASSUME NEW S, NEW list \in Seq(S), NEW p \in ToSet(list)
    PROVE  \E k \in 1..Len(list) : list[k] = p /\ RemoveFirst(list, p) = RemoveAt(list, k)
  <1> DEFINE I == {i \in 1..Len(list) : list[i] = p}
  <1>1. \E i \in 1..Len(list) : list[i] = p
    BY DEF ToSet
  <1>2. I # {} /\ I \subseteq 1..Len(list) /\ Len(list) \in Nat
    BY <1>1
  <1>3. SelectInSeq(list, LAMBDA v : v = p) = Min(I)
    BY <1>2 DEF SelectInSeq
  <1>4. RemoveFirst(list, p) = RemoveAt(list, Min(I))
    BY <1>1, <1>3 DEF RemoveFirst
  <1> HIDE DEF I
  <1>5. Min(I) \in I
    BY <1>2, NatMinimum
  <1>6. QED
    BY <1>4, <1>5 DEF I

(* An element that is not there cannot be erased. *)
LEMMA RemoveFirstAbsent ==
    ASSUME NEW S, NEW list \in Seq(S), NEW p, p \notin ToSet(list)
    PROVE  RemoveFirst(list, p) = list
  BY DEF RemoveFirst, ToSet

(* Erasing an element of a list of distinct elements takes out that element. *)
LEMMA RemoveFirstElements ==
    ASSUME NEW S, NEW list \in Seq(S), IsInjective(list), NEW p
    PROVE  /\ RemoveFirst(list, p) \in Seq(S)
           /\ IsInjective(RemoveFirst(list, p))
           /\ ToSet(RemoveFirst(list, p)) = ToSet(list) \ {p}
  <1>1. CASE p \in ToSet(list)
    <2>1. PICK k \in 1..Len(list) : list[k] = p /\ RemoveFirst(list, p) = RemoveAt(list, k)
      BY <1>1, RemoveFirstAt
    <2>2. \A i, j \in 1..Len(list) : list[i] = list[j] => i = j
      BY DEF IsInjective
    <2> DEFINE rest == RemoveAt(list, k)
    <2>3. /\ rest \in Seq(S)
          /\ Len(rest) = Len(list) - 1
          /\ \A i \in 1..(Len(list) - 1) : rest[i] = IF i < k THEN list[i] ELSE list[i + 1]
      BY RemoveAtElements
    <2> HIDE DEF rest
    <2>4. IsInjective(rest)
      BY <2>2, <2>3 DEF IsInjective
    <2>5. ToSet(rest) \subseteq ToSet(list) \ {p}
      BY <2>1, <2>2, <2>3 DEF ToSet
    <2>6. ASSUME NEW q \in ToSet(list) \ {p} PROVE q \in ToSet(rest)
      <3>1. PICK i \in 1..Len(list) : list[i] = q
        BY DEF ToSet
      <3>2. i # k
        BY <2>1, <3>1
      <3>3. rest[IF i < k THEN i ELSE i - 1] = q
        BY <2>3, <3>1, <3>2
      <3>4. QED
        BY <2>3, <3>2, <3>3 DEF ToSet
    <2>7. QED
      BY <2>1, <2>3, <2>4, <2>5, <2>6 DEF rest
  <1>2. CASE p \notin ToSet(list)
    BY <1>2, RemoveFirstAbsent
  <1>3. QED
    BY <1>1, <1>2

(* The others keep their order. *)
LEMMA RemoveFirstOrder ==
    ASSUME NEW S, NEW list \in Seq(S), NEW p, NEW e, NEW f, Before(RemoveFirst(list, p), e, f)
    PROVE  Before(list, e, f)
  <1>1. CASE p \in ToSet(list)
    <2>1. PICK k \in 1..Len(list) : RemoveFirst(list, p) = RemoveAt(list, k)
      BY <1>1, RemoveFirstAt
    <2> DEFINE rest == RemoveAt(list, k)
    <2>2. /\ rest \in Seq(S)
          /\ Len(rest) = Len(list) - 1
          /\ \A i \in 1..(Len(list) - 1) : rest[i] = IF i < k THEN list[i] ELSE list[i + 1]
      BY RemoveAtElements
    <2>3. PICK i, j \in DOMAIN rest : i < j /\ rest[i] = e /\ rest[j] = f
      BY <2>1 DEF Before
    <2> HIDE DEF rest
    <2> DEFINE i2 == IF i < k THEN i ELSE i + 1
               j2 == IF j < k THEN j ELSE j + 1
    <2>4. i \in 1..(Len(list) - 1) /\ j \in 1..(Len(list) - 1) /\ Len(list) \in Nat
      BY <2>2, <2>3
    <2>5. i2 \in 1..Len(list) /\ j2 \in 1..Len(list) /\ i2 < j2
      BY <2>3, <2>4
    <2>6. list[i2] = e /\ list[j2] = f
      BY <2>2, <2>3, <2>4
    <2> HIDE DEF i2, j2
    <2>7. QED
      BY <2>5, <2>6 DEF Before
  <1>2. CASE p \notin ToSet(list)
    BY <1>2, RemoveFirstAbsent
  <1>3. QED
    BY <1>1, <1>2

(* An element at the end. *)
LEMMA AppendElements ==
    ASSUME NEW S, NEW list \in Seq(S), NEW p \in S
    PROVE  /\ Append(list, p) \in Seq(S)
           /\ ToSet(Append(list, p)) = ToSet(list) \cup {p}
           /\ IsInjective(list) /\ p \notin ToSet(list) => IsInjective(Append(list, p))
  <1>1. /\ Append(list, p) \in Seq(S)
        /\ Len(Append(list, p)) = Len(list) + 1
        /\ \A i \in 1..(Len(list) + 1) :
              Append(list, p)[i] = IF i = Len(list) + 1 THEN p ELSE list[i]
    BY AppendProperties
  <1>2. DOMAIN Append(list, p) = 1..(Len(list) + 1) /\ DOMAIN list = 1..Len(list) /\ Len(list) \in Nat
    BY <1>1
  <1>3. ToSet(Append(list, p)) = ToSet(list) \cup {p}
    BY <1>1, <1>2 DEF ToSet
  <1>4. IsInjective(list) /\ p \notin ToSet(list) => IsInjective(Append(list, p))
    BY <1>1, <1>2 DEF IsInjective, ToSet
  <1>5. QED
    BY <1>1, <1>3, <1>4

(* It comes after all others. *)
LEMMA AppendOrder ==
    ASSUME NEW S, NEW list \in Seq(S), NEW p \in S, NEW e, NEW f, Before(Append(list, p), e, f)
    PROVE  Before(list, e, f) \/ (f = p /\ e \in ToSet(list))
  <1>1. /\ Len(Append(list, p)) = Len(list) + 1 /\ Len(list) \in Nat
        /\ \A i \in 1..(Len(list) + 1) :
              Append(list, p)[i] = IF i = Len(list) + 1 THEN p ELSE list[i]
    BY AppendProperties
  <1>2. PICK i, j \in 1..(Len(list) + 1) : i < j /\ Append(list, p)[i] = e /\ Append(list, p)[j] = f
    BY <1>1 DEF Before
  <1>3. i \in 1..Len(list) /\ list[i] = e
    BY <1>1, <1>2
  <1>4. CASE j = Len(list) + 1
    BY <1>1, <1>2, <1>3, <1>4 DEF ToSet
  <1>5. CASE j # Len(list) + 1
    BY <1>1, <1>2, <1>3, <1>5 DEF Before
  <1>6. QED
    BY <1>4, <1>5

(* Where the elements are after one has been put to the front. *)
LEMMA ConsPositions ==
    ASSUME NEW S, NEW list \in Seq(S), NEW p \in S
    PROVE  /\ Cons(p, list) \in Seq(S)
           /\ Len(Cons(p, list)) = Len(list) + 1 /\ Len(list) \in Nat
           /\ \A i \in 1..(Len(list) + 1) :
                 Cons(p, list)[i] = IF i = 1 THEN p ELSE list[i - 1]
  <1>1. <<p>> \in Seq(S) /\ Len(<<p>>) = 1 /\ <<p>>[1] = p
    OBVIOUS
  <1>2. Cons(p, list) = <<p>> \o list
    BY DEF Cons
  <1> DEFINE one == <<p>>
  <1> HIDE DEF one
  <1>3. /\ one \o list \in Seq(S)
        /\ Len(one \o list) = Len(one) + Len(list)
        /\ \A i \in 1..(Len(one) + Len(list)) :
              (one \o list)[i] = IF i <= Len(one) THEN one[i] ELSE list[i - Len(one)]
    BY <1>1, ConcatProperties DEF one
  <1>4. one \in Seq(S) /\ Len(one) = 1 /\ one[1] = p /\ Cons(p, list) = one \o list
    BY <1>1, <1>2 DEF one
  <1>5. Len(list) \in Nat
    OBVIOUS
  <1>6. QED
    BY <1>3, <1>4, <1>5

(* An element at the front. *)
LEMMA ConsElements ==
    ASSUME NEW S, NEW list \in Seq(S), NEW p \in S
    PROVE  /\ Cons(p, list) \in Seq(S)
           /\ ToSet(Cons(p, list)) = ToSet(list) \cup {p}
           /\ IsInjective(list) /\ p \notin ToSet(list) => IsInjective(Cons(p, list))
  <1> DEFINE longer == Cons(p, list)
  <1>1. /\ longer \in Seq(S) /\ Len(longer) = Len(list) + 1 /\ Len(list) \in Nat
        /\ \A i \in 1..(Len(list) + 1) : longer[i] = IF i = 1 THEN p ELSE list[i - 1]
    BY ConsPositions
  <1> HIDE DEF longer
  <1>2. ToSet(longer) \subseteq ToSet(list) \cup {p} /\ p \in ToSet(longer)
    BY <1>1 DEF ToSet
  <1>3. ASSUME NEW q \in ToSet(list) PROVE q \in ToSet(longer)
    <2>1. PICK i \in 1..Len(list) : list[i] = q
      BY DEF ToSet
    <2>2. longer[i + 1] = q /\ i + 1 \in 1..Len(longer)
      BY <1>1, <2>1
    <2>3. DOMAIN longer = 1..Len(longer)
      BY <1>1
    <2>4. QED
      BY <2>2, <2>3 DEF ToSet
  <1>4. IsInjective(list) /\ p \notin ToSet(list) => IsInjective(longer)
    BY <1>1 DEF IsInjective, ToSet
  <1>5. QED
    BY <1>1, <1>2, <1>3, <1>4 DEF longer

(* It comes before all others. *)
LEMMA ConsOrder ==
    ASSUME NEW S, NEW list \in Seq(S), NEW p \in S, NEW e, NEW f, Before(Cons(p, list), e, f)
    PROVE  Before(list, e, f) \/ (e = p /\ f \in ToSet(list))
  <1>1. /\ Cons(p, list) \in Seq(S)
        /\ Len(Cons(p, list)) = Len(list) + 1 /\ Len(list) \in Nat
        /\ \A i \in 1..(Len(list) + 1) : Cons(p, list)[i] = IF i = 1 THEN p ELSE list[i - 1]
    BY ConsPositions
  <1>2. PICK i, j \in 1..(Len(list) + 1) : i < j /\ Cons(p, list)[i] = e /\ Cons(p, list)[j] = f
    BY <1>1 DEF Before
  <1>3. j - 1 \in 1..Len(list) /\ list[j - 1] = f
    BY <1>1, <1>2
  <1>4. CASE i = 1
    BY <1>1, <1>2, <1>3, <1>4 DEF ToSet
  <1>5. CASE i # 1
    <2>1. i - 1 \in 1..Len(list) /\ list[i - 1] = e /\ i - 1 < j - 1
      BY <1>1, <1>2, <1>5
    <2>2. QED
      BY <1>3, <2>1 DEF Before
  <1>6. QED
    BY <1>4, <1>5

(* A list of distinct elements is as long as they are many. *)
LEMMA DistinctCount ==
    ASSUME NEW S, NEW list \in Seq(S), IsInjective(list)
    PROVE  IsFiniteSet(ToSet(list)) /\ Cardinality(ToSet(list)) = Len(list)
  <1>1. IsFiniteSet(1..Len(list)) /\ Cardinality(1..Len(list)) = Len(list)
    <2>1. Len(list) \in Nat
      OBVIOUS
    <2> DEFINE n == Len(list)
    <2> HIDE DEF n
    <2>2. n \in Nat /\ 1 \in Int /\ n \in Int
      BY <2>1 DEF n
    <2>3. IsFiniteSet(1..n) /\ Cardinality(1..n) = IF 1 > n THEN 0 ELSE n - 1 + 1
      BY <2>2, FS_Interval
    <2>4. (IF 1 > n THEN 0 ELSE n - 1 + 1) = n
      BY <2>2
    <2>5. QED
      BY <2>3, <2>4 DEF n
  <1>2. list \in Bijection(1..Len(list), ToSet(list))
    BY DEF Bijection, Injection, Surjection, IsInjective, ToSet
  <1>3. QED
    BY <1>1, <1>2, FS_Bijection DEF ExistsBijection
=============================================================================
