--------------------------- MODULE ExternalSortInv ---------------------------
(***************************************************************************)
(* The inductive invariant of the external sort, by parts: what every step *)
(* of ExternalSort preserves, and from which its properties follow.  The   *)
(* parts take the file, the record of the merge and the sizes they are     *)
(* about as arguments, so that they can be said of the states before and   *)
(* after a step, and of either of the files that a merge writes.           *)
(***************************************************************************)
EXTENDS ExternalSort

(* What a file may hold: values, and what it is resized with. *)
Content == Values \cup {0}

(* The file ascends from behind position a up to position b. *)
Rising(f, a, b) == \A p \in a + 1 .. b - 1 : f[p] <= f[p + 1]

(* How often f holds v at the positions of S. *)
Count(v, f, S) == Cardinality({p \in S : f[p] = v})

(* The first k positions of two files hold the same values equally often. *)
Agree(f, g, k) == \A v \in Content : Count(v, f, 1..k) = Count(v, g, 1..k)

(***************************************************************************)
(* A file of k runs that hold total values: all have the same size but the *)
(* last, and ascend.  The first q pairs of them are merged already.        *)
(***************************************************************************)
Runs(f, total, k, size, last, q) ==
    /\ k \in Nat \ {0} /\ size \in Nat \ {0} /\ last \in Nat \ {0}
    /\ (k - 1) * size + last = total
    /\ \A i \in 0 .. q - 1 : Rising(f, i * (2 * size), (i + 1) * (2 * size))
    /\ \A i \in 2 * q .. k - 2 : Rising(f, i * size, (i + 1) * size)
    /\ Rising(f, (k - 1) * size, total)

------------------------------------------------------------------------------
(* Where run i begins in the file, and how much of it has been given away. *)
Start(mm, size, i) == mm.base + (i - 1) * size

Gone(mm, i) == mm.len[i] - mm.rem[i]

Given(mm, size) ==
    UNION {Start(mm, size, i) + 1 .. Start(mm, size, i) + Gone(mm, i) : i \in DOMAIN mm.len}

MergeType(mm) ==
    /\ mm \in [base : Nat, len : Seq(Nat \ {0}), rem : Seq(Nat), buf : Seq(Seq(Content)),
               push : Seq(Nat), read : Seq(Nat), live : SUBSET Nat, out : Seq(Content),
               count : Nat, writes : Nat]
    /\ mm.len # <<>>
    /\ \A list \in {mm.rem, mm.push, mm.read} : Len(list) = Len(mm.len)
    /\ Len(mm.buf) = Len(mm.len)

(* The values of all runs of a merge. *)
Total(mm, size) == (Len(mm.len) - 1) * size + mm.len[Len(mm.len)]

(* The runs follow each other in t, and ascend. *)
RunsOf(t, mm, size) ==
    /\ \A i \in 1 .. Len(mm.len) - 1 : mm.len[i] = size
    /\ mm.base + Total(mm, size) <= Len(t)
    /\ \A i \in DOMAIN mm.len :
          Rising(t, Start(mm, size, i), Start(mm, size, i) + mm.len[i])

(* Run i has a block of its values in its buffer, of which push is the next. *)
BufferOf(t, mm, size, block, i) ==
    LET first == Gone(mm, i) - mm.push[i] + 1
    IN  /\ mm.push[i] \in 1..block /\ first >= 0
        /\ \/ mm.read[i] = first + block
           \/ mm.read[i] = mm.len[i] /\ mm.len[i] <= first + block
        /\ \A j \in 1..block :
              first + j <= mm.len[i] => mm.buf[i][j] = t[Start(mm, size, i) + first + j]

Buffers(t, mm, size, block) ==
    /\ \A i \in DOMAIN mm.len : mm.rem[i] <= mm.len[i] /\ Len(mm.buf[i]) = block
    /\ mm.live = {i \in DOMAIN mm.len : mm.rem[i] > 0}
    /\ \A i \in mm.live : BufferOf(t, mm, size, block, i)

Done(mm) == mm.writes * Len(mm.out) + mm.count

Result(mm, file) == SubSeq(file, 1, mm.writes * Len(mm.out)) \o SubSeq(mm.out, 1, mm.count)

(***************************************************************************)
(* What has been written and what is in the output buffer ascends, is not  *)
(* greater than what any run has left, and is what the runs have given.    *)
(***************************************************************************)
Written(t, mm, size, file) ==
    /\ mm.count < Len(mm.out)
    /\ Len(file) = Total(mm, size)
    /\ Done(mm) = Cardinality(Given(mm, size))
    /\ \A v \in Content : Count(v, Result(mm, file), 1..Done(mm)) = Count(v, t, Given(mm, size))
    /\ Rising(Result(mm, file), 0, Done(mm))
    /\ Done(mm) > 0 =>
          \A i \in mm.live : Result(mm, file)[Done(mm)] <= t[Start(mm, size, i) + Gone(mm, i) + 1]

Merging(t, mm, size, memory, file) ==
    LET block == memory \div (Len(mm.len) + 1)
    IN  /\ MergeType(mm)
        /\ block > 0 /\ Len(mm.out) = memory - Len(mm.len) * block
        /\ RunsOf(t, mm, size)
        /\ Buffers(t, mm, size, block)
        /\ Written(t, mm, size, file)

------------------------------------------------------------------------------
TypeInv ==
    /\ pc \in {"start", "sort", "sorted", "pass", "pair", "merge pair", "final", "merge all", "done"}
    /\ input \in Inputs /\ n \in 0..Len(input) /\ mem \in MemSizes
    /\ tmp \in Seq(Content) /\ inter \in Seq(Content) /\ output \in Seq(Content)
    /\ {runs, runSize, lastSize, it, its} \subseteq Nat

(* The sort phase: the first runs are sorted, the others not yet read. *)
SortInv ==
    /\ pc = "start" => it = 0
    /\ pc \notin {"start", "done"} => n > 0 /\ Len(tmp) = n /\ Len(output) = n
    /\ pc = "sort" =>
          /\ {runs, runSize, lastSize} \subseteq Nat \ {0}
          /\ (runs - 1) * runSize + lastSize = n
          /\ it < runs
          /\ \A i \in 0 .. it - 1 : Rising(tmp, i * runSize, (i + 1) * runSize)
          /\ Agree(tmp, input, it * runSize)

(* After it, at every point of a pass and before the last merge. *)
RunsInv ==
    /\ pc \in {"sorted", "pass", "final", "merge all"} => Runs(tmp, n, runs, runSize, lastSize, 0)
    /\ pc \in {"pair", "merge pair"} =>
          /\ Runs(tmp, n, runs, runSize, lastSize, it)
          /\ its = runs \div 2 /\ it < its
    /\ pc \notin {"start", "sort", "done"} => Agree(tmp, input, n)
    /\ pc \in {"final", "merge all"} => mem \div (runs + 1) > 0

MergeInv ==
    /\ pc = "merge pair" =>
          /\ Merging(tmp, m, runSize, mem, inter)
          /\ m.base = 2 * runSize * it + (IF Odd THEN runSize ELSE 0)
          /\ m.len = <<runSize, IF LastPair THEN lastSize ELSE runSize>>
    /\ pc = "merge all" =>
          /\ Merging(tmp, m, runSize, mem, output)
          /\ m.base = 0
          /\ m.len = [i \in 1..runs |-> IF i = runs THEN lastSize ELSE runSize]

IInv == TypeInv /\ SortInv /\ RunsInv /\ MergeInv /\ OutputSorted /\ AssertionsHold
==============================================================================
