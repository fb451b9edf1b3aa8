---------------------------- MODULE ExternalSort ----------------------------
(***************************************************************************)
(* external_sort of task-external-sort (external_sort.cc): runs that fit   *)
(* into memory are sorted, then merged; two at a time and in passes over   *)
(* the temporary file while there are too many of them, at last all of     *)
(* them into the output.                                                   *)
(*                                                                         *)
(* A value is the unit of all sizes and offsets (VALUE_SIZE = 1), so the   *)
(* NUM_VALUES_ variables, which the code keeps beside the sizes in bytes,  *)
(* coincide with them.  0 is the content of fresh memory and of a file     *)
(* that has been resized, and never an input.                              *)
(***************************************************************************)
EXTENDS Integers, Sequences, FiniteSets, FiniteSetsExt, SequencesExt

CONSTANTS
    Values,   \* what is sorted: positive numbers
    Inputs,   \* the input files
    MemSizes, \* the sizes of memory, in values
    Spare     \* how many values at the end of the input are not to be sorted

ASSUME SortAssumption ==
    /\ Values \subseteq Nat \ {0} /\ Inputs \subseteq Seq(Values)
    /\ MemSizes \subseteq Nat /\ \A size \in MemSizes : size >= 3
    /\ Spare \subseteq Nat

VARIABLES
    pc,       \* where external_sort is
    input,    \* the input file
    n,        \* num_values
    mem,      \* mem_size
    tmp,      \* tmp_file
    inter,    \* intermediate_file
    output,   \* the output file
    runs,     \* NUM_RUNS
    runSize,  \* RUN_SIZE
    lastSize, \* LAST_RUN_SIZE
    it,       \* the run being sorted, or the iteration of a pass
    its,      \* num_iterations_in_pass
    m,        \* the merge in progress: see Loaded
    failed    \* has an assertion failed?

vars == <<pc, input, n, mem, tmp, inter, output, runs, runSize, lastSize, it, its, m, failed>>

Blank(size) == [i \in 1..size |-> 0]

(* read_block into buf; behind the end of the file it reads nothing. *)
Read(file, offset, size, buf) ==
    [i \in DOMAIN buf |-> IF i <= size /\ offset + i <= Len(file) THEN file[offset + i] ELSE buf[i]]

Write(file, offset, block) ==
    [i \in 1..Max({Len(file), offset + Len(block)}) |->
        IF i - offset \in DOMAIN block THEN block[i - offset] ELSE file[i]]

Ascending(s) == \A i \in 1..Len(s) - 1 : s[i] <= s[i + 1]

(* std::sort: a value of rank r goes to position r. *)
Rank(s, i) == Cardinality({j \in DOMAIN s : s[j] < s[i] \/ (s[j] = s[i] /\ j <= i)})

Sorted(s) == [r \in DOMAIN s |-> s[CHOOSE i \in DOMAIN s : Rank(s, i) = r]]

CeilDiv(a, b) == (a - 1) \div b + 1

(* The size of the last of k runs that hold n values. *)
LastOf(k, size) == IF n = k * size THEN size ELSE n - (k - 1) * size

(* sort_phase_done. *)
SortPhaseDone(file, size) ==
    LET k == CeilDiv(n, size)
    IN  /\ Len(file) = n
        /\ LastOf(k, size) <= size
        /\ \A i \in 0..k - 2 : Ascending(SubSeq(file, i * size + 1, (i + 1) * size))
        /\ Ascending(SubSeq(file, (k - 1) * size + 1, (k - 1) * size + LastOf(k, size)))

Asserts(conditions) == failed' = (failed \/ ~conditions)

Init ==
    /\ pc = "start"
    /\ input \in Inputs
    /\ n \in {k \in {Len(input) - s : s \in Spare} : k >= 0}
    /\ mem \in MemSizes
    /\ tmp = <<>> /\ inter = <<>> /\ output = <<>>
    /\ runs = 0 /\ runSize = 0 /\ lastSize = 0
    /\ it = 0 /\ its = 0
    /\ m = <<>>
    /\ failed = FALSE

(* No values: the output is only resized. *)
SortNothing ==
    /\ pc = "start" /\ n = 0
    /\ output' = <<>>
    /\ pc' = "done"
    /\ UNCHANGED <<input, n, mem, tmp, inter, runs, runSize, lastSize, it, its, m, failed>>

InMemorySort ==
    /\ pc = "start" /\ n \in 1..mem
    /\ output' = Write(Blank(n), 0, Sorted(Read(input, 0, n, Blank(n))))
    /\ pc' = "done"
    /\ UNCHANGED <<input, n, mem, tmp, inter, runs, runSize, lastSize, it, its, m, failed>>

SplitIntoRuns ==
    /\ pc = "start" /\ n > mem
    /\ output' = Blank(n)
    /\ tmp' = Blank(n)
    /\ runs' = CeilDiv(n, mem)
    /\ runSize' = mem
    /\ lastSize' = LastOf(CeilDiv(n, mem), mem)
    /\ Asserts(lastSize' <= mem)
    /\ pc' = "sort"
    /\ UNCHANGED <<input, n, mem, inter, it, its, m>>

(* Run number it is sorted on its way into the temporary file. *)
SortRun ==
    LET size == IF it = runs - 1 THEN lastSize ELSE runSize
    IN  /\ pc = "sort"
        /\ tmp' = Write(tmp, it * runSize, Sorted(Read(input, it * runSize, size, Blank(size))))
        /\ it' = it + 1
        /\ pc' = IF it = runs - 1 THEN "sorted" ELSE "sort"
        /\ UNCHANGED <<input, n, mem, inter, output, runs, runSize, lastSize, its, m, failed>>

(* Is there memory for a buffer for each run, and one for the output? *)
ChooseMerge ==
    /\ pc = "sorted"
    /\ Asserts(SortPhaseDone(tmp, runSize))
    /\ pc' = IF mem \div (runs + 1) = 0 THEN "pass" ELSE "final"
    /\ UNCHANGED <<input, n, mem, tmp, inter, output, runs, runSize, lastSize, it, its, m>>

------------------------------------------------------------------------------
(***************************************************************************)
(* A merge of fanIn runs from offset base of the temporary file on.  The   *)
(* memory is cut into an input buffer per run and the output buffer.       *)
(***************************************************************************)
InputBuffer(fanIn) == mem \div (fanIn + 1)

OutBuffer(fanIn) == mem - fanIn * InputBuffer(fanIn)

FanIn == Len(m.len)

(* The state of a merge after the first values of every run are loaded. *)
Loaded(base, lengths) ==
    LET size == InputBuffer(Len(lengths))
    IN  [base   |-> base,
         len    |-> lengths,                              \* the sizes of the runs
         rem    |-> lengths,                              \* remaining_num_values_run
         buf    |-> [i \in DOMAIN lengths |->             \* the input buffers
                       Read(tmp, base + (i - 1) * runSize, size, Blank(size))],
         push   |-> [i \in DOMAIN lengths |-> 1],         \* next_push_index_input_buffer
         read   |-> [i \in DOMAIN lengths |-> size],      \* next_read_offset_run
         live   |-> DOMAIN lengths,                       \* the runs that have a value to offer
         out    |-> Blank(OutBuffer(Len(lengths))),       \* the output buffer
         count  |-> 0,                                    \* output_buffer_current_num_values
         writes |-> 0]                                    \* num_full_writes

(* The value of run i that is compared with those of the others. *)
Offered(i) == m.buf[i][m.push[i]]

(* Mutant of Taken: the greater one goes first. *)
TakenGreater ==
    CHOOSE i \in m.live : \A j \in m.live \ {i} : Offered(i) >= Offered(j)

(* The smallest value; of two runs the second if they are equal, of k the first. *)
Taken ==
    CHOOSE i \in m.live :
        \A j \in m.live \ {i} :
            \/ Offered(i) < Offered(j)
            \/ Offered(i) = Offered(j) /\ (IF pc = "merge pair" THEN j < i ELSE i < j)

(* How much of run i is loaded next. *)
LoadSize(i) ==
    IF m.read[i] + InputBuffer(FanIn) >= m.len[i] THEN m.len[i] - m.read[i]
    ELSE InputBuffer(FanIn)

(* Mutant of LoadOffset: the offset of the pair is forgotten. *)
LoadOffsetInPair(i) == m.read[i] + runSize * (i - 1)

LoadOffset(i) == m.read[i] + runSize * (i - 1) + m.base

(* Run i is not done: its buffer is loaded if it is used up, the next value offered. *)
Advanced(state, i) ==
    IF state.rem[i] = 0 THEN [state EXCEPT !.live = @ \ {i}]
    ELSE IF state.push[i] < InputBuffer(FanIn) THEN [state EXCEPT !.push[i] = @ + 1]
    ELSE [state EXCEPT !.buf[i] = Read(tmp, LoadOffset(i), LoadSize(i), @),
                       !.read[i] = @ + LoadSize(i),
                       !.push[i] = 1]

(* One value moves to the output buffer, which is written to the file when full. *)
MergeOne(file) ==
    LET i == Taken
        out == [m.out EXCEPT ![m.count + 1] = Offered(i)]
        full == m.count + 1 = Len(out)
        next == Advanced([m EXCEPT !.out = out,
                                   !.rem[i] = @ - 1,
                                   !.count = IF full THEN 0 ELSE @ + 1,
                                   !.writes = IF full THEN @ + 1 ELSE @], i)
        loaded == SubSeq(next.buf[i], 1, next.read[i] - m.read[i])
    IN  /\ m.live # {}
        /\ m' = next
        /\ file' = IF full THEN Write(file, m.writes * Len(out), out) ELSE file
        /\ Asserts(Ascending(loaded) /\ (full => Ascending(out)))

(* What the output buffer still holds when size values are to be written in all. *)
Rest(size) == SubSeq(m.out, 1, size % Len(m.out))

------------------------------------------------------------------------------
(***************************************************************************)
(* not_full_way_merge: passes over the temporary file that merge pairs of  *)
(* neighbouring runs, until there are at most two.                         *)
(***************************************************************************)
BeginPass ==
    /\ pc = "pass"
    /\ pc' = IF runs > 2 THEN "pair" ELSE "final"
    /\ its' = runs \div 2
    /\ it' = 0
    /\ UNCHANGED <<input, n, mem, tmp, inter, output, runs, runSize, lastSize, m, failed>>

LastPair == it = its - 1

(* Mutant of Odd: the odd run out is merged like the others. *)
OddIgnored == FALSE

(* With three runs left the last two are merged first. *)
Odd == LastPair /\ runs % 2 # 0

LoadPair ==
    /\ pc = "pair"
    /\ m' = Loaded(2 * runSize * it + (IF Odd THEN runSize ELSE 0),
                   <<runSize, IF LastPair THEN lastSize ELSE runSize>>)
    /\ inter' = Blank(runSize + (IF LastPair THEN lastSize ELSE runSize))
    /\ pc' = "merge pair"
    /\ Asserts(InputBuffer(2) > 0 /\ OutBuffer(2) > 0)
    /\ UNCHANGED <<input, n, mem, tmp, output, runs, runSize, lastSize, it, its>>

MergePair ==
    /\ pc = "merge pair"
    /\ MergeOne(inter)
    /\ UNCHANGED <<pc, input, n, mem, tmp, output, runs, runSize, lastSize, it, its>>

(* Mutant of RepeatLast: the three runs are still counted as three. *)
RepeatLastUncounted ==
    /\ pc' = "pair"
    /\ UNCHANGED <<runs, runSize, lastSize, it>>

(* The odd run has joined its neighbour: the iteration is done once more. *)
RepeatLast ==
    /\ runs' = runs - 1
    /\ lastSize' = lastSize + runSize
    /\ pc' = "pair"
    /\ UNCHANGED <<runSize, it>>

(* The merged pair is copied back to where the two runs were. *)
FinishPair ==
    LET merged == Write(inter, m.writes * Len(m.out), Rest(Len(inter)))
    IN  /\ pc = "merge pair" /\ m.live = {}
        /\ inter' = merged
        /\ tmp' = Write(tmp, m.base, merged)
        /\ \/ /\ Odd
              /\ RepeatLast
           \/ /\ LastPair /\ ~Odd
              /\ runs' = runs \div 2
              /\ lastSize' = lastSize + runSize
              /\ runSize' = 2 * runSize
              /\ it' = it + 1
              /\ pc' = "pass"
           \/ /\ ~LastPair
              /\ it' = it + 1
              /\ pc' = "pair"
              /\ UNCHANGED <<runs, runSize, lastSize>>
        /\ Asserts(/\ Ascending(Rest(Len(inter))) /\ Ascending(merged)
                   /\ LastPair /\ ~Odd => SortPhaseDone(tmp', runSize'))
        /\ UNCHANGED <<input, n, mem, output, its, m>>

------------------------------------------------------------------------------
(* The last merge: all runs that are left, into the output. *)
LoadAll ==
    /\ pc = "final"
    /\ m' = Loaded(0, [i \in 1..runs |-> IF i = runs THEN lastSize ELSE runSize])
    /\ pc' = "merge all"
    /\ Asserts(InputBuffer(runs) > 0 /\ OutBuffer(runs) > 0)
    /\ UNCHANGED <<input, n, mem, tmp, inter, output, runs, runSize, lastSize, it, its>>

MergeAll ==
    /\ pc = "merge all"
    /\ MergeOne(output)
    /\ UNCHANGED <<pc, input, n, mem, tmp, inter, runs, runSize, lastSize, it, its>>

(* Mutant of FinishAll: what is left in the output buffer is forgotten. *)
FinishAllUnflushed ==
    /\ pc = "merge all" /\ m.live = {}
    /\ pc' = "done"
    /\ UNCHANGED <<input, n, mem, tmp, inter, output, runs, runSize, lastSize, it, its, m, failed>>

FinishAll ==
    /\ pc = "merge all" /\ m.live = {}
    /\ output' = Write(output, m.writes * Len(m.out), Rest(n))
    /\ Asserts(Ascending(Rest(n)))
    /\ pc' = "done"
    /\ UNCHANGED <<input, n, mem, tmp, inter, runs, runSize, lastSize, it, its, m>>

Next ==
    \/ SortNothing \/ InMemorySort \/ SplitIntoRuns \/ SortRun \/ ChooseMerge
    \/ BeginPass \/ LoadPair \/ MergePair \/ FinishPair
    \/ LoadAll \/ MergeAll \/ FinishAll

(* One thread, which goes on. *)
Spec == Init /\ [][Next]_vars /\ WF_vars(Next)

------------------------------------------------------------------------------

Occurrences(v, s) == Cardinality({i \in DOMAIN s : s[i] = v})

SameValues(s, t) == Len(s) = Len(t) /\ \A v \in ToSet(s) \cup ToSet(t) : Occurrences(v, s) = Occurrences(v, t)

(***************************************************************************)
(* The output holds the first num_values values of the input, every one as *)
(* often as the input, in ascending order (README of the task, "Result").  *)
(***************************************************************************)
OutputSorted ==
    pc = "done" => Ascending(output) /\ SameValues(output, SubSeq(input, 1, n))

(***************************************************************************)
(* NUM_RUNS, RUN_SIZE and LAST_RUN_SIZE describe the temporary file at the *)
(* beginning of every pass and of the last merge: the runs cover it, each  *)
(* is sorted, and no value has been lost (external_sort.cc:183-196).       *)
(***************************************************************************)
RunsDescribeFile ==
    pc \in {"pass", "final"} =>
        /\ (runs - 1) * runSize + lastSize = n
        /\ \A i \in 0..runs - 2 : Ascending(SubSeq(tmp, i * runSize + 1, (i + 1) * runSize))
        /\ Ascending(SubSeq(tmp, (runs - 1) * runSize + 1, n))
        /\ SameValues(tmp, SubSeq(input, 1, n))

RunStart(i) == m.base + (i - 1) * runSize

(* Where in the temporary file the values lie that the runs have given away. *)
GivenAway == UNION {RunStart(i) + 1 .. RunStart(i) + m.len[i] - m.rem[i] : i \in DOMAIN m.len}

(* What has been written to file, and what is in the output buffer. *)
Merged(file) == SubSeq(file, 1, m.writes * Len(m.out)) \o SubSeq(m.out, 1, m.count)

(***************************************************************************)
(* At every step of a merge the value a run offers is the next of the run  *)
(* in the file, so a buffer that is loaded again skips and repeats none,   *)
(* and what is written and buffered is exactly what the runs gave away.    *)
(***************************************************************************)
MergeConserves ==
    pc \in {"merge pair", "merge all"} =>
        LET merged == Merged(IF pc = "merge pair" THEN inter ELSE output)
        IN  /\ \A i \in m.live : Offered(i) = tmp[RunStart(i) + m.len[i] - m.rem[i] + 1]
            /\ Len(merged) = Cardinality(GivenAway)
            /\ \A v \in ToSet(tmp) :
                  Occurrences(v, merged) = Cardinality({p \in GivenAway : tmp[p] = v})

(***************************************************************************)
(* The assertions of the code: whatever is loaded, written or finished is  *)
(* in order, and no buffer is empty (external_sort.cc:69-74,135-197,       *)
(* 359-368,447-483).                                                       *)
(***************************************************************************)
AssertionsHold == ~failed

(* external_sort returns: every pass leaves fewer runs. *)
SortReturns == <>(pc = "done")
==============================================================================
