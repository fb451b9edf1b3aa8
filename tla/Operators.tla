------------------------------ MODULE Operators ------------------------------
(***************************************************************************)
(* The physical operators of task-operators (algebra.cc), put together to  *)
(* a plan and run by open, next and close.                                 *)
(*                                                                         *)
(* A plan is a sequence of operator objects, the root first; an object has *)
(* the operator's name, its inputs and its parameters.  Every next() is a  *)
(* loop that calls next() of an input until it has something to answer, so *)
(* the state between two such calls is a stack of frames: which object is  *)
(* in its next(), and which of its inputs it is asking (0: none, it        *)
(* answers from what it has stored).                                       *)
(*                                                                         *)
(* Attributes are numbers and indices start at 1.  An operator reads the   *)
(* registers of its input before it asks it again, so a tuple is passed by *)
(* value with the answer.  The order in which an unordered_map is walked   *)
(* is any order.                                                           *)
(***************************************************************************)
EXTENDS Integers, Sequences, FiniteSets, FiniteSetsExt, SequencesExt, Bags

CONSTANTS
    Plans,    \* the plans
    LeftRows, \* what the sources named "left" may hold: sequences of tuples
    RightRows \* what the sources named "right" may hold

ASSUME PlanAssumption ==
    \A p \in Plans : p # <<>> /\ \A k \in DOMAIN p : \A i \in DOMAIN p[k].in : p[k].in[i] > k

VARIABLES
    plan,    \* the plan that runs
    source,  \* what its sources hold
    driver,  \* what the caller has done: "new", "open", "ended" or "closed"
    st,      \* st[k]: the members of object k
    calls,   \* the calls of next() in progress, the innermost first
    reply,   \* what the last call of next() answered, until it is looked at
    emitted, \* the tuples the caller has got, or Print has printed
    overrun  \* has an iterator been moved behind the end of its map?

vars == <<plan, source, driver, st, calls, reply, emitted, overrun>>

(* seen: seen_input.  offset: next_output_offset, or the iterator into rows.      *)
(* rows: sorted, the multimap of HashJoin, or the order in which ht is walked.    *)
Fresh == [seen |-> FALSE, offset |-> 0, rows |-> <<>>, ht |-> EmptyBag]

Pending == [kind |-> "none", tuple |-> <<>>]
Found(t) == [kind |-> "tuple", tuple |-> t]
AtEnd == [kind |-> "end", tuple |-> <<>>]

Init ==
    /\ plan \in Plans
    /\ source \in [left : LeftRows, right : RightRows]
    /\ driver = "new"
    /\ st = [k \in DOMAIN plan |-> Fresh]
    /\ calls = <<>>
    /\ reply = Pending
    /\ emitted = <<>>
    /\ overrun = FALSE

------------------------------------------------------------------------------
(* The innermost call: its object k, the object's parameters and members. *)
Frame == Head(calls)
K == Frame.node
Object == plan[K]
Self == st[K]

(* Mutant of FirstInput: what has been read to the end is read again. *)
FirstInputUnseen(k) ==
    CASE plan[k].op = "Source" -> 0
      [] plan[k].op = "Sort" -> IF st[k].offset = 0 THEN 1 ELSE 0
      [] plan[k].op \in {"HashAggregation", "Except", "ExceptAll"} -> IF st[k].seen THEN 0 ELSE 1
      [] OTHER -> 1

(* Which input a call of next() begins with; HashJoin never sets ht_build. *)
FirstInput(k) ==
    CASE plan[k].op = "Source" -> 0
      [] plan[k].op = "Sort" -> IF st[k].offset = 0 THEN 1 ELSE 0
      [] plan[k].op \in {"HashAggregation", "Except", "ExceptAll"} -> IF st[k].seen THEN 0 ELSE 1
      [] plan[k].op \in {"Union", "UnionAll", "Intersect", "IntersectAll"} -> IF st[k].seen THEN 2 ELSE 1
      [] OTHER -> 1

CallOf(k) == <<[node |-> k, side |-> FirstInput(k)]>>

(* An object asks its input, or has an answer of its own to give. *)
Pull ==
    /\ calls # <<>> /\ reply = Pending /\ Frame.side > 0
    /\ calls' = CallOf(Object.in[Frame.side]) \o calls
    /\ UNCHANGED <<plan, source, driver, st, reply, emitted, overrun>>

Asked(op) == calls # <<>> /\ reply = Pending /\ Frame.side = 0 /\ Object.op = op

TupleFor(op, side) == calls # <<>> /\ reply.kind = "tuple" /\ Object.op = op /\ Frame.side = side

EndFor(op, side) == calls # <<>> /\ reply = AtEnd /\ Object.op = op /\ Frame.side = side

Returns(answer) == calls' = Tail(calls) /\ reply' = answer

AsksAgain == reply' = Pending /\ UNCHANGED calls

Turns(side) == calls' = <<[Frame EXCEPT !.side = side]>> \o Tail(calls) /\ reply' = Pending

Becomes(members) == st' = [st EXCEPT ![K] = members]

Rest == UNCHANGED <<plan, source, driver, emitted, overrun>>

------------------------------------------------------------------------------
(* The end of a table: a source of the tests, which is no part of the code. *)
SourceNext ==
    LET rows == source[Object.rows]
    IN  /\ Asked("Source")
        /\ \/ Self.offset < Len(rows) /\ Returns(Found(rows[Self.offset + 1]))
           \/ Self.offset = Len(rows) /\ Returns(AtEnd)
        /\ Becomes([Self EXCEPT !.offset = Min({@ + 1, Len(rows)})])
        /\ Rest

(* Print passes on nothing; what it prints is what the caller of the plan sees. *)
PrintNext ==
    /\ \/ TupleFor("Print", 1) /\ Returns(Found(reply.tuple))
       \/ EndFor("Print", 1) /\ Returns(AtEnd)
    /\ UNCHANGED st /\ Rest

(* get_output takes as many attributes as are wanted, from the first on. *)
Projected(t) == SubSeq(t, 1, Len(Object.attrs))

ProjectionNext ==
    /\ \/ TupleFor("Projection", 1) /\ Returns(Found(Projected(reply.tuple)))
       \/ EndFor("Projection", 1) /\ Returns(AtEnd)
    /\ UNCHANGED st /\ Rest

(* p: the parameters of a Select; its right operand is an attribute or a constant. *)
Selects(p, t) ==
    LET a == t[p.attr]
        b == IF p.isAttr THEN t[p.right] ELSE p.right
    IN  CASE p.cmp = "EQ" -> a = b
          [] p.cmp = "NE" -> a # b
          [] p.cmp = "LT" -> a < b
          [] p.cmp = "LE" -> a <= b
          [] p.cmp = "GT" -> a > b
          [] p.cmp = "GE" -> a >= b

SelectNext ==
    /\ \/ /\ TupleFor("Select", 1)
          /\ IF Selects(Object, reply.tuple) THEN Returns(reply) ELSE AsksAgain
       \/ EndFor("Select", 1) /\ Returns(AtEnd)
    /\ UNCHANGED st /\ Rest

------------------------------------------------------------------------------
(* std::stable_sort by one criterion. *)
StableSorted(rows, c) ==
    LET Before(i, j) ==
            LET a == rows[i][c.attr]
                b == rows[j][c.attr]
            IN  IF a = b THEN i < j ELSE IF c.desc THEN a > b ELSE a < b
        order == SortSeq([i \in DOMAIN rows |-> i], Before)
    IN  [i \in DOMAIN rows |-> rows[order[i]]]

(* Mutant of SortedBy: the first criterion is executed first. *)
SortedByForwards(rows, criteria) == FoldLeft(StableSorted, rows, criteria)

(* The first criterion is executed last. *)
SortedBy(rows, criteria) == FoldLeft(StableSorted, rows, Reverse(criteria))

(* The answer of Sort with these rows. *)
SortAnswers(rows) ==
    \/ /\ Self.offset = Len(rows)
       /\ Returns(AtEnd)
       /\ Becomes([Self EXCEPT !.rows = rows])
    \/ /\ Self.offset < Len(rows)
       /\ Returns(Found(rows[Self.offset + 1]))
       /\ Becomes([Self EXCEPT !.rows = rows, !.offset = @ + 1])

SortNext ==
    /\ \/ /\ TupleFor("Sort", 1)
          /\ Becomes([Self EXCEPT !.rows = Append(@, reply.tuple)])
          /\ AsksAgain
       \/ EndFor("Sort", 1) /\ SortAnswers(SortedBy(Self.rows, Object.criteria))
       \/ Asked("Sort") /\ SortAnswers(Self.rows)
    /\ Rest

(* Every call of next() asks the left input again before it probes. *)
JoinBuild ==
    /\ \/ /\ TupleFor("HashJoin", 1)
          /\ Becomes([Self EXCEPT !.rows = Append(@, reply.tuple)])
          /\ AsksAgain
       \/ EndFor("HashJoin", 1) /\ Turns(2) /\ UNCHANGED st
    /\ Rest

(* find gives one of the left tuples with the key, and only that one is joined. *)
JoinProbe ==
    LET matches == {r \in ToSet(Self.rows) : r[Object.left] = reply.tuple[Object.right]}
    IN  /\ \/ /\ TupleFor("HashJoin", 2)
              /\ \/ matches = {} /\ AsksAgain
                 \/ \E r \in matches : Returns(Found(r \o reply.tuple))
           \/ EndFor("HashJoin", 2) /\ Returns(AtEnd)
        /\ UNCHANGED st /\ Rest

------------------------------------------------------------------------------
(* The orders in which a map with these keys may be walked. *)
Walks(keys) == {w \in [1..Cardinality(keys) -> keys] : ToSet(w) = keys}

Attributes(t, attrs) == [i \in DOMAIN attrs |-> t[attrs[i]]]

(* A new group: MIN and MAX begin with the tuple, SUM and COUNT with zero. *)
FirstAggregates(funcs, t) ==
    [i \in DOMAIN funcs |-> IF funcs[i].func \in {"MIN", "MAX"} THEN t[funcs[i].attr] ELSE 0]

Aggregate(f, a, t) ==
    CASE f.func = "MIN" -> Min({a, t[f.attr]})
      [] f.func = "MAX" -> Max({a, t[f.attr]})
      [] f.func = "SUM" -> a + t[f.attr]
      [] f.func = "COUNT" -> a + 1

(* The hash table of HashAggregation after one more tuple. *)
Aggregated(ht, group, funcs, t) ==
    LET g == Attributes(t, group)
        before == IF g \in DOMAIN ht THEN ht[g] ELSE FirstAggregates(funcs, t)
        after == [i \in DOMAIN funcs |-> Aggregate(funcs[i], before[i], t)]
    IN  [h \in DOMAIN ht \cup {g} |-> IF h = g THEN after ELSE ht[h]]

(* The iterator is at place i of walk: the group there, or the end. *)
AggregationAnswers(walk, i) ==
    /\ Returns(IF i <= Len(walk) THEN Found(walk[i] \o Self.ht[walk[i]]) ELSE AtEnd)
    /\ Becomes([Self EXCEPT !.seen = TRUE, !.rows = walk, !.offset = i])

AggregationNext ==
    /\ \/ /\ TupleFor("HashAggregation", 1)
          /\ Becomes([Self EXCEPT !.ht = Aggregated(@, Object.group, Object.funcs, reply.tuple)])
          /\ AsksAgain
          /\ UNCHANGED overrun
       \/ /\ EndFor("HashAggregation", 1)
          /\ \E walk \in Walks(DOMAIN Self.ht) : AggregationAnswers(walk, 1)
          /\ UNCHANGED overrun
       \/ /\ Asked("HashAggregation")
          /\ AggregationAnswers(Self.rows, Min({Self.offset, Len(Self.rows)}) + 1)
          /\ overrun' = (overrun \/ Self.offset > Len(Self.rows))
    /\ UNCHANGED <<plan, source, driver, emitted>>

------------------------------------------------------------------------------
(* A tuple of either input that has not been seen before is passed on. *)
UnionTuple ==
    /\ TupleFor("Union", 1) \/ TupleFor("Union", 2)
    /\ IF BagIn(reply.tuple, Self.ht) THEN AsksAgain ELSE Returns(reply)
    /\ Becomes([Self EXCEPT !.ht = SetToBag(BagToSet(@) \cup {reply.tuple})])
    /\ Rest

UnionAllTuple ==
    /\ TupleFor("UnionAll", 1) \/ TupleFor("UnionAll", 2)
    /\ Returns(reply)
    /\ UNCHANGED st /\ Rest

(* Mutant of RightFollows: the left input is asked for ever. *)
RightFollowsNot(op) == EndFor(op, 1) /\ AsksAgain /\ Becomes([Self EXCEPT !.seen = TRUE])

(* seen_input is set at the end of the left input, then the right one is asked. *)
RightFollows(op) == EndFor(op, 1) /\ Turns(2) /\ Becomes([Self EXCEPT !.seen = TRUE])

InputEnds ==
    /\ \/ \E op \in {"Union", "UnionAll", "Intersect", "IntersectAll"} : RightFollows(op)
       \/ /\ \E op \in {"Union", "UnionAll", "Intersect", "IntersectAll"} : EndFor(op, 2)
          /\ Returns(AtEnd) /\ UNCHANGED st
    /\ Rest

(* Mutant of CountedLeft: with set semantics too a tuple counts every time. *)
CountedLeftTwice(op, ht, t) == ht (+) SetToBag({t})

(* The counters after a tuple of the left input, with set or bag semantics. *)
CountedLeft(op, ht, t) ==
    IF op \in {"Intersect", "Except"} THEN SetToBag(BagToSet(ht) \cup {t}) ELSE ht (+) SetToBag({t})

(* A counter that has reached 0 keeps its key; here it leaves the bag. *)
CountedRight(ht, t) == ht (-) SetToBag({t})

CountLeft(ops) ==
    /\ \E op \in ops : TupleFor(op, 1)
    /\ Becomes([Self EXCEPT !.ht = CountedLeft(Object.op, @, reply.tuple)])
    /\ AsksAgain
    /\ Rest

IntersectBuild == CountLeft({"Intersect"})
IntersectAllBuild == CountLeft({"IntersectAll"})
ExceptBuild == CountLeft({"Except"})
ExceptAllBuild == CountLeft({"ExceptAll"})

IntersectProbe ==
    /\ TupleFor("Intersect", 2) \/ TupleFor("IntersectAll", 2)
    /\ IF BagIn(reply.tuple, Self.ht) THEN Returns(reply) ELSE AsksAgain
    /\ Becomes([Self EXCEPT !.ht = CountedRight(@, reply.tuple)])
    /\ Rest

ExceptProbe ==
    /\ TupleFor("Except", 2) \/ TupleFor("ExceptAll", 2)
    /\ Becomes([Self EXCEPT !.ht = CountedRight(@, reply.tuple)])
    /\ AsksAgain
    /\ Rest

(* From the iterator on, the first tuple whose counter is not 0. *)
ExceptAnswers(walk, from) ==
    LET rest == {i \in from..Len(walk) : BagIn(walk[i], Self.ht)}
    IN  IF rest = {}
        THEN /\ Returns(AtEnd)
             /\ Becomes([Self EXCEPT !.seen = TRUE, !.rows = walk, !.offset = Len(walk) + 1])
        ELSE /\ Returns(Found(walk[Min(rest)]))
             /\ Becomes([Self EXCEPT !.seen = TRUE, !.rows = walk, !.offset = Min(rest),
                                     !.ht = @ (-) SetToBag({walk[Min(rest)]})])

ExceptNext ==
    /\ \/ (EndFor("Except", 1) \/ EndFor("ExceptAll", 1)) /\ Turns(2) /\ UNCHANGED st
       \/ /\ EndFor("Except", 2) \/ EndFor("ExceptAll", 2)
          /\ \E walk \in Walks(BagToSet(Self.ht)) : ExceptAnswers(walk, 1)
       \/ /\ Asked("Except") \/ Asked("ExceptAll")
          /\ ExceptAnswers(Self.rows, Self.offset)
    /\ Rest

------------------------------------------------------------------------------
(* The caller: open, next until it answers false, close.  open() reaches  *)
(* every object and leaves its members as constructed.                    *)
Open ==
    /\ driver = "new"
    /\ driver' = "open"
    /\ UNCHANGED <<plan, source, st, calls, reply, emitted, overrun>>

CallNext ==
    /\ driver = "open" /\ calls = <<>> /\ reply = Pending
    /\ calls' = CallOf(1)
    /\ UNCHANGED <<plan, source, driver, st, reply, emitted, overrun>>

TakeAnswer ==
    /\ calls = <<>> /\ reply # Pending
    /\ \/ reply = AtEnd /\ driver' = "ended" /\ UNCHANGED emitted
       \/ reply # AtEnd /\ emitted' = Append(emitted, reply.tuple) /\ UNCHANGED driver
    /\ reply' = Pending
    /\ UNCHANGED <<plan, source, st, calls, overrun>>

(* close() drops what is stored and keeps seen_input and next_output_offset. *)
Close ==
    /\ driver = "ended"
    /\ driver' = "closed"
    /\ st' = [k \in DOMAIN plan |->
                IF plan[k].op = "Source" THEN st[k]
                ELSE [st[k] EXCEPT !.rows = <<>>, !.ht = EmptyBag]]
    /\ UNCHANGED <<plan, source, calls, reply, emitted, overrun>>

Next ==
    \/ Open \/ CallNext \/ TakeAnswer \/ Close \/ Pull
    \/ SourceNext \/ PrintNext \/ ProjectionNext \/ SelectNext \/ SortNext
    \/ JoinBuild \/ JoinProbe \/ AggregationNext
    \/ UnionTuple \/ UnionAllTuple \/ InputEnds
    \/ IntersectBuild \/ IntersectAllBuild \/ IntersectProbe
    \/ ExceptBuild \/ ExceptAllBuild \/ ExceptProbe \/ ExceptNext

(* The caller goes on until it has closed the plan. *)
Spec == Init /\ [][Next]_vars /\ WF_vars(Next)

------------------------------------------------------------------------------
SeqToBag(s) == [t \in ToSet(s) |-> Cardinality({i \in DOMAIN s : s[i] = t})]

(* The relational algebra of the README: what object k stands for, a bag of tuples. *)
Meaning ==
    LET M[k \in DOMAIN plan] ==
            LET p == plan[k]
                l == M[p.in[1]]
                r == M[p.in[2]]
                AsSet(bag) == SetToBag(BagToSet(bag))
            IN  CASE p.op = "Source" -> SeqToBag(source[p.rows])
                  [] p.op \in {"Print", "Sort"} -> l
                  [] p.op = "Projection" -> LET F(t) == Attributes(t, p.attrs) IN BagOfAll(F, l)
                  [] p.op = "Select" -> [t \in {u \in DOMAIN l : Selects(p, u)} |-> l[t]]
                  [] p.op = "HashJoin" ->
                       LET pairs == {x \in BagToSet(l) \X BagToSet(r) : x[1][p.left] = x[2][p.right]}
                           F(x) == x[1] \o x[2]
                       IN  BagOfAll(F, [x \in pairs |-> l[x[1]] * r[x[2]]])
                  [] p.op = "HashAggregation" ->
                       LET groups == {Attributes(t, p.group) : t \in DOMAIN l}
                           In(g) == {t \in DOMAIN l : Attributes(t, p.group) = g}
                           Value(f, g) ==
                               CASE f.func = "MIN" -> Min({t[f.attr] : t \in In(g)})
                                 [] f.func = "MAX" -> Max({t[f.attr] : t \in In(g)})
                                 [] f.func = "SUM" -> MapThenSumSet(LAMBDA t : l[t] * t[f.attr], In(g))
                                 [] f.func = "COUNT" -> MapThenSumSet(LAMBDA t : l[t], In(g))
                       IN  SetToBag({g \o [i \in DOMAIN p.funcs |-> Value(p.funcs[i], g)] : g \in groups})
                  [] p.op = "Union" -> AsSet(l (+) r)
                  [] p.op = "UnionAll" -> l (+) r
                  [] p.op = "Intersect" -> SetToBag(BagToSet(l) \cap BagToSet(r))
                  [] p.op = "IntersectAll" ->
                       [t \in BagToSet(l) \cap BagToSet(r) |-> Min({l[t], r[t]})]
                  [] p.op = "Except" -> SetToBag(BagToSet(l) \ BagToSet(r))
                  [] p.op = "ExceptAll" -> l (-) r
    IN  M

(* Does no HashJoin of the plan have two left tuples with the same key? *)
JoinKeysUnique ==
    \A k \in DOMAIN plan :
        plan[k].op = "HashJoin" =>
            LET l == Meaning[plan[k].in[1]]
            IN  \A t, u \in DOMAIN l : t[plan[k].left] = u[plan[k].left] => t = u /\ l[t] = 1

(***************************************************************************)
(* The caller gets the tuples that the relational algebra says, as often   *)
(* as it says, however the operators are put together (README of the task) *)
(* - for a HashJoin only if its left keys are unique (algebra.cc:324-332). *)
(***************************************************************************)
ResultIsRight ==
    driver = "ended" /\ JoinKeysUnique => SeqToBag(emitted) = Meaning[1]

(* Is t before u, or equal to it, by the criteria, the first being the most important? *)
InOrder(t, u, criteria) ==
    \A i \in DOMAIN criteria :
        (\A j \in 1..i - 1 : t[criteria[j].attr] = u[criteria[j].attr]) =>
            LET a == t[criteria[i].attr]
                b == u[criteria[i].attr]
            IN  IF criteria[i].desc THEN a >= b ELSE a <= b

(***************************************************************************)
(* Sort gives its tuples in the order of all its criteria, although it     *)
(* sorts by them one after the other (algebra.cc:264-275).                 *)
(***************************************************************************)
SortedByAllCriteria ==
    plan[1].op = "Sort" =>
        \A i \in 1..Len(emitted) - 1 : InOrder(emitted[i], emitted[i + 1], plan[1].criteria)

(***************************************************************************)
(* Nobody asks a HashAggregation again that has answered false: its next() *)
(* would move an iterator behind the end of the map (algebra.cc:410).      *)
(***************************************************************************)
NoIteratorOverrun == ~overrun

(* Every object is the input of at most one other, and has the inputs its operator takes. *)
InputsOf(op) ==
    CASE op = "Source" -> {}
      [] op \in {"Print", "Projection", "Select", "Sort", "HashAggregation"} -> {1}
      [] OTHER -> {1, 2}

IsTree(p) ==
    /\ DOMAIN p \subseteq Nat \ {0} /\ 1 \in DOMAIN p
    /\ \A k \in DOMAIN p :
          /\ DOMAIN p[k].in = InputsOf(p[k].op)
          /\ \A i \in DOMAIN p[k].in :
                /\ p[k].in[i] \in DOMAIN p
                /\ \A l \in DOMAIN p : \A j \in DOMAIN p[l].in :
                      p[l].in[j] = p[k].in[i] => l = k /\ j = i

(* These objects may be asked again after their end: all that HashJoin builds from. *)
AskedAgain(p, again) ==
    \A k \in DOMAIN p : \A i \in DOMAIN p[k].in :
        k \in again \/ (p[k].op = "HashJoin" /\ i = 1) => p[k].in[i] \in again

(* No plan has a HashAggregation among them. *)
AggregationsReadOnce ==
    \A p \in Plans :
        /\ IsTree(p)
        /\ \E again \in SUBSET DOMAIN p :
              AskedAgain(p, again) /\ \A k \in again : p[k].op # "HashAggregation"

(* Every plan is read to its end and closed. *)
PlanEnds == <>(driver = "closed")
==============================================================================
