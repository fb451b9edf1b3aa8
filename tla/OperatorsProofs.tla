--------------------------- MODULE OperatorsProofs ---------------------------
(***************************************************************************)
(* No object of a plan is asked again after it has answered false, but for *)
(* those that a HashJoin builds from; so the iterator of a HashAggregation *)
(* never moves behind the end of its map.                                  *)
(*                                                                         *)
(* The invariant of OperatorsInv is proved operator by operator.  Which    *)
(* objects have ended is not in the state: each lemma is given such a set, *)
(* and gives one for the next state (SoundFor).  All that a call of next() *)
(* can do is return (ReturnKeeps), go on with an input (CallGoesOn) or     *)
(* call an input (CallKeeps); the lemmas about the operators show which of *)
(* these they do, and that they do not ask an input that has ended.        *)
(***************************************************************************)
EXTENDS OperatorsInv, FiniteSetTheorems, TLAPS

(* Everything but what a call of next() changes. *)
Steady == UNCHANGED <<plan, source, driver, emitted>>

(* What each operator asks first. *)
LEMMA FirstInputs ==
    ASSUME NEW k
    PROVE  /\ plan[k].op = "Source" => FirstInput(k) = 0
           /\ plan[k].op = "Sort" => FirstInput(k) = IF st[k].offset = 0 THEN 1 ELSE 0
           /\ plan[k].op \in {"HashAggregation", "Except", "ExceptAll"} =>
                 FirstInput(k) = IF st[k].seen THEN 0 ELSE 1
           /\ plan[k].op \in TwoSided => FirstInput(k) = IF st[k].seen THEN 2 ELSE 1
           /\ plan[k].op \notin {"Source", "Sort", "HashAggregation", "Except", "ExceptAll"} \cup TwoSided =>
                 FirstInput(k) = 1
  <1>1. CASE plan[k].op = "Source"
    BY <1>1 DEF FirstInput, TwoSided
  <1>2. CASE plan[k].op = "Sort"
    BY <1>2 DEF FirstInput, TwoSided
  <1>3. CASE plan[k].op \in {"HashAggregation", "Except", "ExceptAll"}
    BY <1>3 DEF FirstInput, TwoSided
  <1>4. CASE plan[k].op \in TwoSided
    BY <1>4 DEF FirstInput, TwoSided
  <1>5. CASE plan[k].op \notin {"Source", "Sort", "HashAggregation", "Except", "ExceptAll"} \cup TwoSided
    BY <1>5 DEF FirstInput, TwoSided
  <1>6. QED
    BY <1>1, <1>2, <1>3, <1>4, <1>5

(* The inputs that an operator has. *)
LEMMA InputsKnown ==
    ASSUME NEW op
    PROVE  /\ op = "Source" => InputsOf(op) = {}
           /\ op \in {"Print", "Projection", "Select", "Sort", "HashAggregation"} => InputsOf(op) = {1}
           /\ op \notin {"Source", "Print", "Projection", "Select", "Sort", "HashAggregation"} => InputsOf(op) = {1, 2}
  <1>1. CASE op = "Source"
    BY <1>1 DEF InputsOf
  <1>2. CASE op \in {"Print", "Projection", "Select", "Sort", "HashAggregation"}
    BY <1>2 DEF InputsOf
  <1>3. CASE op \notin {"Source", "Print", "Projection", "Select", "Sort", "HashAggregation"}
    BY <1>3 DEF InputsOf
  <1>4. QED
    BY <1>1, <1>2, <1>3

(* A call begins with an input that the object has. *)
LEMMA FirstCallGood ==
    ASSUME IsTree(plan), NEW k \in DOMAIN plan
    PROVE  /\ FirstInput(k) \in {0} \cup DOMAIN plan[k].in /\ FirstInput(k) \in 0..2
           /\ GoodCall([node |-> k, side |-> FirstInput(k)])
  <1> DEFINE op == plan[k].op
  <1>1. DOMAIN plan[k].in = InputsOf(op)
    BY DEF IsTree
  <1>2. CASE op = "Source"
    BY <1>1, <1>2, FirstInputs, InputsKnown DEF GoodCall, TwoSided
  <1>3. CASE op = "Sort"
    BY <1>1, <1>3, FirstInputs, InputsKnown DEF GoodCall, TwoSided
  <1>4. CASE op \in {"HashAggregation", "Except", "ExceptAll"}
    BY <1>1, <1>4, FirstInputs, InputsKnown DEF GoodCall, TwoSided
  <1>5. CASE op \in TwoSided
    <2>1. DOMAIN plan[k].in = {1, 2}
      BY <1>1, <1>5, InputsKnown DEF TwoSided
    <2>2. FirstInput(k) = IF st[k].seen THEN 2 ELSE 1
      BY <1>5, FirstInputs
    <2>3. QED
      BY <2>1, <2>2 DEF GoodCall
  <1>6. CASE op \notin {"Source", "Sort", "HashAggregation", "Except", "ExceptAll"} \cup TwoSided
    <2>1. 1 \in DOMAIN plan[k].in
      BY <1>1, <1>6, InputsKnown
    <2>2. FirstInput(k) = 1
      BY <1>6, FirstInputs
    <2>3. QED
      BY <2>1, <2>2 DEF GoodCall
  <1>7. QED
    BY <1>2, <1>3, <1>4, <1>5, <1>6

(* An element of a sequence. *)
LEMMA SeqElement ==
    ASSUME NEW S, NEW s \in Seq(S), NEW i \in DOMAIN s
    PROVE  s[i] \in S
  OBVIOUS

(* The calls and their parts have their types. *)
LEMMA CallsTyped ==
    ASSUME NEW again, NEW ended, Sound(again, ended), NEW i \in DOMAIN calls
    PROVE  /\ calls[i] \in [node : DOMAIN plan, side : 0..2]
           /\ calls[i].node \in DOMAIN plan /\ calls[i].side \in 0..2
  <1>1. calls \in Seq([node : DOMAIN plan, side : 0..2])
    BY DEF Sound, Stack
  <1>2. calls[i] \in [node : DOMAIN plan, side : 0..2]
    BY <1>1, SeqElement
  <1>3. QED
    BY <1>2

(* The innermost call, and those behind it. *)
LEMMA TopCall ==
    ASSUME NEW again, NEW ended, Sound(again, ended), calls # <<>>
    PROVE  /\ Len(calls) \in Nat \ {0} /\ DOMAIN calls = 1..Len(calls) /\ 1 \in DOMAIN calls
           /\ Frame = calls[1] /\ K = calls[1].node /\ K \in DOMAIN plan /\ K \in Nat
           /\ GoodCall(Frame) /\ driver = "open" /\ K \notin ended
           /\ Tail(calls) \in Seq([node : DOMAIN plan, side : 0..2])
           /\ Len(Tail(calls)) = Len(calls) - 1
           /\ \A i \in DOMAIN Tail(calls) : i + 1 \in DOMAIN calls /\ Tail(calls)[i] = calls[i + 1]
  <1>1. calls \in Seq([node : DOMAIN plan, side : 0..2]) /\ DOMAIN plan \subseteq Nat \ {0}
    BY DEF Sound, Stack, IsTree
  <1>2. Len(calls) \in Nat \ {0} /\ DOMAIN calls = 1..Len(calls) /\ 1 \in DOMAIN calls
    BY <1>1
  <1>3. Frame = calls[1] /\ K = calls[1].node /\ K \in DOMAIN plan
    <2>1. calls[1] \in [node : DOMAIN plan, side : 0..2]
      BY <1>2, CallsTyped
    <2>2. Frame = calls[1]
      BY <1>1, <1>2 DEF Frame
    <2>3. calls[1].node \in DOMAIN plan
      BY <2>1
    <2>4. QED
      BY <2>2, <2>3 DEF K
  <1>4. GoodCall(Frame) /\ driver = "open"
    BY <1>2, <1>3 DEF Sound, Stack
  <1>5. K \notin ended
    BY <1>2, <1>3 DEF Sound, AskedOnce
  <1>6. /\ Tail(calls) \in Seq([node : DOMAIN plan, side : 0..2])
        /\ Len(Tail(calls)) = Len(calls) - 1
        /\ \A i \in DOMAIN Tail(calls) : i + 1 \in DOMAIN calls /\ Tail(calls)[i] = calls[i + 1]
    BY <1>1, <1>2
  <1>7. QED
    BY <1>1, <1>2, <1>3, <1>4, <1>5, <1>6

(* The object that runs is the input that the call behind it waits for, and of no other. *)
LEMMA OnlyParent ==
    ASSUME NEW again, NEW ended, Sound(again, ended), calls # <<>>,
           NEW l \in DOMAIN plan, NEW i \in DOMAIN plan[l].in, plan[l].in[i] = K
    PROVE  2 \in DOMAIN calls /\ l = calls[2].node /\ i = calls[2].side
  <1>1. /\ Len(calls) \in Nat \ {0} /\ DOMAIN calls = 1..Len(calls) /\ K = calls[1].node
    BY TopCall
  <1>2. IsTree(plan) /\ plan \in Plans /\ Stack
    BY DEF Sound
  <1>3. CASE Len(calls) = 1
    <2>1. K = 1
      BY <1>1, <1>2, <1>3 DEF Stack
    <2>2. l \in Nat \ {0} /\ plan[l].in[i] > l
      BY <1>2, PlanAssumption DEF IsTree
    <2>3. QED
      BY <2>1, <2>2
  <1>4. CASE Len(calls) # 1
    <2>1. 2 \in DOMAIN calls /\ 2 > 1 /\ 2 - 1 = 1
      BY <1>1, <1>4
    <2>2. calls[2].side # 0 /\ K = plan[calls[2].node].in[calls[2].side] /\ GoodCall(calls[2])
      BY <1>1, <1>2, <2>1 DEF Stack
    <2>3. calls[2].node \in DOMAIN plan /\ calls[2].side \in DOMAIN plan[calls[2].node].in
      <3>1. calls[2] \in [node : DOMAIN plan, side : 0..2]
        BY <2>1, CallsTyped
      <3>2. calls[2].node \in DOMAIN plan
        BY <3>1
      <3>3. QED
        BY <2>2, <3>2 DEF GoodCall
    <2>4. \A m \in DOMAIN plan : \A j \in DOMAIN plan[m].in : plan[m].in[j] = K => m = l /\ j = i
      BY <1>2 DEF IsTree
    <2>5. QED
      BY <2>1, <2>2, <2>3, <2>4
  <1>5. QED
    BY <1>3, <1>4

(* Every object has one call in progress at most. *)
LEMMA NodesDiffer ==
    ASSUME NEW again, NEW ended, Sound(again, ended), NEW i \in DOMAIN calls, NEW j \in DOMAIN calls, i # j
    PROVE  calls[i].node # calls[j].node
  <1>1. /\ calls \in Seq([node : DOMAIN plan, side : 0..2]) /\ DOMAIN plan \subseteq Nat \ {0}
        /\ \A x \in DOMAIN calls : \A y \in DOMAIN calls : x < y => calls[x].node > calls[y].node
    BY DEF Sound, Stack, IsTree
  <1>2. i \in Nat /\ j \in Nat /\ calls[i].node \in Nat /\ calls[j].node \in Nat
    <2>1. calls[i] \in [node : DOMAIN plan, side : 0..2] /\ calls[j] \in [node : DOMAIN plan, side : 0..2]
      BY CallsTyped
    <2>2. calls[i].node \in DOMAIN plan /\ calls[j].node \in DOMAIN plan
      BY <2>1
    <2>3. QED
      BY <1>1, <2>2
  <1>3. i < j \/ j < i
    BY <1>2
  <1>4. QED
    BY <1>1, <1>2, <1>3

(* The members of object k become mem, those of others stay. *)
LEMMA MembersBecome ==
    ASSUME NEW again, NEW ended, Sound(again, ended), NEW k \in DOMAIN plan, NEW mem,
           st' = [st EXCEPT ![k] = mem], plan' = plan, GoodMembers(mem, plan[k].op)
    PROVE  /\ DOMAIN st' = DOMAIN plan /\ st' = [l \in DOMAIN plan |-> st'[l]] /\ st'[k] = mem
           /\ \A l \in DOMAIN plan \ {k} : st'[l] = st[l] /\ FirstInput(l)' = FirstInput(l)
           /\ \A l \in DOMAIN plan : GoodMembers(st'[l], plan[l].op)
  <1>1. /\ DOMAIN st = DOMAIN plan
        /\ \A l \in DOMAIN plan : GoodMembers(st[l], plan[l].op)
    BY DEF Sound
  <1>2. DOMAIN st' = DOMAIN plan /\ st'[k] = mem /\ \A l \in DOMAIN plan \ {k} : st'[l] = st[l]
    BY <1>1
  <1>5. st' = [l \in DOMAIN plan |-> st'[l]]
    BY <1>1
  <1>3. \A l \in DOMAIN plan \ {k} : FirstInput(l)' = FirstInput(l)
    BY <1>2 DEF FirstInput
  <1>4. QED
    BY <1>1, <1>2, <1>3, <1>5

(* The frames that are left when the innermost call returns. *)
LEMMA StackReturned ==
    ASSUME NEW again, NEW ended, Sound(again, ended), calls # <<>>, calls' = Tail(calls),
           UNCHANGED <<plan, driver>>, \A l \in DOMAIN plan \ {K} : st'[l] = st[l]
    PROVE  Stack'
  <1> SUFFICES ASSUME NEW c, c = Tail(calls) PROVE Stack'
    OBVIOUS
  <1>1. /\ Len(calls) \in Nat \ {0} /\ DOMAIN calls = 1..Len(calls) /\ 1 \in DOMAIN calls
        /\ K = calls[1].node /\ driver = "open"
        /\ c \in Seq([node : DOMAIN plan, side : 0..2]) /\ Len(c) = Len(calls) - 1
        /\ \A i \in DOMAIN c : i + 1 \in DOMAIN calls /\ c[i] = calls[i + 1]
    BY TopCall
  <1>2. DOMAIN c = 1..Len(c) /\ calls' = c /\ Len(c) \in Nat
    BY <1>1
  <1>3. Stack
    BY DEF Sound
  <1>4. c # <<>> => driver' = "open" /\ c[Len(c)].node = 1
    <2>1. SUFFICES ASSUME c # <<>> PROVE c[Len(c)].node = 1
      BY <1>1
    <2>2. Len(c) \in DOMAIN c
      BY <1>1, <1>2, <2>1
    <2>3. c[Len(c)] = calls[Len(calls)]
      BY <1>1, <2>2
    <2>4. QED
      BY <1>3, <2>3 DEF Stack
  <1>5. ASSUME NEW i \in DOMAIN c PROVE GoodCall(c[i])'
    <2>1. i + 1 \in DOMAIN calls /\ c[i] = calls[i + 1] /\ i + 1 # 1
      BY <1>1, <1>2
    <2>2. GoodCall(c[i]) /\ c[i].node \in DOMAIN plan
      BY <1>3, <2>1, CallsTyped DEF Stack
    <2>3. c[i].node # K
      BY <1>1, <2>1, NodesDiffer
    <2>4. st'[c[i].node] = st[c[i].node] /\ plan' = plan
      BY <2>2, <2>3
    <2>5. QED
      BY <2>2, <2>4 DEF GoodCall
  <1>6. ASSUME NEW i \in DOMAIN c, NEW j \in DOMAIN c, i < j PROVE c[i].node > c[j].node
    <2>1. /\ i + 1 \in DOMAIN calls /\ c[i] = calls[i + 1] /\ j + 1 \in DOMAIN calls /\ c[j] = calls[j + 1]
          /\ i + 1 < j + 1
      BY <1>1, <1>2, <1>6
    <2>2. QED
      BY <1>3, <2>1 DEF Stack
  <1>7. ASSUME NEW i \in DOMAIN c, i > 1
        PROVE  c[i].side # 0 /\ c[i - 1].node = plan[c[i].node].in[c[i].side]
    <2>1. /\ i + 1 \in DOMAIN calls /\ c[i] = calls[i + 1] /\ i - 1 \in DOMAIN c
          /\ i \in DOMAIN calls /\ c[i - 1] = calls[i] /\ i + 1 > 1 /\ (i + 1) - 1 = i
      <3>1. i - 1 \in DOMAIN c /\ (i - 1) + 1 = i /\ i + 1 > 1 /\ (i + 1) - 1 = i
        BY <1>2, <1>7
      <3>2. QED
        BY <1>1, <3>1
    <2>2. QED
      BY <1>3, <2>1 DEF Stack
  <1>8. (\A i \in DOMAIN calls : GoodCall(calls[i]))'
    BY <1>2, <1>5
  <1>9. QED
    BY <1>1, <1>2, <1>4, <1>6, <1>7, <1>8 DEF Stack

(* What may be asked is what may be asked of fewer ended objects. *)
LEMMA MayAskFewer ==
    ASSUME NEW k, NEW s, NEW E, NEW D, MayAsk(k, s, E), D \subseteq E
    PROVE  MayAsk(k, s, D)
  BY DEF MayAsk

(* One more object has ended, which is no input of k. *)
LEMMA MayAskStill ==
    ASSUME NEW k, NEW s, NEW E, MayAsk(k, s, E), NEW x, \A i \in DOMAIN plan[k].in : plan[k].in[i] # x
    PROVE  MayAsk(k, s, E \cup {x})
  BY DEF MayAsk

(* The innermost call returns an answer: its object has ended, or may go on later. *)
LEMMA AskedAfterReturn ==
    ASSUME NEW again, NEW ended, Sound(again, ended), calls # <<>>, calls' = Tail(calls),
           NEW k, k = K, NEW mem, st' = [st EXCEPT ![k] = mem], GoodMembers(mem, plan[k].op),
           UNCHANGED <<plan, driver>>, NEW ans, reply' = ans,
           NEW s, s = FirstInput(k)',
           ans # AtEnd /\ k \notin again => InsideMap(mem, plan[k].op) /\ MayAsk(k, s, ended),
           NEW e, e = IF ans = AtEnd THEN ended \cup ({k} \ again) ELSE ended
    PROVE  AskedOnce(again, e)'
  <1>1. /\ Len(calls) \in Nat \ {0} /\ DOMAIN calls = 1..Len(calls) /\ 1 \in DOMAIN calls
        /\ k = calls[1].node /\ k \in DOMAIN plan /\ driver = "open" /\ k \notin ended
        /\ \A i \in DOMAIN Tail(calls) : i + 1 \in DOMAIN calls /\ Tail(calls)[i] = calls[i + 1]
        /\ Len(Tail(calls)) = Len(calls) - 1
        /\ Tail(calls) \in Seq([node : DOMAIN plan, side : 0..2])
    BY TopCall
  <1>2. /\ st'[k] = mem
        /\ \A l \in DOMAIN plan \ {k} : st'[l] = st[l] /\ FirstInput(l)' = FirstInput(l)
    BY <1>1, MembersBecome
  <1>3. DOMAIN calls' = 1..Len(calls) - 1
    BY <1>1
  <1>4. ASSUME NEW i \in DOMAIN calls' PROVE i \in Nat \ {0} /\ i + 1 \in DOMAIN calls /\ calls'[i] = calls[i + 1]
    BY <1>1, <1>3
  <1>5. AskedOnce(again, ended)
    BY DEF Sound
  <1>6. ASSUME NEW l \in DOMAIN plan, NEW i \in DOMAIN plan[l].in, plan[l].in[i] = k
        PROVE  2 \in DOMAIN calls /\ l = calls[2].node /\ i = calls[2].side
    BY <1>6, OnlyParent
  <1>7. ASSUME NEW l \in DOMAIN plan \ (again \cup e)
        PROVE  InsideMap(st'[l], plan[l].op) /\ (~Running(l)' => MayAsk(l, FirstInput(l)', e))
    <2>1. CASE l = k
      <3>1. ans # AtEnd /\ k \notin again
        BY <1>7, <2>1
      <3>2. QED
        BY <1>2, <2>1, <3>1
    <2>2. CASE l # k
      <3>1. l \in DOMAIN plan \ (again \cup ended) /\ st'[l] = st[l] /\ FirstInput(l)' = FirstInput(l)
        BY <1>2, <2>2
      <3>2. InsideMap(st[l], plan[l].op) /\ (~Running(l) => MayAsk(l, FirstInput(l), ended))
        BY <1>5, <3>1 DEF AskedOnce
      <3>3. ASSUME ~Running(l)' PROVE MayAsk(l, FirstInput(l), e)
        <4>1. ASSUME NEW j \in DOMAIN calls PROVE calls[j].node # l
          <5>1. CASE j = 1
            BY <1>1, <2>2, <5>1
          <5>2. CASE j # 1
            <6>1. j - 1 \in DOMAIN calls' /\ (j - 1) + 1 = j
              BY <1>1, <1>3, <5>2
            <6>2. calls'[j - 1] = calls[j]
              BY <1>4, <6>1
            <6>3. QED
              BY <3>3, <6>1, <6>2 DEF Running
          <5>3. QED
            BY <5>1, <5>2
        <4>2. MayAsk(l, FirstInput(l), ended)
          BY <3>2, <4>1 DEF Running
        <4>3. \A i \in DOMAIN plan[l].in : plan[l].in[i] # k
          BY <1>6, <4>1
        <4>4. MayAsk(l, FirstInput(l), ended \cup {k})
          BY <4>2, <4>3, MayAskStill
        <4>5. e \subseteq ended \cup {k}
          OBVIOUS
        <4>6. QED
          BY <4>4, <4>5, MayAskFewer
      <3>4. QED
        BY <3>1, <3>2, <3>3
    <2>3. QED
      BY <2>1, <2>2
  <1>8. Waiting' \subseteq {k} /\ (ans = AtEnd /\ calls' # <<>> => Waiting' = {k})
    <2>1. CASE calls' = <<>>
      BY <2>1 DEF Waiting
    <2>2. CASE calls' # <<>>
      <3>1. 1 \in DOMAIN calls' /\ calls'[1] = calls[2] /\ 2 \in DOMAIN calls /\ 2 > 1 /\ 2 - 1 = 1
        BY <1>1, <1>3, <1>4, <2>2
      <3>2. k = plan[calls[2].node].in[calls[2].side]
        BY <1>1, <3>1 DEF Sound, Stack
      <3>3. Frame' = calls[2]
        BY <1>1, <2>2, <3>1 DEF Frame
      <3>4. K' = calls[2].node
        BY <3>3 DEF K
      <3>5. plan'[K'].in[Frame'.side] = k
        BY <3>2, <3>3, <3>4
      <3>6. QED
        BY <3>5 DEF Waiting
    <2>3. QED
      BY <2>1, <2>2
  <1>9. ASSUME NEW i \in DOMAIN calls'
        PROVE  /\ calls'[i].node \notin e
               /\ calls'[i].node \notin again =>
                     MayAsk(calls'[i].node, calls'[i].side, IF i = 1 THEN e \ Waiting' ELSE e)
    <2>1. /\ i \in Nat \ {0} /\ i + 1 \in DOMAIN calls /\ calls'[i] = calls[i + 1] /\ i + 1 # 1
      BY <1>4
    <2> DEFINE c == calls[i + 1]
    <2>2. c.node # k /\ c.node \in DOMAIN plan
      BY <1>1, <2>1, NodesDiffer, CallsTyped
    <2>3. c.node \notin ended /\ (c.node \notin again => MayAsk(c.node, c.side, ended))
      BY <1>5, <2>1 DEF AskedOnce
    <2>4. CASE i = 1 /\ ans = AtEnd
      <3>1. e \ Waiting' \subseteq ended
        <4>1. calls' # <<>>
          BY <1>3
        <4>2. QED
          BY <1>8, <2>4, <4>1
      <3>2. c.node \notin again => MayAsk(c.node, c.side, e \ Waiting')
        BY <2>3, <3>1, MayAskFewer
      <3>3. QED
        BY <2>1, <2>2, <2>3, <2>4, <3>2
    <2>5. CASE ans # AtEnd
      <3>1. e \ Waiting' \subseteq ended /\ e = ended
        BY <2>5
      <3>2. c.node \notin again => MayAsk(c.node, c.side, e \ Waiting')
        BY <2>3, <3>1, MayAskFewer
      <3>3. QED
        BY <2>1, <2>3, <3>1, <3>2
    <2>6. CASE i # 1
      <3>1. ASSUME NEW j \in DOMAIN plan[c.node].in PROVE plan[c.node].in[j] # k
        <4>1. SUFFICES ASSUME plan[c.node].in[j] = k PROVE FALSE
          OBVIOUS
        <4>2. 2 \in DOMAIN calls /\ c.node = calls[2].node
          BY <1>6, <2>2, <4>1
        <4>3. i + 1 # 2
          BY <2>1, <2>6
        <4>4. QED
          BY <2>1, <4>2, <4>3, NodesDiffer
      <3>2. c.node \notin again => MayAsk(c.node, c.side, ended \cup {k})
        BY <2>3, <3>1, MayAskStill
      <3>3. e \subseteq ended \cup {k}
        OBVIOUS
      <3>4. c.node \notin again => MayAsk(c.node, c.side, e)
        BY <3>2, <3>3, MayAskFewer
      <3>5. QED
        BY <2>1, <2>2, <2>3, <2>6, <3>3, <3>4
    <2>7. QED
      BY <2>4, <2>5, <2>6
  <1>10. calls' = <<>> /\ ans # AtEnd => 1 \notin e
    <2>1. SUFFICES ASSUME calls' = <<>>, ans # AtEnd PROVE 1 \notin e
      OBVIOUS
    <2>2. Len(calls) = 1
      BY <1>1, <2>1
    <2>3. k = 1
      BY <1>1, <2>2 DEF Sound, Stack
    <2>4. QED
      BY <1>1, <2>1, <2>3
  <1>11. /\ (\A l \in DOMAIN plan \ (again \cup e) :
              InsideMap(st[l], plan[l].op) /\ (~Running(l) => MayAsk(l, FirstInput(l), e)))'
    BY <1>7 DEF MayAsk
  <1>12. (\A i \in DOMAIN calls :
            /\ calls[i].node \notin e
            /\ calls[i].node \notin again =>
                  MayAsk(calls[i].node, calls[i].side, IF i = 1 THEN e \ Waiting ELSE e))'
    BY <1>9 DEF MayAsk
  <1>13. QED
    BY <1>10, <1>11, <1>12 DEF AskedOnce

(* The invariant with the objects that may be asked again, and those that have ended. *)
SoundFor(again) == \E ended \in SUBSET DOMAIN plan : Sound(again, ended)

(* A call of next() returns. *)
LEMMA ReturnKeeps ==
    ASSUME NEW again, NEW ended, Sound(again, ended), calls # <<>>,
           NEW k, k = K, NEW mem, st' = [st EXCEPT ![k] = mem], GoodMembers(mem, plan[k].op),
           NEW ans, Returns(ans), Steady,
           NEW s, s = FirstInput(k)',
           ans # AtEnd /\ k \notin again => InsideMap(mem, plan[k].op) /\ MayAsk(k, s, ended)
    PROVE  SoundFor(again)'
  <1>1. /\ calls' = Tail(calls) /\ reply' = ans /\ UNCHANGED <<plan, driver>>
    BY DEF Returns, Steady
  <1>2. k \in DOMAIN plan /\ driver = "open" /\ k \notin ended
    BY TopCall
  <1> DEFINE e == IF ans = AtEnd THEN ended \cup ({k} \ again) ELSE ended
  <1>3. AskedOnce(again, e)'
    BY <1>1, AskedAfterReturn
  <1>4. /\ DOMAIN st' = DOMAIN plan /\ st' = [l \in DOMAIN plan |-> st'[l]]
        /\ \A l \in DOMAIN plan \ {k} : st'[l] = st[l]
        /\ \A l \in DOMAIN plan : GoodMembers(st'[l], plan[l].op)
    BY <1>1, <1>2, MembersBecome
  <1>5. Stack'
    BY <1>1, <1>4, StackReturned
  <1>6. e \subseteq DOMAIN plan \ again /\ e \in SUBSET DOMAIN plan
    BY <1>2 DEF Sound
  <1> HIDE DEF e
  <1>7. Sound(again, e)'
    BY <1>1, <1>2, <1>3, <1>4, <1>5, <1>6 DEF Sound
  <1>8. e \in SUBSET DOMAIN plan'
    BY <1>1, <1>6
  <1>9. QED
    BY <1>7, <1>8 DEF SoundFor

(* The innermost call goes on: with the same input, or with the next one. *)
LEMMA CallGoesOn ==
    ASSUME NEW again, NEW ended, Sound(again, ended), calls # <<>>,
           NEW k, k = K, NEW mem, st' = [st EXCEPT ![k] = mem], GoodMembers(mem, plan[k].op),
           NEW s, s \in DOMAIN plan[k].in, s \in 0..2, calls' = [calls EXCEPT ![1] = [node |-> k, side |-> s]],
           reply' = Pending, Steady,
           plan[k].op \in TwoSided /\ s = 2 => mem.seen,
           st[k].seen => mem.seen,
           k \notin again => InsideMap(mem, plan[k].op) /\ MayAsk(k, s, ended)
    PROVE  SoundFor(again)'
  <1>1. /\ Len(calls) \in Nat \ {0} /\ DOMAIN calls = 1..Len(calls) /\ 1 \in DOMAIN calls
        /\ Frame = calls[1] /\ K = calls[1].node /\ driver = "open" /\ k \in DOMAIN plan /\ k \notin ended
    BY TopCall
  <1>2. UNCHANGED <<plan, driver>>
    BY DEF Steady
  <1>3. /\ DOMAIN st' = DOMAIN plan /\ st' = [l \in DOMAIN plan |-> st'[l]] /\ st'[k] = mem
        /\ \A l \in DOMAIN plan \ {k} : st'[l] = st[l] /\ FirstInput(l)' = FirstInput(l)
        /\ \A l \in DOMAIN plan : GoodMembers(st'[l], plan[l].op)
    BY <1>1, <1>2, MembersBecome
  <1>4. Stack /\ AskedOnce(again, ended)
    BY DEF Sound
  <1>5. calls \in Seq([node : DOMAIN plan, side : 0..2]) /\ [node |-> k, side |-> s] \in [node : DOMAIN plan, side : 0..2]
    BY <1>1, <1>4 DEF Stack
  <1>6. PICK c : c = calls'
    OBVIOUS
  <1>7. /\ c \in Seq([node : DOMAIN plan, side : 0..2]) /\ DOMAIN c = DOMAIN calls /\ Len(c) = Len(calls)
        /\ c[1] = [node |-> k, side |-> s] /\ \A i \in DOMAIN calls \ {1} : c[i] = calls[i]
    BY <1>1, <1>5, <1>6
  <1>8. c[1].node = k /\ c[1].side = s /\ \A i \in DOMAIN calls : c[i].node = calls[i].node
    BY <1>1, <1>7
  <1>9. ASSUME NEW i \in DOMAIN calls, i # 1
        PROVE  st'[calls[i].node] = st[calls[i].node] /\ calls[i].node \in DOMAIN plan /\ calls[i].node # k
    <2>1. calls[i].node # k /\ calls[i].node \in DOMAIN plan
      BY <1>1, <1>9, NodesDiffer, CallsTyped
    <2>2. QED
      BY <1>3, <2>1
  <1>10. Stack'
    <2>1. c # <<>> => driver' = "open" /\ c[Len(c)].node = 1
      <3>1. calls[Len(calls)].node = 1 /\ Len(calls) \in DOMAIN calls
        BY <1>1, <1>4 DEF Stack
      <3>2. QED
        BY <1>1, <1>2, <1>7, <1>8, <3>1
    <2>2. ASSUME NEW i \in DOMAIN c PROVE GoodCall(c[i])'
      <3>1. CASE i = 1
        BY <1>2, <1>3, <1>8, <3>1 DEF GoodCall
      <3>2. CASE i # 1
        <4>1. GoodCall(calls[i]) /\ c[i] = calls[i] /\ st'[calls[i].node] = st[calls[i].node] /\ plan' = plan
          BY <1>2, <1>4, <1>7, <1>9, <3>2 DEF Stack
        <4>2. QED
          BY <4>1 DEF GoodCall
      <3>3. QED
        BY <3>1, <3>2
    <2>3. ASSUME NEW i \in DOMAIN c, NEW j \in DOMAIN c, i < j PROVE c[i].node > c[j].node
      BY <1>4, <1>7, <1>8, <2>3 DEF Stack
    <2>4. ASSUME NEW i \in DOMAIN c, i > 1
          PROVE  c[i].side # 0 /\ c[i - 1].node = plan'[c[i].node].in[c[i].side]
      <3>1. i \in DOMAIN calls /\ i - 1 \in DOMAIN calls /\ i # 1 /\ c[i] = calls[i]
        BY <1>1, <1>7, <2>4
      <3>2. calls[i].side # 0 /\ calls[i - 1].node = plan[calls[i].node].in[calls[i].side]
        BY <1>4, <2>4, <3>1 DEF Stack
      <3>3. QED
        BY <1>2, <1>8, <3>1, <3>2
    <2>5. (\A i \in DOMAIN calls : GoodCall(calls[i]))'
      BY <1>6, <2>2
    <2>6. QED
      BY <1>2, <1>6, <1>7, <2>1, <2>3, <2>4, <2>5 DEF Stack
  <1>11. AskedOnce(again, ended)'
    <2>1. Waiting' = {}
      BY DEF Waiting, Pending, AtEnd
    <2>2. \A l : Running(l)' <=> Running(l)
      BY <1>6, <1>7, <1>8 DEF Running
    <2>3. ASSUME NEW l \in DOMAIN plan \ (again \cup ended)
          PROVE  InsideMap(st'[l], plan[l].op) /\ (~Running(l)' => MayAsk(l, FirstInput(l)', ended))
      <3>1. CASE l = k
        <4>1. Running(k)
          BY <1>1 DEF Running
        <4>2. QED
          BY <1>3, <2>2, <2>3, <3>1, <4>1
      <3>2. CASE l # k
        BY <1>3, <1>4, <2>2, <3>2 DEF AskedOnce
      <3>3. QED
        BY <3>1, <3>2
    <2>4. ASSUME NEW i \in DOMAIN c
          PROVE  c[i].node \notin ended /\ (c[i].node \notin again => MayAsk(c[i].node, c[i].side, ended))
      <3>1. CASE i = 1
        BY <1>1, <1>8, <3>1
      <3>2. CASE i # 1
        BY <1>4, <1>7, <3>2 DEF AskedOnce
      <3>3. QED
        BY <3>1, <3>2
    <2>5. (\A l \in DOMAIN plan \ (again \cup ended) :
              InsideMap(st[l], plan[l].op) /\ (~Running(l) => MayAsk(l, FirstInput(l), ended)))'
      BY <1>2, <2>3 DEF MayAsk
    <2>6. (\A i \in DOMAIN calls :
              /\ calls[i].node \notin ended
              /\ calls[i].node \notin again =>
                    MayAsk(calls[i].node, calls[i].side, IF i = 1 THEN ended \ Waiting ELSE ended))'
      <3>1. ended \ Waiting' = ended
        BY <2>1
      <3>2. QED
        BY <1>2, <1>6, <2>4, <3>1 DEF MayAsk
    <2>7. calls' # <<>>
      BY <1>1, <1>6, <1>7
    <2>8. QED
      BY <2>5, <2>6, <2>7 DEF AskedOnce
  <1>12. Sound(again, ended)'
    BY <1>1, <1>2, <1>3, <1>10, <1>11 DEF Sound
  <1>13. ended \in SUBSET DOMAIN plan'
    BY <1>2 DEF Sound
  <1>14. QED
    BY <1>12, <1>13 DEF SoundFor

(* One more frame on top. *)
LEMMA Pushed ==
    ASSUME NEW S, NEW s \in Seq(S), NEW x \in S
    PROVE  /\ <<x>> \o s \in Seq(S) /\ Len(<<x>> \o s) = Len(s) + 1
           /\ (<<x>> \o s)[1] = x
           /\ DOMAIN (<<x>> \o s) = 1..Len(s) + 1 /\ DOMAIN s = 1..Len(s) /\ Len(s) \in Nat
           /\ \A i \in 2..Len(s) + 1 : i - 1 \in DOMAIN s /\ (<<x>> \o s)[i] = s[i - 1]
  OBVIOUS

(* next() of an object is called, by the caller of the plan or by the object above. *)
LEMMA CallKeeps ==
    ASSUME NEW again, NEW ended, Sound(again, ended), reply = Pending,
           NEW x \in DOMAIN plan, x \notin ended, driver = "open",
           calls = <<>> => x = 1,
           calls # <<>> => Frame.side \in DOMAIN plan[K].in /\ Frame.side # 0 /\ x = plan[K].in[Frame.side],
           calls' = CallOf(x) \o calls, UNCHANGED <<plan, driver, st, reply>>
    PROVE  SoundFor(again)'
  <1> DEFINE S == [node : DOMAIN plan, side : 0..2]
  <1>1. Stack /\ AskedOnce(again, ended) /\ IsTree(plan) /\ plan \in Plans
    BY DEF Sound
  <1>2. FirstInput(x) \in 0..2 /\ GoodCall([node |-> x, side |-> FirstInput(x)])
    BY <1>1, FirstCallGood
  <1>3. PICK f : f = [node |-> x, side |-> FirstInput(x)]
    OBVIOUS
  <1>4. f \in S /\ f.node = x /\ f.side = FirstInput(x) /\ GoodCall(f)
    BY <1>2, <1>3
  <1>5. calls \in Seq(S)
    BY <1>1 DEF Stack
  <1>6. PICK c : c = calls'
    OBVIOUS
  <1>7. c = <<f>> \o calls
    BY <1>3, <1>6 DEF CallOf
  <1> HIDE DEF S
  <1>8. /\ c \in Seq(S) /\ Len(c) = Len(calls) + 1 /\ c[1] = f
        /\ DOMAIN c = 1..Len(calls) + 1 /\ DOMAIN calls = 1..Len(calls) /\ Len(calls) \in Nat
        /\ \A i \in 2..Len(calls) + 1 : i - 1 \in DOMAIN calls /\ c[i] = calls[i - 1]
    BY <1>4, <1>5, <1>7, Pushed
  <1>9. ASSUME NEW i \in DOMAIN c, i # 1
        PROVE  i - 1 \in DOMAIN calls /\ c[i] = calls[i - 1] /\ i - 1 \in Nat \ {0}
    BY <1>8, <1>9
  <1>10. ASSUME NEW i \in DOMAIN calls PROVE x > calls[i].node
    <2>1. calls # <<>> /\ 1 \in DOMAIN calls /\ K = calls[1].node /\ K \in DOMAIN plan
      <3>1. calls # <<>>
        BY <1>8
      <3>2. QED
        BY <3>1, TopCall
    <2>2. x > K
      BY <1>1, <2>1, PlanAssumption
    <2>3. CASE i = 1
      BY <2>1, <2>2, <2>3
    <2>4. CASE i # 1
      <3>1. 1 < i
        BY <1>8, <2>4
      <3>2. K > calls[i].node
        BY <1>1, <2>1, <3>1 DEF Stack
      <3>3. K \in Nat /\ calls[i].node \in Nat /\ x \in Nat
        BY <1>1, <2>1, CallsTyped DEF IsTree
      <3>4. QED
        BY <2>2, <3>2, <3>3
    <2>5. QED
      BY <2>3, <2>4
  <1>11. Stack'
    <2>1. driver' = "open" /\ c[Len(c)].node = 1
      <3>1. CASE calls = <<>>
        BY <1>4, <1>8, <3>1
      <3>2. CASE calls # <<>>
        <4>1. calls[Len(calls)].node = 1 /\ Len(c) \in DOMAIN c /\ Len(c) # 1 /\ Len(c) - 1 = Len(calls)
          <5>1. Len(calls) # 0
            BY <1>5, <3>2
          <5>2. QED
            BY <1>1, <1>8, <3>2, <5>1 DEF Stack
        <4>2. QED
          BY <1>9, <4>1
      <3>3. QED
        BY <3>1, <3>2
    <2>2. ASSUME NEW i \in DOMAIN c PROVE GoodCall(c[i])'
      <3>1. GoodCall(c[i])
        <4>1. CASE i = 1
          BY <1>4, <1>8, <4>1
        <4>2. CASE i # 1
          BY <1>1, <1>9, <4>2 DEF Stack
        <4>3. QED
          BY <4>1, <4>2
      <3>2. QED
        BY <3>1 DEF GoodCall
    <2>3. ASSUME NEW i \in DOMAIN c, NEW j \in DOMAIN c, i < j PROVE c[i].node > c[j].node
      <3>1. j # 1 /\ j - 1 \in DOMAIN calls /\ c[j] = calls[j - 1]
        BY <1>8, <2>3
      <3>2. CASE i = 1
        BY <1>4, <1>8, <1>10, <3>1, <3>2
      <3>3. CASE i # 1
        <4>1. i - 1 \in DOMAIN calls /\ c[i] = calls[i - 1] /\ i - 1 < j - 1
          BY <1>8, <2>3, <3>3
        <4>2. QED
          BY <1>1, <3>1, <4>1 DEF Stack
      <3>4. QED
        BY <3>2, <3>3
    <2>4. ASSUME NEW i \in DOMAIN c, i > 1
          PROVE  c[i].side # 0 /\ c[i - 1].node = plan[c[i].node].in[c[i].side]
      <3>1. i - 1 \in DOMAIN calls /\ c[i] = calls[i - 1] /\ i \in Nat
        BY <1>8, <2>4
      <3>2. CASE i = 2
        <4>1. calls # <<>> /\ c[2] = calls[1] /\ c[1].node = x
          BY <1>4, <1>8, <3>1, <3>2
        <4>2. Frame = calls[1] /\ K = calls[1].node
          BY <4>1, TopCall
        <4>3. QED
          BY <3>2, <4>1, <4>2
      <3>3. CASE i # 2
        <4>1. i - 1 > 1 /\ i - 1 \in DOMAIN c /\ (i - 1) - 1 \in DOMAIN calls /\ c[i - 1] = calls[(i - 1) - 1]
          BY <1>8, <2>4, <3>3
        <4>2. calls[i - 1].side # 0
                /\ calls[(i - 1) - 1].node = plan[calls[i - 1].node].in[calls[i - 1].side]
          BY <1>1, <3>1, <4>1 DEF Stack
        <4>3. QED
          BY <3>1, <4>1, <4>2
      <3>4. QED
        BY <3>2, <3>3
    <2>5. (\A i \in DOMAIN calls : GoodCall(calls[i]))'
      BY <1>6, <2>2
    <2>6. QED
      BY <1>6, <1>8, <2>1, <2>3, <2>4, <2>5 DEF Stack, S
  <1>12. AskedOnce(again, ended)'
    <2>1. Waiting' = {} /\ Waiting = {}
      BY DEF Waiting, Pending, AtEnd
    <2>2. ASSUME NEW l \in DOMAIN plan, ~Running(l)' PROVE ~Running(l) /\ l # x
      <3>1. l # x
        BY <1>4, <1>6, <1>8, <2>2 DEF Running
      <3>2. ASSUME NEW i \in DOMAIN calls PROVE calls[i].node # l
        <4>1. i + 1 \in 2..Len(calls) + 1 /\ (i + 1) - 1 = i /\ i + 1 \in DOMAIN c
          BY <1>8
        <4>2. c[i + 1] = calls[i]
          BY <1>8, <4>1
        <4>3. QED
          BY <1>6, <2>2, <4>1, <4>2 DEF Running
      <3>3. QED
        BY <3>1, <3>2 DEF Running
    <2>3. (\A l \in DOMAIN plan \ (again \cup ended) :
              InsideMap(st[l], plan[l].op) /\ (~Running(l) => MayAsk(l, FirstInput(l), ended)))'
      <3>1. ASSUME NEW l \in DOMAIN plan \ (again \cup ended)
            PROVE  InsideMap(st[l], plan[l].op) /\ (~Running(l)' => MayAsk(l, FirstInput(l), ended))
        BY <1>1, <2>2 DEF AskedOnce
      <3>2. \A l : FirstInput(l)' = FirstInput(l)
        BY DEF FirstInput
      <3>3. QED
        BY <3>1, <3>2 DEF MayAsk
    <2>4. ASSUME NEW i \in DOMAIN c
          PROVE  c[i].node \notin ended /\ (c[i].node \notin again => MayAsk(c[i].node, c[i].side, ended))
      <3>1. CASE i = 1
        <4>1. ~Running(x)
          <5>1. ASSUME NEW j \in DOMAIN calls PROVE calls[j].node # x
            <6>1. x > calls[j].node /\ calls[j].node \in Nat
              BY <1>1, <1>10, CallsTyped DEF IsTree
            <6>2. QED
              BY <6>1
          <5>2. QED
            BY <5>1 DEF Running
        <4>2. x \notin again => MayAsk(x, FirstInput(x), ended)
          BY <1>1, <4>1 DEF AskedOnce
        <4>3. QED
          BY <1>4, <1>8, <3>1, <4>2
      <3>2. CASE i # 1
        <4>1. i - 1 \in DOMAIN calls /\ c[i] = calls[i - 1]
          BY <1>9, <3>2
        <4>2. (IF i - 1 = 1 THEN ended \ Waiting ELSE ended) = ended
          BY <2>1
        <4>3. QED
          BY <1>1, <4>1, <4>2 DEF AskedOnce
      <3>3. QED
        BY <3>1, <3>2
    <2>5. (\A i \in DOMAIN calls :
              /\ calls[i].node \notin ended
              /\ calls[i].node \notin again =>
                    MayAsk(calls[i].node, calls[i].side, IF i = 1 THEN ended \ Waiting ELSE ended))'
      <3>1. ended \ Waiting' = ended
        BY <2>1
      <3>2. QED
        BY <1>6, <2>4, <3>1 DEF MayAsk
    <2>6. calls' # <<>>
      BY <1>6, <1>8
    <2>7. QED
      BY <2>3, <2>5, <2>6 DEF AskedOnce
  <1>13. Sound(again, ended)'
    BY <1>11, <1>12 DEF Sound
  <1>14. ended \in SUBSET DOMAIN plan'
    BY DEF Sound
  <1>15. QED
    BY <1>13, <1>14 DEF SoundFor

(* The caller does nothing that next() would see. *)
LEMMA CallerKeeps ==
    ASSUME NEW again, NEW ended, Sound(again, ended), calls = <<>>,
           UNCHANGED <<plan, st, calls>>, driver' \in {"new", "open", "ended"},
           reply' = Pending,
           driver' # "ended" => 1 \notin ended
    PROVE  SoundFor(again)'
  <1>1. Stack /\ AskedOnce(again, ended)
    BY DEF Sound
  <1>2. DOMAIN calls = {} /\ DOMAIN calls' = {} /\ calls' = calls
    OBVIOUS
  <1>3. Stack'
    BY <1>1, <1>2 DEF Stack
  <1>4. \A l : (FirstInput(l)' = FirstInput(l)) /\ (Running(l)' <=> Running(l))
    BY <1>2 DEF FirstInput, Running
  <1>5. (\A l \in DOMAIN plan \ (again \cup ended) :
            InsideMap(st[l], plan[l].op) /\ (~Running(l) => MayAsk(l, FirstInput(l), ended)))'
    BY <1>1, <1>4 DEF AskedOnce, MayAsk
  <1>6. AskedOnce(again, ended)'
    BY <1>2, <1>5 DEF AskedOnce
  <1>7. Sound(again, ended)'
    BY <1>3, <1>6 DEF Sound
  <1>8. ended \in SUBSET DOMAIN plan'
    BY DEF Sound
  <1>9. QED
    BY <1>7, <1>8 DEF SoundFor

(* An object that asks an input: it may not have ended. *)
LEMMA PullKeeps ==
    ASSUME NEW again, NEW ended, Sound(again, ended), Pull
    PROVE  SoundFor(again)' /\ overrun' = overrun
  <1>1. /\ calls # <<>> /\ reply = Pending /\ Frame.side > 0 /\ overrun' = overrun
        /\ calls' = CallOf(plan[K].in[Frame.side]) \o calls /\ UNCHANGED <<plan, driver, st, reply>>
    BY DEF Pull, Object
  <1>2. /\ 1 \in DOMAIN calls /\ Frame = calls[1] /\ K = calls[1].node /\ K \in DOMAIN plan
        /\ GoodCall(Frame) /\ driver = "open"
    BY <1>1, TopCall
  <1>3. Frame.side \in 0..2
    BY <1>2, CallsTyped
  <1>4. Frame.side \in DOMAIN plan[K].in /\ Frame.side # 0
    BY <1>1, <1>2, <1>3 DEF GoodCall
  <1>5. plan[K].in[Frame.side] \in DOMAIN plan
    BY <1>2, <1>4 DEF Sound, IsTree
  <1>6. plan[K].in[Frame.side] \notin ended
    <2>1. CASE K \in again
      BY <1>2, <1>4, <2>1 DEF Sound, AskedAgain
    <2>2. CASE K \notin again
      <3>1. Waiting = {}
        BY <1>1 DEF Waiting, Pending, AtEnd
      <3>2. MayAsk(K, Frame.side, ended \ Waiting)
        BY <1>2, <2>2 DEF Sound, AskedOnce
      <3>3. MayAsk(K, Frame.side, ended)
        BY <3>1, <3>2
      <3>4. QED
        BY <1>1, <1>3, <1>4, <3>3 DEF MayAsk
    <2>3. QED
      BY <2>1, <2>2
  <1>7. SoundFor(again)'
    BY <1>1, <1>2, <1>4, <1>5, <1>6, CallKeeps
  <1>8. QED
    BY <1>1, <1>7

(* The caller opens the plan. *)
LEMMA OpenKeeps ==
    ASSUME NEW again, NEW ended, Sound(again, ended), Open
    PROVE  SoundFor(again)' /\ overrun' = overrun
  <1>1. driver = "new" /\ driver' = "open" /\ UNCHANGED <<plan, st, calls, reply, overrun>>
    BY DEF Open
  <1>2. calls = <<>> /\ reply = Pending
    BY <1>1 DEF Sound, Stack
  <1>3. 1 \notin ended
    BY <1>1, <1>2 DEF Sound, AskedOnce, Pending, AtEnd
  <1>4. QED
    BY <1>1, <1>2, <1>3, CallerKeeps

(* The caller asks the root, which has not ended. *)
LEMMA CallNextKeeps ==
    ASSUME NEW again, NEW ended, Sound(again, ended), CallNext
    PROVE  SoundFor(again)' /\ overrun' = overrun
  <1>1. /\ driver = "open" /\ calls = <<>> /\ reply = Pending /\ calls' = CallOf(1)
        /\ UNCHANGED <<plan, driver, st, reply, overrun>>
    BY DEF CallNext
  <1>2. 1 \in DOMAIN plan
    BY DEF Sound, IsTree
  <1>3. 1 \notin ended
    BY <1>1 DEF Sound, AskedOnce, Pending, AtEnd
  <1>4. calls' = CallOf(1) \o calls
    BY <1>1 DEF CallOf
  <1>5. SoundFor(again)'
    BY <1>1, <1>2, <1>3, <1>4, CallKeeps
  <1>6. QED
    BY <1>1, <1>5

(* The caller looks at an answer, and does not ask again after the end. *)
LEMMA TakeAnswerKeeps ==
    ASSUME NEW again, NEW ended, Sound(again, ended), TakeAnswer
    PROVE  SoundFor(again)' /\ overrun' = overrun
  <1>1. /\ calls = <<>> /\ reply # Pending /\ reply' = Pending
        /\ driver' = IF reply = AtEnd THEN "ended" ELSE driver
        /\ UNCHANGED <<plan, st, calls, overrun>>
    BY DEF TakeAnswer
  <1>2. driver = "open"
    BY <1>1 DEF Sound
  <1>3. reply # AtEnd => 1 \notin ended
    BY <1>1, <1>2 DEF Sound, AskedOnce
  <1>4. SoundFor(again)'
    BY <1>1, <1>2, <1>3, CallerKeeps
  <1>5. QED
    BY <1>1, <1>4

(* Closing ends the plan. *)
LEMMA CloseKeeps ==
    ASSUME NEW again, NEW ended, Sound(again, ended), Close
    PROVE  driver' = "closed" /\ calls' = <<>> /\ reply' = Pending /\ overrun' = overrun
  <1>1. driver = "ended" /\ driver' = "closed" /\ UNCHANGED <<calls, reply, overrun>>
    BY DEF Close
  <1>2. QED
    BY <1>1 DEF Sound, Stack

(* No object runs in a plan that is closed. *)
LEMMA ClosedStays ==
    ASSUME driver = "closed", calls = <<>>, reply = Pending, [Next]_vars
    PROVE  UNCHANGED vars
  <1>1. ASSUME Next PROVE FALSE
    <2>1. ~Open /\ ~CallNext /\ ~TakeAnswer /\ ~Close /\ ~Pull
      BY DEF Open, CallNext, TakeAnswer, Close, Pull
    <2>2. /\ \A op : ~Asked(op)
          /\ \A op, side : ~TupleFor(op, side) /\ ~EndFor(op, side)
      BY DEF Asked, TupleFor, EndFor
    <2>3. ~SourceNext /\ ~PrintNext /\ ~ProjectionNext /\ ~SelectNext /\ ~SortNext
      BY <2>2 DEF SourceNext, PrintNext, ProjectionNext, SelectNext, SortNext
    <2>4. ~JoinBuild /\ ~JoinProbe /\ ~AggregationNext
      BY <2>2 DEF JoinBuild, JoinProbe, AggregationNext
    <2>5. ~UnionTuple /\ ~UnionAllTuple /\ ~InputEnds
      BY <2>2 DEF UnionTuple, UnionAllTuple, InputEnds, RightFollows
    <2>6. ~IntersectBuild /\ ~IntersectAllBuild /\ ~IntersectProbe /\ ~ExceptBuild /\ ~ExceptAllBuild
      BY <2>2 DEF IntersectBuild, IntersectAllBuild, IntersectProbe, ExceptBuild, ExceptAllBuild, CountLeft
    <2>7. ~ExceptProbe /\ ~ExceptNext
      BY <2>2 DEF ExceptProbe, ExceptNext
    <2>8. QED
      BY <1>1, <2>1, <2>3, <2>4, <2>5, <2>6, <2>7 DEF Next
  <1>2. QED
    BY <1>1

(* What the next call begins with, after the innermost call has changed its object's members. *)
LEMMA FirstInputAfter ==
    ASSUME NEW k, NEW mem, st'[k] = mem, plan' = plan
    PROVE  /\ plan[k].op = "Source" => FirstInput(k)' = 0
           /\ plan[k].op = "Sort" => FirstInput(k)' = IF mem.offset = 0 THEN 1 ELSE 0
           /\ plan[k].op \in {"HashAggregation", "Except", "ExceptAll"} =>
                 FirstInput(k)' = IF mem.seen THEN 0 ELSE 1
           /\ plan[k].op \in TwoSided => FirstInput(k)' = IF mem.seen THEN 2 ELSE 1
           /\ plan[k].op \notin {"Source", "Sort", "HashAggregation", "Except", "ExceptAll"} \cup TwoSided =>
                 FirstInput(k)' = 1
  <1>1. CASE plan[k].op = "Source"
    BY <1>1 DEF FirstInput, TwoSided
  <1>2. CASE plan[k].op = "Sort"
    BY <1>2 DEF FirstInput, TwoSided
  <1>3. CASE plan[k].op \in {"HashAggregation", "Except", "ExceptAll"}
    BY <1>3 DEF FirstInput, TwoSided
  <1>4. CASE plan[k].op \in TwoSided
    BY <1>4 DEF FirstInput, TwoSided
  <1>5. CASE plan[k].op \notin {"Source", "Sort", "HashAggregation", "Except", "ExceptAll"} \cup TwoSided
    BY <1>5 DEF FirstInput, TwoSided
  <1>6. QED
    BY <1>1, <1>2, <1>3, <1>4, <1>5

(* The innermost call, its object and what it may ask. *)
LEMMA TopAsks ==
    ASSUME NEW again, NEW ended, Sound(again, ended), calls # <<>>, NEW k, k = K
    PROVE  /\ k \in DOMAIN plan /\ Frame.side \in 0..2 /\ DOMAIN plan[k].in = InputsOf(plan[k].op)
           /\ Frame = [node |-> k, side |-> Frame.side] /\ GoodCall(Frame)
           /\ GoodMembers(st[k], plan[k].op) /\ st = [st EXCEPT ![k] = st[k]]
           /\ InsideMap(st[k], plan[k].op)
           /\ k \notin again => MayAsk(k, Frame.side, ended \ Waiting)
           /\ reply # AtEnd /\ k \notin again => MayAsk(k, Frame.side, ended)
  <1>1. /\ 1 \in DOMAIN calls /\ Frame = calls[1] /\ K = calls[1].node /\ K \in DOMAIN plan
        /\ GoodCall(Frame) /\ K \notin ended
    BY TopCall
  <1>2. calls[1] \in [node : DOMAIN plan, side : 0..2]
    BY <1>1, CallsTyped
  <1>3. Frame.side \in 0..2 /\ Frame = [node |-> k, side |-> Frame.side]
    BY <1>1, <1>2
  <1>4. DOMAIN plan[k].in = InputsOf(plan[k].op)
    BY <1>1 DEF Sound, IsTree
  <1>5. GoodMembers(st[k], plan[k].op) /\ st = [st EXCEPT ![k] = st[k]]
    <2>1. st = [l \in DOMAIN plan |-> st[l]] /\ GoodMembers(st[k], plan[k].op)
      BY <1>1 DEF Sound
    <2>2. QED
      BY <1>1, <2>1
  <1>6. InsideMap(st[k], plan[k].op)
    <2>1. CASE k \in again
      BY <2>1 DEF Sound, InsideMap
    <2>2. CASE k \notin again
      BY <1>1, <2>2 DEF Sound, AskedOnce
    <2>3. QED
      BY <2>1, <2>2
  <1>7. k \notin again => MayAsk(k, Frame.side, ended \ Waiting)
    BY <1>1 DEF Sound, AskedOnce
  <1>8. reply # AtEnd => ended \ Waiting = ended
    BY DEF Waiting
  <1>9. QED
    BY <1>1, <1>3, <1>4, <1>5, <1>6, <1>7, <1>8

(* After a tuple of an input the object may go on with that input or a later one. *)
LEMMA MayAskOn ==
    ASSUME NEW again, NEW ended, Sound(again, ended), calls # <<>>, NEW k, k = K, k \notin again,
           NEW s \in 0..2,
           \/ s = 0
           \/ reply # AtEnd /\ 0 < Frame.side /\ Frame.side <= s
           \/ reply # AtEnd /\ plan[k].op = "HashJoin" /\ Frame.side = 2
    PROVE  MayAsk(k, s, ended)
  <1>1. CASE s = 0
    BY <1>1 DEF MayAsk
  <1>2. /\ k \in DOMAIN plan /\ Frame.side \in 0..2 /\ DOMAIN plan[k].in = InputsOf(plan[k].op)
        /\ reply # AtEnd => MayAsk(k, Frame.side, ended)
    BY TopAsks
  <1>3. DOMAIN plan[k].in \subseteq {1, 2}
    BY <1>2, InputsKnown
  <1>4. CASE reply # AtEnd /\ 0 < Frame.side /\ Frame.side <= s
    BY <1>2, <1>3, <1>4 DEF MayAsk
  <1>5. CASE reply # AtEnd /\ plan[k].op = "HashJoin" /\ Frame.side = 2
    <2>1. 1 \in DOMAIN plan[k].in => plan[k].in[1] \in again
      BY <1>2, <1>5 DEF Sound, AskedAgain
    <2>2. 1 \in DOMAIN plan[k].in => plan[k].in[1] \notin ended
      BY <2>1 DEF Sound
    <2>3. 2 \in DOMAIN plan[k].in => plan[k].in[2] \notin ended
      BY <1>2, <1>5 DEF MayAsk
    <2>4. QED
      BY <1>3, <2>2, <2>3 DEF MayAsk
  <1>6. QED
    BY <1>1, <1>4, <1>5

(* The innermost call answers: the end, or a tuple after which it may be asked again. *)
LEMMA AnswerKeeps ==
    ASSUME NEW again, NEW ended, Sound(again, ended), calls # <<>>, NEW k, k = K,
           NEW mem, st' = [st EXCEPT ![k] = mem], GoodMembers(mem, plan[k].op), InsideMap(mem, plan[k].op),
           NEW ans, Returns(ans), Steady, NEW s \in 0..2, s = FirstInput(k)',
           \/ ans = AtEnd
           \/ s = 0
           \/ reply # AtEnd /\ 0 < Frame.side /\ Frame.side <= s
           \/ reply # AtEnd /\ plan[k].op = "HashJoin" /\ Frame.side = 2
    PROVE  SoundFor(again)'
  <1>1. ans # AtEnd /\ k \notin again => InsideMap(mem, plan[k].op) /\ MayAsk(k, s, ended)
    BY MayAskOn
  <1>2. QED
    BY <1>1, ReturnKeeps

(* The innermost call asks the same input again after a tuple. *)
LEMMA AsksAgainKeeps ==
    ASSUME NEW again, NEW ended, Sound(again, ended), calls # <<>>, NEW k, k = K,
           NEW mem, st' = [st EXCEPT ![k] = mem], GoodMembers(mem, plan[k].op), InsideMap(mem, plan[k].op),
           AsksAgain, Steady, Frame.side # 0, reply # AtEnd, mem.seen = st[k].seen
    PROVE  SoundFor(again)'
  <1> DEFINE s == Frame.side
  <1>1. /\ k \in DOMAIN plan /\ s \in 0..2 /\ Frame = [node |-> k, side |-> s] /\ GoodCall(Frame)
    BY TopAsks
  <1>2. s \in DOMAIN plan[k].in /\ (plan[k].op \in TwoSided /\ s = 2 => st[k].seen)
    BY <1>1 DEF GoodCall
  <1>3. 1 \in DOMAIN calls /\ Frame = calls[1] /\ calls \in Seq([node : DOMAIN plan, side : 0..2])
    BY TopCall DEF Sound, Stack
  <1>4. calls' = [calls EXCEPT ![1] = [node |-> k, side |-> s]] /\ reply' = Pending
    BY <1>1, <1>3 DEF AsksAgain
  <1>5. k \notin again => MayAsk(k, s, ended)
    BY TopAsks
  <1> HIDE DEF s
  <1>6. QED
    BY <1>1, <1>2, <1>4, <1>5, CallGoesOn

(* The innermost call turns from its left input, which has ended, to its right one. *)
LEMMA TurnsKeeps ==
    ASSUME NEW again, NEW ended, Sound(again, ended), calls # <<>>, NEW k, k = K,
           NEW mem, st' = [st EXCEPT ![k] = mem], GoodMembers(mem, plan[k].op), InsideMap(mem, plan[k].op),
           Turns(2), Steady, Frame.side = 1, reply = AtEnd, 2 \in DOMAIN plan[k].in,
           st[k].seen => mem.seen, plan[k].op \in TwoSided => mem.seen
    PROVE  SoundFor(again)'
  <1>1. /\ k \in DOMAIN plan /\ Frame = [node |-> k, side |-> Frame.side] /\ GoodCall(Frame)
        /\ k \notin again => MayAsk(k, 1, ended \ Waiting)
    BY TopAsks
  <1>2. 1 \in DOMAIN plan[k].in
    BY <1>1 DEF GoodCall
  <1>3. plan[k].in[2] # plan[k].in[1]
    BY <1>1, <1>2 DEF Sound, IsTree
  <1>4. Waiting = {plan[k].in[1]}
    BY DEF Waiting
  <1>5. DOMAIN plan[k].in \subseteq {1, 2}
    BY <1>1, InputsKnown DEF Sound, IsTree
  <1>6. k \notin again => MayAsk(k, 2, ended)
    BY <1>1, <1>3, <1>4, <1>5 DEF MayAsk
  <1>7. 1 \in DOMAIN calls /\ Frame = calls[1] /\ calls \in Seq([node : DOMAIN plan, side : 0..2])
    BY TopCall DEF Sound, Stack
  <1>8. [Frame EXCEPT !.side = 2] = [node |-> k, side |-> 2]
    BY <1>1
  <1>9. <<[node |-> k, side |-> 2]>> \o Tail(calls) = [calls EXCEPT ![1] = [node |-> k, side |-> 2]]
    <2> SUFFICES ASSUME NEW c, c = calls, NEW f, f = [node |-> k, side |-> 2], NEW R, c \in Seq(R), f \in R, c # <<>>
                 PROVE  <<f>> \o Tail(c) = [c EXCEPT ![1] = f]
      BY <1>1, <1>7
    <2>1. QED
      OBVIOUS
  <1>10. calls' = [calls EXCEPT ![1] = [node |-> k, side |-> 2]] /\ reply' = Pending
    BY <1>8, <1>9 DEF Turns
  <1>11. 2 \in 0..2
    OBVIOUS
  <1>12. QED
    BY <1>6, <1>10, <1>11, CallGoesOn

(* The input that an object asks first after an answer is not before the one it has asked last. *)
LEMMA NextInput ==
    ASSUME NEW again, NEW ended, Sound(again, ended), calls # <<>>, NEW k, k = K,
           NEW mem, st' = [st EXCEPT ![k] = mem], GoodMembers(mem, plan[k].op), plan' = plan,
           st[k].seen => mem.seen
    PROVE  /\ FirstInput(k)' \in 0..2
           /\ plan[k].op \in {"Print", "Projection", "Select", "Sort", "HashAggregation"} \cup TwoSided =>
                 FirstInput(k)' = 0 \/ Frame.side <= FirstInput(k)'
           /\ \/ plan[k].op = "Source"
              \/ plan[k].op = "Sort" /\ mem.offset # 0
              \/ plan[k].op \in {"HashAggregation", "Except", "ExceptAll"} /\ mem.seen
              => FirstInput(k)' = 0
  <1> DEFINE op == plan[k].op
             s == FirstInput(k)'
  <1>1. /\ k \in DOMAIN plan /\ Frame.side \in 0..2 /\ DOMAIN plan[k].in = InputsOf(op) /\ GoodCall(Frame)
        /\ Frame.node = k
    BY TopAsks DEF K
  <1>2. st'[k] = mem
    BY <1>1, MembersBecome
  <1>3. Frame.side \in {0} \cup InputsOf(op) /\ (op \in TwoSided /\ Frame.side = 2 => st[k].seen)
    BY <1>1 DEF GoodCall
  <1>4. CASE op = "Source"
    BY <1>2, <1>4, FirstInputAfter
  <1>5. CASE op = "Sort"
    <2>1. s = IF mem.offset = 0 THEN 1 ELSE 0
      BY <1>2, <1>5, FirstInputAfter
    <2>2. Frame.side \in {0, 1}
      BY <1>3, <1>5, InputsKnown
    <2>3. QED
      BY <1>5, <2>1, <2>2
  <1>6. CASE op \in {"HashAggregation", "Except", "ExceptAll"}
    <2>1. s = IF mem.seen THEN 0 ELSE 1
      BY <1>2, <1>6, FirstInputAfter
    <2>2. op = "HashAggregation" => Frame.side \in {0, 1}
      BY <1>3, InputsKnown
    <2>3. op = "HashAggregation" => s = 0 \/ Frame.side <= s
      BY <2>1, <2>2
    <2>4. QED
      BY <1>6, <2>1, <2>3 DEF TwoSided
  <1>7. CASE op \in TwoSided
    <2>1. s = IF mem.seen THEN 2 ELSE 1
      BY <1>2, <1>7, FirstInputAfter
    <2>2. Frame.side <= s
      BY <1>1, <1>3, <1>7, <2>1
    <2>3. QED
      BY <1>7, <2>1, <2>2 DEF TwoSided
  <1>8. CASE op \notin {"Source", "Sort", "HashAggregation", "Except", "ExceptAll"} \cup TwoSided
    <2>1. s = 1
      BY <1>2, <1>8, FirstInputAfter
    <2>2. op \in {"Print", "Projection", "Select"} => Frame.side \in {0, 1}
      BY <1>3, InputsKnown
    <2>3. QED
      BY <1>8, <2>1, <2>2
  <1>9. QED
    BY <1>4, <1>5, <1>6, <1>7, <1>8

(* The innermost call answers: the end, or a tuple after which its object may be asked again. *)
LEMMA Answers ==
    ASSUME NEW again, NEW ended, Sound(again, ended), calls # <<>>, NEW k, k = K,
           NEW mem, st' = [st EXCEPT ![k] = mem], GoodMembers(mem, plan[k].op), InsideMap(mem, plan[k].op),
           st[k].seen => mem.seen,
           NEW ans, Returns(ans), Steady,
           \/ ans = AtEnd
           \/ /\ reply # AtEnd /\ Frame.side # 0
              /\ plan[k].op \in {"Print", "Projection", "Select", "Sort", "HashAggregation"} \cup TwoSided
           \/ reply # AtEnd /\ Frame.side = 2 /\ plan[k].op = "HashJoin"
           \/ plan[k].op = "Source"
           \/ plan[k].op = "Sort" /\ mem.offset # 0
           \/ plan[k].op \in {"HashAggregation", "Except", "ExceptAll"} /\ mem.seen
    PROVE  SoundFor(again)'
  <1>1. plan' = plan
    BY DEF Steady
  <1>2. PICK s : s = FirstInput(k)'
    OBVIOUS
  <1>3. /\ s \in 0..2
        /\ plan[k].op \in {"Print", "Projection", "Select", "Sort", "HashAggregation"} \cup TwoSided =>
              s = 0 \/ Frame.side <= s
        /\ \/ plan[k].op = "Source"
           \/ plan[k].op = "Sort" /\ mem.offset # 0
           \/ plan[k].op \in {"HashAggregation", "Except", "ExceptAll"} /\ mem.seen
           => s = 0
    BY <1>1, <1>2, NextInput
  <1>4. Frame.side \in 0..2
    BY TopAsks
  <1>5. \/ ans = AtEnd
        \/ s = 0
        \/ reply # AtEnd /\ 0 < Frame.side /\ Frame.side <= s
        \/ reply # AtEnd /\ plan[k].op = "HashJoin" /\ Frame.side = 2
    BY <1>3, <1>4
  <1>6. QED
    BY <1>2, <1>3, <1>5, AnswerKeeps

(* What the guards of the actions say. *)
LEMMA Guards ==
    ASSUME NEW op, NEW side, NEW k, k = K
    PROVE  /\ Asked(op) => calls # <<>> /\ reply # AtEnd /\ Frame.side = 0 /\ plan[k].op = op
           /\ TupleFor(op, side) => calls # <<>> /\ reply # AtEnd /\ Frame.side = side /\ plan[k].op = op
           /\ EndFor(op, side) => calls # <<>> /\ reply = AtEnd /\ Frame.side = side /\ plan[k].op = op
  <1>1. AtEnd.kind = "end" /\ Pending.kind = "none"
    BY DEF AtEnd, Pending
  <1>2. QED
    BY <1>1 DEF Asked, TupleFor, EndFor, Object

(* What the innermost object keeps: its members have the same names, and seen is not reset. *)
LEMMA PlainMembers ==
    ASSUME NEW mem, NEW op, DOMAIN mem = {"seen", "offset", "rows", "ht"},
           op \notin {"Sort", "HashAggregation"}
    PROVE  GoodMembers(mem, op) /\ InsideMap(mem, op)
  BY DEF GoodMembers, InsideMap

(* The actions that leave the members alone: a tuple or an end is passed on, or the input asked again. *)
LEMMA PassesKeeps ==
    ASSUME NEW again, NEW ended, Sound(again, ended), NEW k, k = K, calls # <<>>, UNCHANGED st, Steady,
           \/ \E ans : Returns(ans) /\ (ans = AtEnd \/ reply # AtEnd)
           \/ AsksAgain /\ reply # AtEnd,
           Frame.side # 0, plan[k].op = "HashJoin" => Frame.side = 2,
           plan[k].op \in {"Print", "Projection", "Select", "HashJoin"} \cup TwoSided
    PROVE  SoundFor(again)'
  <1>1. PICK mem : mem = st[k]
    OBVIOUS
  <1>2. GoodMembers(mem, plan[k].op) /\ InsideMap(mem, plan[k].op) /\ st' = [st EXCEPT ![k] = mem]
    BY <1>1, TopAsks
  <1>3. CASE \E ans : Returns(ans) /\ (ans = AtEnd \/ reply # AtEnd)
    <2>1. PICK ans : Returns(ans) /\ (ans = AtEnd \/ reply # AtEnd)
      BY <1>3
    <2>2. QED
      BY <1>1, <1>2, <2>1, Answers
  <1>4. CASE AsksAgain /\ reply # AtEnd
    BY <1>1, <1>2, <1>4, AsksAgainKeeps
  <1>5. QED
    BY <1>3, <1>4

(* Print passes on what its input answers. *)
LEMMA PrintKeeps ==
    ASSUME NEW again, NEW ended, Sound(again, ended), PrintNext
    PROVE  SoundFor(again)' /\ overrun' = overrun
  <1>1. PICK k : k = K
    OBVIOUS
  <1>2. UNCHANGED st /\ Steady /\ overrun' = overrun
    BY DEF PrintNext, Rest, Steady
  <1>3. \/ TupleFor("Print", 1) /\ Returns(Found(reply.tuple))
        \/ EndFor("Print", 1) /\ Returns(AtEnd)
    BY DEF PrintNext
  <1>4. calls # <<>> /\ Frame.side = 1 /\ plan[k].op = "Print"
    BY <1>1, <1>3, Guards
  <1>5. \E ans : Returns(ans) /\ (ans = AtEnd \/ reply # AtEnd)
    BY <1>1, <1>3, Guards
  <1>6. SoundFor(again)'
    BY <1>1, <1>2, <1>4, <1>5, PassesKeeps
  <1>7. QED
    BY <1>2, <1>6

(* A projection answers whenever its input does. *)
LEMMA ProjectionKeeps ==
    ASSUME NEW again, NEW ended, Sound(again, ended), ProjectionNext
    PROVE  SoundFor(again)' /\ overrun' = overrun
  <1>1. PICK k : k = K
    OBVIOUS
  <1>2. UNCHANGED st /\ Steady /\ overrun' = overrun
    BY DEF ProjectionNext, Rest, Steady
  <1>3. \/ TupleFor("Projection", 1) /\ Returns(Found(Projected(reply.tuple)))
        \/ EndFor("Projection", 1) /\ Returns(AtEnd)
    BY DEF ProjectionNext
  <1>4. calls # <<>> /\ Frame.side = 1 /\ plan[k].op = "Projection"
    BY <1>1, <1>3, Guards
  <1>5. \E ans : Returns(ans) /\ (ans = AtEnd \/ reply # AtEnd)
    BY <1>1, <1>3, Guards
  <1>6. SoundFor(again)'
    BY <1>1, <1>2, <1>4, <1>5, PassesKeeps
  <1>7. QED
    BY <1>2, <1>6

(* A selection passes a tuple on or asks its input again. *)
LEMMA SelectKeeps ==
    ASSUME NEW again, NEW ended, Sound(again, ended), SelectNext
    PROVE  SoundFor(again)' /\ overrun' = overrun
  <1>1. PICK k : k = K
    OBVIOUS
  <1>2. UNCHANGED st /\ Steady /\ overrun' = overrun
    BY DEF SelectNext, Rest, Steady
  <1>3. \/ TupleFor("Select", 1) /\ (Returns(reply) \/ AsksAgain)
        \/ EndFor("Select", 1) /\ Returns(AtEnd)
    BY DEF SelectNext
  <1>4. calls # <<>> /\ Frame.side = 1 /\ plan[k].op = "Select"
    BY <1>1, <1>3, Guards
  <1>5. \/ \E ans : Returns(ans) /\ (ans = AtEnd \/ reply # AtEnd)
        \/ AsksAgain /\ reply # AtEnd
    BY <1>1, <1>3, Guards
  <1>6. SoundFor(again)'
    BY <1>1, <1>2, <1>4, <1>5, PassesKeeps
  <1>7. QED
    BY <1>2, <1>6

(* UnionAll passes on every tuple of either input. *)
LEMMA UnionAllTupleKeeps ==
    ASSUME NEW again, NEW ended, Sound(again, ended), UnionAllTuple
    PROVE  SoundFor(again)' /\ overrun' = overrun
  <1>1. PICK k : k = K
    OBVIOUS
  <1>2. UNCHANGED st /\ Steady /\ overrun' = overrun /\ Returns(reply)
    BY DEF UnionAllTuple, Rest, Steady
  <1>3. TupleFor("UnionAll", 1) \/ TupleFor("UnionAll", 2)
    BY DEF UnionAllTuple
  <1>4. calls # <<>> /\ Frame.side # 0 /\ plan[k].op = "UnionAll" /\ reply # AtEnd
    BY <1>1, <1>3, Guards
  <1>5. \E ans : Returns(ans) /\ (ans = AtEnd \/ reply # AtEnd)
    BY <1>2, <1>4
  <1>6. SoundFor(again)'
    BY <1>1, <1>2, <1>4, <1>5, PassesKeeps DEF TwoSided
  <1>7. QED
    BY <1>2, <1>6

(* A join probes with a tuple of its right input; its next call begins with the left one. *)
LEMMA JoinProbeKeeps ==
    ASSUME NEW again, NEW ended, Sound(again, ended), JoinProbe
    PROVE  SoundFor(again)' /\ overrun' = overrun
  <1>1. PICK k : k = K
    OBVIOUS
  <1>2. UNCHANGED st /\ Steady /\ overrun' = overrun
    BY DEF JoinProbe, Rest, Steady
  <1>3. \/ TupleFor("HashJoin", 2) /\ (AsksAgain \/ \E ans : Returns(ans))
        \/ EndFor("HashJoin", 2) /\ Returns(AtEnd)
    BY DEF JoinProbe
  <1>4. calls # <<>> /\ Frame.side = 2 /\ plan[k].op = "HashJoin"
    BY <1>1, <1>3, Guards
  <1>5. \/ \E ans : Returns(ans) /\ (ans = AtEnd \/ reply # AtEnd)
        \/ AsksAgain /\ reply # AtEnd
    BY <1>1, <1>3, Guards
  <1>6. SoundFor(again)'
    BY <1>1, <1>2, <1>4, <1>5, PassesKeeps
  <1>7. QED
    BY <1>2, <1>6

(* The object that runs has the members of a constructed one. *)
LEMMA SelfIs ==
    ASSUME NEW again, NEW ended, Sound(again, ended), calls # <<>>, NEW k, k = K
    PROVE  /\ Self = st[k] /\ DOMAIN Self = {"seen", "offset", "rows", "ht"}
           /\ GoodMembers(Self, plan[k].op) /\ InsideMap(Self, plan[k].op)
           /\ st = [st EXCEPT ![k] = Self] /\ plan[k] = Object
           /\ \A mem : Becomes(mem) => st' = [st EXCEPT ![k] = mem]
  <1>1. GoodMembers(st[k], plan[k].op) /\ InsideMap(st[k], plan[k].op) /\ st = [st EXCEPT ![k] = st[k]]
    BY TopAsks
  <1>2. QED
    BY <1>1 DEF GoodMembers, Self, Becomes, Object

(* A source asks nothing. *)
LEMMA SourceKeeps ==
    ASSUME NEW again, NEW ended, Sound(again, ended), SourceNext
    PROVE  SoundFor(again)' /\ overrun' = overrun
  <1>1. PICK k : k = K
    OBVIOUS
  <1>2. Steady /\ overrun' = overrun /\ Asked("Source") /\ \E ans : Returns(ans)
    BY DEF SourceNext, Rest, Steady
  <1>3. calls # <<>> /\ plan[k].op = "Source"
    BY <1>1, <1>2, Guards
  <1>4. Self = st[k] /\ DOMAIN Self = {"seen", "offset", "rows", "ht"}
    BY <1>1, <1>3, SelfIs
  <1>5. PICK mem : Becomes(mem) /\ DOMAIN mem = DOMAIN Self /\ mem.seen = Self.seen
    <2>1. \E n : Becomes([Self EXCEPT !.offset = n])
      BY DEF SourceNext
    <2>2. QED
      BY <1>4, <2>1
  <1>6. st' = [st EXCEPT ![k] = mem]
    BY <1>1, <1>3, <1>5, SelfIs
  <1>7. GoodMembers(mem, plan[k].op) /\ InsideMap(mem, plan[k].op)
    BY <1>3, <1>4, <1>5, PlainMembers
  <1>8. PICK ans : Returns(ans)
    BY <1>2
  <1>9. SoundFor(again)'
    BY <1>1, <1>2, <1>3, <1>4, <1>5, <1>6, <1>7, <1>8, Answers
  <1>10. QED
    BY <1>2, <1>9

(* Sort answers from what it has sorted. *)
LEMMA SortAnswersKeeps ==
    ASSUME NEW again, NEW ended, Sound(again, ended), calls # <<>>, NEW k, k = K, plan[k].op = "Sort",
           NEW rows, SortAnswers(rows), Steady
    PROVE  SoundFor(again)'
  <1>1. Self = st[k] /\ DOMAIN Self = {"seen", "offset", "rows", "ht"} /\ Self.offset \in Nat
    BY SelfIs DEF GoodMembers
  <1>2. CASE Returns(AtEnd) /\ Becomes([Self EXCEPT !.rows = rows])
    <2>1. PICK mem : mem = [Self EXCEPT !.rows = rows]
      OBVIOUS
    <2>2. DOMAIN mem = DOMAIN Self /\ mem.seen = Self.seen /\ mem.offset = Self.offset
      BY <1>1, <2>1
    <2>3. st' = [st EXCEPT ![k] = mem]
      BY <1>2, <2>1, SelfIs
    <2>4. GoodMembers(mem, plan[k].op) /\ InsideMap(mem, plan[k].op)
      BY <1>1, <2>2 DEF GoodMembers, InsideMap
    <2>5. QED
      BY <1>1, <1>2, <2>2, <2>3, <2>4, Answers
  <1>3. CASE (\E ans : Returns(ans)) /\ Becomes([Self EXCEPT !.rows = rows, !.offset = @ + 1])
    <2>1. PICK mem : mem = [Self EXCEPT !.rows = rows, !.offset = @ + 1]
      OBVIOUS
    <2>2. DOMAIN mem = DOMAIN Self /\ mem.seen = Self.seen /\ mem.offset = Self.offset + 1
      BY <1>1, <2>1
    <2>3. st' = [st EXCEPT ![k] = mem]
      BY <1>3, <2>1, SelfIs
    <2>4. GoodMembers(mem, plan[k].op) /\ InsideMap(mem, plan[k].op) /\ mem.offset # 0
      BY <1>1, <2>2 DEF GoodMembers, InsideMap
    <2>5. PICK ans : Returns(ans)
      BY <1>3
    <2>6. QED
      BY <1>1, <2>2, <2>3, <2>4, <2>5, Answers
  <1>4. QED
    BY <1>2, <1>3 DEF SortAnswers

(* Sort reads its input to the end, and then answers from what it has sorted. *)
LEMMA SortKeeps ==
    ASSUME NEW again, NEW ended, Sound(again, ended), SortNext
    PROVE  SoundFor(again)' /\ overrun' = overrun
  <1>1. PICK k : k = K
    OBVIOUS
  <1>2. Steady /\ overrun' = overrun
    BY DEF SortNext, Rest, Steady
  <1>3. CASE TupleFor("Sort", 1) /\ Becomes([Self EXCEPT !.rows = Append(@, reply.tuple)]) /\ AsksAgain
    <2>1. calls # <<>> /\ reply # AtEnd /\ Frame.side # 0 /\ plan[k].op = "Sort"
      BY <1>1, <1>3, Guards
    <2>2. Self = st[k] /\ DOMAIN Self = {"seen", "offset", "rows", "ht"} /\ Self.offset \in Nat
      BY <1>1, <2>1, SelfIs DEF GoodMembers
    <2>3. PICK mem : mem = [Self EXCEPT !.rows = Append(@, reply.tuple)]
      OBVIOUS
    <2>4. DOMAIN mem = DOMAIN Self /\ mem.seen = Self.seen /\ mem.offset = Self.offset
      BY <2>2, <2>3
    <2>5. st' = [st EXCEPT ![k] = mem]
      BY <1>1, <1>3, <2>1, <2>3, SelfIs
    <2>6. GoodMembers(mem, plan[k].op) /\ InsideMap(mem, plan[k].op)
      BY <2>1, <2>2, <2>4 DEF GoodMembers, InsideMap
    <2>7. SoundFor(again)'
      BY <1>1, <1>2, <1>3, <2>1, <2>2, <2>4, <2>5, <2>6, AsksAgainKeeps
    <2>8. QED
      BY <1>2, <2>7
  <1>4. CASE (EndFor("Sort", 1) \/ Asked("Sort")) /\ \E rows : SortAnswers(rows)
    <2>1. calls # <<>> /\ plan[k].op = "Sort"
      BY <1>1, <1>4, Guards
    <2>2. SoundFor(again)'
      BY <1>1, <1>2, <1>4, <2>1, SortAnswersKeeps
    <2>3. QED
      BY <1>2, <2>2
  <1>5. QED
    BY <1>3, <1>4 DEF SortNext

(* A join stores its left input and then turns to the right one. *)
LEMMA JoinBuildKeeps ==
    ASSUME NEW again, NEW ended, Sound(again, ended), JoinBuild
    PROVE  SoundFor(again)' /\ overrun' = overrun
  <1>1. PICK k : k = K
    OBVIOUS
  <1>2. Steady /\ overrun' = overrun
    BY DEF JoinBuild, Rest, Steady
  <1>3. CASE TupleFor("HashJoin", 1) /\ Becomes([Self EXCEPT !.rows = Append(@, reply.tuple)]) /\ AsksAgain
    <2>1. calls # <<>> /\ reply # AtEnd /\ Frame.side # 0 /\ plan[k].op = "HashJoin"
      BY <1>1, <1>3, Guards
    <2>2. Self = st[k] /\ DOMAIN Self = {"seen", "offset", "rows", "ht"}
      BY <1>1, <2>1, SelfIs
    <2>3. PICK mem : mem = [Self EXCEPT !.rows = Append(@, reply.tuple)]
      OBVIOUS
    <2>4. DOMAIN mem = DOMAIN Self /\ mem.seen = Self.seen
      BY <2>2, <2>3
    <2>5. st' = [st EXCEPT ![k] = mem]
      BY <1>1, <1>3, <2>1, <2>3, SelfIs
    <2>6. GoodMembers(mem, plan[k].op) /\ InsideMap(mem, plan[k].op)
      BY <2>1, <2>2, <2>4, PlainMembers
    <2>7. SoundFor(again)'
      BY <1>1, <1>2, <1>3, <2>1, <2>2, <2>4, <2>5, <2>6, AsksAgainKeeps
    <2>8. QED
      BY <1>2, <2>7
  <1>4. CASE EndFor("HashJoin", 1) /\ Turns(2) /\ UNCHANGED st
    <2>1. calls # <<>> /\ reply = AtEnd /\ Frame.side = 1 /\ plan[k].op = "HashJoin"
      BY <1>1, <1>4, Guards
    <2>2. PICK mem : mem = st[k]
      OBVIOUS
    <2>3. GoodMembers(mem, plan[k].op) /\ InsideMap(mem, plan[k].op) /\ st' = [st EXCEPT ![k] = mem]
          /\ DOMAIN plan[k].in = InputsOf(plan[k].op)
      BY <1>1, <1>4, <2>1, <2>2, TopAsks
    <2>4. 2 \in DOMAIN plan[k].in
      BY <2>1, <2>3, InputsKnown
    <2>5. SoundFor(again)'
      BY <1>1, <1>2, <1>4, <2>1, <2>2, <2>3, <2>4, TurnsKeeps DEF TwoSided
    <2>6. QED
      BY <1>2, <2>5
  <1>5. QED
    BY <1>3, <1>4 DEF JoinBuild

(* An operator that only counts, and asks the same input again or passes the tuple on. *)
LEMMA CountsKeeps ==
    ASSUME NEW again, NEW ended, Sound(again, ended), calls # <<>>, NEW k, k = K, Steady,
           reply # AtEnd, Frame.side # 0,
           plan[k].op \in {"Except", "ExceptAll"} \cup TwoSided,
           NEW ht, Becomes([Self EXCEPT !.ht = ht]),
           \/ AsksAgain
           \/ plan[k].op \in TwoSided /\ \E ans : Returns(ans)
    PROVE  SoundFor(again)'
  <1>1. Self = st[k] /\ DOMAIN Self = {"seen", "offset", "rows", "ht"}
    BY SelfIs
  <1>2. PICK mem : mem = [Self EXCEPT !.ht = ht]
    OBVIOUS
  <1>3. DOMAIN mem = DOMAIN Self /\ mem.seen = Self.seen
    BY <1>1, <1>2
  <1>4. st' = [st EXCEPT ![k] = mem]
    BY <1>2, SelfIs
  <1>5. GoodMembers(mem, plan[k].op) /\ InsideMap(mem, plan[k].op)
    BY <1>1, <1>3, PlainMembers DEF TwoSided
  <1>6. CASE AsksAgain
    BY <1>1, <1>3, <1>4, <1>5, <1>6, AsksAgainKeeps
  <1>7. CASE plan[k].op \in TwoSided /\ \E ans : Returns(ans)
    <2>1. PICK ans : Returns(ans)
      BY <1>7
    <2>2. QED
      BY <1>1, <1>3, <1>4, <1>5, <1>7, <2>1, Answers
  <1>8. QED
    BY <1>6, <1>7

(* Union passes on a tuple it has not seen, and asks the same input again otherwise. *)
LEMMA UnionTupleKeeps ==
    ASSUME NEW again, NEW ended, Sound(again, ended), UnionTuple
    PROVE  SoundFor(again)' /\ overrun' = overrun
  <1>1. PICK k : k = K
    OBVIOUS
  <1>2. Steady /\ overrun' = overrun /\ (TupleFor("Union", 1) \/ TupleFor("Union", 2))
    BY DEF UnionTuple, Rest, Steady
  <1>3. calls # <<>> /\ reply # AtEnd /\ Frame.side # 0 /\ plan[k].op \in TwoSided
    BY <1>1, <1>2, Guards DEF TwoSided
  <1>4. \E ht : Becomes([Self EXCEPT !.ht = ht])
    BY DEF UnionTuple
  <1>5. AsksAgain \/ \E ans : Returns(ans)
    BY DEF UnionTuple
  <1>6. SoundFor(again)'
    BY <1>1, <1>2, <1>3, <1>4, <1>5, CountsKeeps
  <1>7. QED
    BY <1>2, <1>6

(* A tuple of the left input is counted. *)
LEMMA CountLeftKeeps ==
    ASSUME NEW again, NEW ended, Sound(again, ended),
           NEW ops \in SUBSET {"Intersect", "IntersectAll", "Except", "ExceptAll"}, CountLeft(ops)
    PROVE  SoundFor(again)' /\ overrun' = overrun
  <1>1. PICK k : k = K
    OBVIOUS
  <1>2. Steady /\ overrun' = overrun /\ (\E op \in ops : TupleFor(op, 1)) /\ AsksAgain
    BY DEF CountLeft, Rest, Steady
  <1>3. calls # <<>> /\ reply # AtEnd /\ Frame.side # 0 /\ plan[k].op \in ops
    BY <1>1, <1>2, Guards
  <1>4. plan[k].op \in {"Except", "ExceptAll"} \cup TwoSided
    BY <1>3 DEF TwoSided
  <1>5. \E ht : Becomes([Self EXCEPT !.ht = ht])
    BY DEF CountLeft
  <1>6. SoundFor(again)'
    BY <1>1, <1>2, <1>3, <1>4, <1>5, CountsKeeps
  <1>7. QED
    BY <1>2, <1>6

(* Intersect probes with a tuple of its right input. *)
LEMMA IntersectProbeKeeps ==
    ASSUME NEW again, NEW ended, Sound(again, ended), IntersectProbe
    PROVE  SoundFor(again)' /\ overrun' = overrun
  <1>1. PICK k : k = K
    OBVIOUS
  <1>2. Steady /\ overrun' = overrun /\ (TupleFor("Intersect", 2) \/ TupleFor("IntersectAll", 2))
    BY DEF IntersectProbe, Rest, Steady
  <1>3. calls # <<>> /\ reply # AtEnd /\ Frame.side # 0 /\ plan[k].op \in TwoSided
    BY <1>1, <1>2, Guards DEF TwoSided
  <1>4. \E ht : Becomes([Self EXCEPT !.ht = ht])
    BY DEF IntersectProbe
  <1>5. AsksAgain \/ \E ans : Returns(ans)
    BY DEF IntersectProbe
  <1>6. SoundFor(again)'
    BY <1>1, <1>2, <1>3, <1>4, <1>5, CountsKeeps
  <1>7. QED
    BY <1>2, <1>6

(* Except takes a tuple of its right input out of its counters. *)
LEMMA ExceptProbeKeeps ==
    ASSUME NEW again, NEW ended, Sound(again, ended), ExceptProbe
    PROVE  SoundFor(again)' /\ overrun' = overrun
  <1>1. PICK k : k = K
    OBVIOUS
  <1>2. Steady /\ overrun' = overrun /\ (TupleFor("Except", 2) \/ TupleFor("ExceptAll", 2)) /\ AsksAgain
    BY DEF ExceptProbe, Rest, Steady
  <1>3. calls # <<>> /\ reply # AtEnd /\ Frame.side # 0 /\ plan[k].op \in {"Except", "ExceptAll"}
    BY <1>1, <1>2, Guards
  <1>4. \E ht : Becomes([Self EXCEPT !.ht = ht])
    BY DEF ExceptProbe
  <1>5. SoundFor(again)'
    BY <1>1, <1>2, <1>3, <1>4, CountsKeeps
  <1>6. QED
    BY <1>2, <1>5

(* The left input ends and the right one follows, or the right one ends as well. *)
LEMMA InputEndsKeeps ==
    ASSUME NEW again, NEW ended, Sound(again, ended), InputEnds
    PROVE  SoundFor(again)' /\ overrun' = overrun
  <1>1. PICK k : k = K
    OBVIOUS
  <1>2. Steady /\ overrun' = overrun
    BY DEF InputEnds, Rest, Steady
  <1>3. CASE \E op \in TwoSided : RightFollows(op)
    <2>1. (\E op \in TwoSided : EndFor(op, 1)) /\ Turns(2) /\ Becomes([Self EXCEPT !.seen = TRUE])
      BY <1>3 DEF RightFollows
    <2>2. calls # <<>> /\ reply = AtEnd /\ Frame.side = 1 /\ plan[k].op \in TwoSided
      BY <1>1, <2>1, Guards
    <2>3. Self = st[k] /\ DOMAIN Self = {"seen", "offset", "rows", "ht"}
      BY <1>1, <2>2, SelfIs
    <2>4. PICK mem : mem = [Self EXCEPT !.seen = TRUE]
      OBVIOUS
    <2>5. DOMAIN mem = DOMAIN Self /\ mem.seen = TRUE
      BY <2>3, <2>4
    <2>6. st' = [st EXCEPT ![k] = mem]
      BY <1>1, <2>1, <2>2, <2>4, SelfIs
    <2>7. GoodMembers(mem, plan[k].op) /\ InsideMap(mem, plan[k].op)
      BY <2>2, <2>3, <2>5, PlainMembers DEF TwoSided
    <2>8. DOMAIN plan[k].in = InputsOf(plan[k].op)
      BY <1>1, <2>2, TopAsks
    <2>9. 2 \in DOMAIN plan[k].in
      BY <2>2, <2>8, InputsKnown DEF TwoSided
    <2>10. SoundFor(again)'
      BY <1>1, <1>2, <2>1, <2>2, <2>3, <2>5, <2>6, <2>7, <2>9, TurnsKeeps
    <2>11. QED
      BY <1>2, <2>10
  <1>4. CASE (\E op \in TwoSided : EndFor(op, 2)) /\ Returns(AtEnd) /\ UNCHANGED st
    <2>1. calls # <<>> /\ reply = AtEnd /\ Frame.side = 2 /\ plan[k].op \in TwoSided
      BY <1>1, <1>4, Guards
    <2>2. SoundFor(again)'
      BY <1>1, <1>2, <1>4, <2>1, PassesKeeps
    <2>3. QED
      BY <1>2, <2>2
  <1>5. QED
    BY <1>3, <1>4 DEF InputEnds, TwoSided

(* Except has counted, and answers from where its iterator is. *)
LEMMA ExceptAnswersKeeps ==
    ASSUME NEW again, NEW ended, Sound(again, ended), calls # <<>>, NEW k, k = K, Steady,
           plan[k].op \in {"Except", "ExceptAll"}, NEW walk, NEW from, ExceptAnswers(walk, from)
    PROVE  SoundFor(again)'
  <1>1. Self = st[k] /\ DOMAIN Self = {"seen", "offset", "rows", "ht"}
    BY SelfIs
  <1>2. PICK ans, mem : Returns(ans) /\ Becomes(mem) /\ DOMAIN mem = DOMAIN Self /\ mem.seen = TRUE
    <2> DEFINE rest == {i \in from..Len(walk) : BagIn(walk[i], Self.ht)}
               ends == [Self EXCEPT !.seen = TRUE, !.rows = walk, !.offset = Len(walk) + 1]
               gives == [Self EXCEPT !.seen = TRUE, !.rows = walk, !.offset = Min(rest),
                                     !.ht = @ (-) SetToBag({walk[Min(rest)]})]
    <2>1. \/ Returns(AtEnd) /\ Becomes(ends)
          \/ Returns(Found(walk[Min(rest)])) /\ Becomes(gives)
      BY DEF ExceptAnswers
    <2>2. DOMAIN ends = DOMAIN Self /\ ends.seen = TRUE
      BY <1>1
    <2>3. DOMAIN gives = DOMAIN Self /\ gives.seen = TRUE
      BY <1>1
    <2> HIDE DEF ends, gives
    <2>4. QED
      BY <2>1, <2>2, <2>3
  <1>3. st' = [st EXCEPT ![k] = mem]
    BY <1>2, SelfIs
  <1>4. GoodMembers(mem, plan[k].op) /\ InsideMap(mem, plan[k].op)
    BY <1>1, <1>2, PlainMembers
  <1>5. QED
    BY <1>2, <1>3, <1>4, Answers

(* Except turns to its right input, and answers once that has ended. *)
LEMMA ExceptKeeps ==
    ASSUME NEW again, NEW ended, Sound(again, ended), ExceptNext
    PROVE  SoundFor(again)' /\ overrun' = overrun
  <1>1. PICK k : k = K
    OBVIOUS
  <1>2. Steady /\ overrun' = overrun
    BY DEF ExceptNext, Rest, Steady
  <1>3. CASE (EndFor("Except", 1) \/ EndFor("ExceptAll", 1)) /\ Turns(2) /\ UNCHANGED st
    <2>1. calls # <<>> /\ reply = AtEnd /\ Frame.side = 1 /\ plan[k].op \in {"Except", "ExceptAll"}
      BY <1>1, <1>3, Guards
    <2>2. PICK mem : mem = st[k]
      OBVIOUS
    <2>3. GoodMembers(mem, plan[k].op) /\ InsideMap(mem, plan[k].op) /\ st' = [st EXCEPT ![k] = mem]
          /\ DOMAIN plan[k].in = InputsOf(plan[k].op)
      BY <1>1, <1>3, <2>1, <2>2, TopAsks
    <2>4. 2 \in DOMAIN plan[k].in
      BY <2>1, <2>3, InputsKnown
    <2>5. SoundFor(again)'
      BY <1>1, <1>2, <1>3, <2>1, <2>2, <2>3, <2>4, TurnsKeeps DEF TwoSided
    <2>6. QED
      BY <1>2, <2>5
  <1>4. CASE \E op \in {"Except", "ExceptAll"} :
                (EndFor(op, 2) \/ Asked(op)) /\ \E walk, from : ExceptAnswers(walk, from)
    <2>1. calls # <<>> /\ plan[k].op \in {"Except", "ExceptAll"}
      BY <1>1, <1>4, Guards
    <2>2. SoundFor(again)'
      BY <1>1, <1>2, <1>4, <2>1, ExceptAnswersKeeps
    <2>3. QED
      BY <1>2, <2>2
  <1>5. QED
    BY <1>3, <1>4 DEF ExceptNext

(* The walk over a map visits its keys, of which there are finitely many. *)
LEMMA WalkLength ==
    ASSUME NEW keys, IsFiniteSet(keys), NEW walk \in Walks(keys)
    PROVE  Len(walk) \in Nat
  <1>1. Cardinality(keys) \in Nat
    BY FS_CardinalityType
  <1>2. PICK n \in Nat : n = Cardinality(keys)
    BY <1>1
  <1>3. walk \in [1..n -> keys]
    BY <1>2 DEF Walks
  <1>4. QED
    BY <1>2, <1>3

(* HashAggregation answers from place i of its map, or that there is none. *)
LEMMA AggregationAnswersKeeps ==
    ASSUME NEW again, NEW ended, Sound(again, ended), calls # <<>>, NEW k, k = K, Steady,
           plan[k].op = "HashAggregation", NEW walk, Len(walk) \in Nat, NEW i \in Nat,
           AggregationAnswers(walk, i)
    PROVE  SoundFor(again)'
  <1>1. Self = st[k] /\ DOMAIN Self = {"seen", "offset", "rows", "ht"} /\ IsFiniteSet(DOMAIN Self.ht)
    BY SelfIs DEF GoodMembers
  <1>2. PICK mem : mem = [Self EXCEPT !.seen = TRUE, !.rows = walk, !.offset = i]
    OBVIOUS
  <1>3. /\ DOMAIN mem = DOMAIN Self /\ mem.seen = TRUE /\ mem.rows = walk /\ mem.offset = i
        /\ mem.ht = Self.ht
    BY <1>1, <1>2
  <1>4. st' = [st EXCEPT ![k] = mem]
    BY <1>2, SelfIs DEF AggregationAnswers
  <1>5. GoodMembers(mem, plan[k].op)
    BY <1>1, <1>3 DEF GoodMembers
  <1>6. CASE i <= Len(walk)
    <2>1. PICK ans : Returns(ans)
      BY DEF AggregationAnswers
    <2>2. InsideMap(mem, plan[k].op)
      BY <1>3, <1>6 DEF InsideMap
    <2>3. QED
      BY <1>3, <1>4, <1>5, <2>1, <2>2, Answers
  <1>7. CASE ~(i <= Len(walk))
    <2>1. PICK ans : ans = AtEnd /\ Returns(ans)
      BY <1>7 DEF AggregationAnswers
    <2>2. PICK s : s = FirstInput(k)'
      OBVIOUS
    <2>3. QED
      BY <1>4, <1>5, <2>1, <2>2, ReturnKeeps
  <1>8. QED
    BY <1>6, <1>7

(* HashAggregation reads its input to the end and walks its map, never past the end of it. *)
LEMMA AggregationKeeps ==
    ASSUME NEW again, NEW ended, Sound(again, ended), AggregationNext
    PROVE  SoundFor(again)' /\ (~overrun => ~overrun')
  <1>1. PICK k : k = K
    OBVIOUS
  <1>2. Steady
    BY DEF AggregationNext, Steady
  <1>3. CASE TupleFor("HashAggregation", 1) /\ AsksAgain /\ UNCHANGED overrun
             /\ Becomes([Self EXCEPT !.ht = Aggregated(@, Object.group, Object.funcs, reply.tuple)])
    <2>1. calls # <<>> /\ reply # AtEnd /\ Frame.side # 0 /\ plan[k].op = "HashAggregation"
      BY <1>1, <1>3, Guards
    <2>2. /\ Self = st[k] /\ DOMAIN Self = {"seen", "offset", "rows", "ht"}
          /\ Self.offset \in Nat /\ IsFiniteSet(DOMAIN Self.ht) /\ Len(Self.rows) \in Nat
          /\ Self.offset <= Len(Self.rows)
      BY <1>1, <2>1, SelfIs DEF GoodMembers, InsideMap
    <2>3. PICK ht : ht = Aggregated(Self.ht, Object.group, Object.funcs, reply.tuple)
      OBVIOUS
    <2>4. IsFiniteSet(DOMAIN ht)
      <3>1. DOMAIN ht = DOMAIN Self.ht \cup {Attributes(reply.tuple, Object.group)}
        BY <2>3 DEF Aggregated
      <3>2. QED
        BY <2>2, <3>1, FS_AddElement
    <2>5. PICK mem : mem = [Self EXCEPT !.ht = ht]
      OBVIOUS
    <2>6. /\ DOMAIN mem = DOMAIN Self /\ mem.seen = Self.seen /\ mem.offset = Self.offset
          /\ mem.rows = Self.rows /\ mem.ht = ht
      BY <2>2, <2>5
    <2>7. st' = [st EXCEPT ![k] = mem]
      BY <1>1, <1>3, <2>1, <2>3, <2>5, SelfIs
    <2>8. GoodMembers(mem, plan[k].op) /\ InsideMap(mem, plan[k].op)
      BY <2>2, <2>4, <2>6 DEF GoodMembers, InsideMap
    <2>9. SoundFor(again)'
      BY <1>1, <1>2, <1>3, <2>1, <2>2, <2>6, <2>7, <2>8, AsksAgainKeeps
    <2>10. QED
      BY <1>3, <2>9
  <1>4. CASE EndFor("HashAggregation", 1) /\ UNCHANGED overrun
             /\ \E walk \in Walks(DOMAIN Self.ht) : AggregationAnswers(walk, 1)
    <2>1. calls # <<>> /\ plan[k].op = "HashAggregation"
      BY <1>1, <1>4, Guards
    <2>2. PICK walk \in Walks(DOMAIN Self.ht) : AggregationAnswers(walk, 1)
      BY <1>4
    <2>3. IsFiniteSet(DOMAIN Self.ht)
      BY <1>1, <2>1, SelfIs DEF GoodMembers
    <2>4. PICK keys : keys = DOMAIN Self.ht
      OBVIOUS
    <2>5. Len(walk) \in Nat
      BY <2>2, <2>3, <2>4, WalkLength
    <2>6. SoundFor(again)'
      BY <1>1, <1>2, <2>1, <2>2, <2>5, AggregationAnswersKeeps
    <2>7. QED
      BY <1>4, <2>6
  <1>5. CASE Asked("HashAggregation")
             /\ AggregationAnswers(Self.rows, Min({Self.offset, Len(Self.rows)}) + 1)
             /\ overrun' = (overrun \/ Self.offset > Len(Self.rows))
    <2>1. calls # <<>> /\ plan[k].op = "HashAggregation"
      BY <1>1, <1>5, Guards
    <2>2. /\ Self.offset \in Nat /\ Len(Self.rows) \in Nat /\ Self.offset <= Len(Self.rows)
      BY <1>1, <2>1, SelfIs DEF GoodMembers, InsideMap
    <2>3. PICK rows : rows = Self.rows
      OBVIOUS
    <2>4. PICK o : o = Self.offset
      OBVIOUS
    <2>5. Min({o, Len(rows)}) = o
      BY <2>2, <2>3, <2>4 DEF Min
    <2>6. PICK i \in Nat : i = o + 1
      BY <2>2, <2>4
    <2>7. AggregationAnswers(rows, i)
      BY <1>5, <2>3, <2>4, <2>5, <2>6
    <2>8. SoundFor(again)'
      BY <1>1, <1>2, <2>1, <2>2, <2>3, <2>7, AggregationAnswersKeeps
    <2>9. ~(Self.offset > Len(Self.rows))
      BY <2>2
    <2>10. overrun' = (overrun \/ Self.offset > Len(Self.rows))
      BY <1>5
    <2>11. QED
      BY <2>8, <2>9, <2>10
  <1>6. QED
    BY <1>3, <1>4, <1>5 DEF AggregationNext

(* A plan that has just been built satisfies the invariant: nothing has ended. *)
LEMMA InitSound ==
    ASSUME AggregationsReadOnce, Init
    PROVE  IInv
  <1>1. /\ plan \in Plans /\ driver = "new" /\ st = [k \in DOMAIN plan |-> Fresh]
        /\ calls = <<>> /\ reply = Pending /\ overrun = FALSE
    BY DEF Init
  <1>2. IsTree(plan)
    BY <1>1 DEF AggregationsReadOnce
  <1>3. PICK again \in SUBSET DOMAIN plan :
            AskedAgain(plan, again) /\ \A k \in again : plan[k].op # "HashAggregation"
    BY <1>1 DEF AggregationsReadOnce
  <1>4. DOMAIN calls = {} /\ calls \in Seq([node : DOMAIN plan, side : 0..2])
    BY <1>1
  <1>5. Stack
    BY <1>1, <1>4 DEF Stack
  <1>6. IsFiniteSet(DOMAIN Fresh.ht)
    <2>1. DOMAIN EmptyBag = {}
      BY DEF EmptyBag, SetToBag
    <2>2. QED
      BY <2>1, FS_EmptySet DEF Fresh
  <1>7. ASSUME NEW k \in DOMAIN plan
        PROVE  GoodMembers(st[k], plan[k].op) /\ InsideMap(st[k], plan[k].op)
    <2>1. /\ DOMAIN Fresh = {"seen", "offset", "rows", "ht"} /\ Fresh.offset = 0 /\ Fresh.rows = <<>>
      BY DEF Fresh
    <2>2. Len(<<>>) = 0
      OBVIOUS
    <2>3. st[k] = Fresh
      BY <1>1
    <2>4. QED
      BY <1>6, <2>1, <2>2, <2>3 DEF GoodMembers, InsideMap
  <1>8. AskedOnce(again, {})
    BY <1>1, <1>4, <1>7 DEF AskedOnce, MayAsk
  <1>9. Sound(again, {})
    BY <1>1, <1>2, <1>3, <1>5, <1>7, <1>8 DEF Sound
  <1>10. {} \in SUBSET DOMAIN plan
    OBVIOUS
  <1>11. QED
    BY <1>1, <1>3, <1>9, <1>10 DEF IInv

(* Every step of a plan that is not closed keeps it sound, or closes it. *)
LEMMA NextKeeps ==
    ASSUME NEW again \in SUBSET DOMAIN plan, NEW ended \in SUBSET DOMAIN plan, Sound(again, ended),
           ~overrun, Next
    PROVE  IInv'
  <1>1. CASE Close
    BY <1>1, CloseKeeps DEF IInv
  <1>2. ASSUME SoundFor(again)', ~overrun', plan' = plan PROVE IInv'
    BY <1>2 DEF SoundFor, IInv
  <1>3. CASE ~Close
    <2>1. plan' = plan
      BY <1>3 DEF Next, Open, CallNext, TakeAnswer, Pull, SourceNext, PrintNext, ProjectionNext,
            SelectNext, SortNext, JoinBuild, JoinProbe, AggregationNext, UnionTuple, UnionAllTuple,
            InputEnds, IntersectBuild, IntersectAllBuild, IntersectProbe, ExceptBuild, ExceptAllBuild,
            CountLeft, ExceptProbe, ExceptNext, Rest
    <2>2. SoundFor(again)' /\ ~overrun'
      <3>1. CASE Open \/ CallNext \/ TakeAnswer \/ Pull
        BY <3>1, OpenKeeps, CallNextKeeps, TakeAnswerKeeps, PullKeeps
      <3>2. CASE SourceNext \/ PrintNext \/ ProjectionNext \/ SelectNext \/ SortNext
        BY <3>2, SourceKeeps, PrintKeeps, ProjectionKeeps, SelectKeeps, SortKeeps
      <3>3. CASE JoinBuild \/ JoinProbe \/ AggregationNext
        BY <3>3, JoinBuildKeeps, JoinProbeKeeps, AggregationKeeps
      <3>4. CASE UnionTuple \/ UnionAllTuple \/ InputEnds
        BY <3>4, UnionTupleKeeps, UnionAllTupleKeeps, InputEndsKeeps
      <3>5. CASE IntersectBuild \/ IntersectAllBuild \/ ExceptBuild \/ ExceptAllBuild
        <4>1. PICK ops \in SUBSET {"Intersect", "IntersectAll", "Except", "ExceptAll"} : CountLeft(ops)
          BY <3>5 DEF IntersectBuild, IntersectAllBuild, ExceptBuild, ExceptAllBuild
        <4>2. QED
          BY <4>1, CountLeftKeeps
      <3>6. CASE IntersectProbe \/ ExceptProbe \/ ExceptNext
        BY <3>6, IntersectProbeKeeps, ExceptProbeKeeps, ExceptKeeps
      <3>7. QED
        BY <1>3, <3>1, <3>2, <3>3, <3>4, <3>5, <3>6 DEF Next
    <2>3. QED
      BY <1>2, <2>1, <2>2
  <1>4. QED
    BY <1>1, <1>3

(* The invariant does not look at anything that a stuttering step changes. *)
LEMMA StutterKeeps ==
    ASSUME IInv, UNCHANGED vars
    PROVE  IInv'
  <1>1. UNCHANGED <<plan, source, driver, st, calls, reply, emitted, overrun>>
    BY DEF vars
  <1>2. Stack' = Stack /\ Waiting' = Waiting
    BY <1>1 DEF Stack, GoodCall, Waiting, Frame, K
  <1>3. \A k : (FirstInput(k)' = FirstInput(k)) /\ (Running(k)' <=> Running(k))
    BY <1>1 DEF FirstInput, Running
  <1>4. ASSUME NEW again, NEW ended, Sound(again, ended) PROVE Sound(again, ended)'
    <2>1. AskedOnce(again, ended)'
      BY <1>1, <1>2, <1>3, <1>4 DEF Sound, AskedOnce, MayAsk
    <2>2. QED
      BY <1>1, <1>2, <1>4, <2>1 DEF Sound
  <1>5. QED
    BY <1>1, <1>4 DEF IInv

(***************************************************************************)
(* The invariant: every object that has answered false is not asked again. *)
(***************************************************************************)
THEOREM Invariant == AggregationsReadOnce => (Spec => []IInv)
  <1>1. AggregationsReadOnce /\ Init => IInv
    BY InitSound
  <1>2. IInv /\ [Next]_vars => IInv'
    <2> SUFFICES ASSUME IInv, [Next]_vars PROVE IInv'
      OBVIOUS
    <2>1. CASE UNCHANGED vars
      BY <2>1, StutterKeeps
    <2>2. CASE driver = "closed" /\ calls = <<>> /\ reply = Pending
      <3>1. UNCHANGED vars
        BY <2>2, ClosedStays
      <3>2. QED
        BY <3>1, StutterKeeps
    <2>3. CASE Next /\ \E again, ended \in SUBSET DOMAIN plan : Sound(again, ended)
      BY <2>3, NextKeeps DEF IInv
    <2>4. QED
      BY <2>1, <2>2, <2>3 DEF IInv
  <1>3. QED
    BY <1>1, <1>2, PTL DEF Spec

(***************************************************************************)
(* Nobody asks a HashAggregation again that has answered false, whatever   *)
(* the plan, as long as no HashJoin builds from one (algebra.cc:410).      *)
(***************************************************************************)
THEOREM NoIteratorOverrunHolds == AggregationsReadOnce => (Spec => []NoIteratorOverrun)
  <1>1. IInv => NoIteratorOverrun
    BY DEF IInv, NoIteratorOverrun
  <1>2. QED
    BY <1>1, Invariant, PTL
==============================================================================
