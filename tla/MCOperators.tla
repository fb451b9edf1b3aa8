----------------------------- MODULE MCOperators -----------------------------
(* Plans of up to three levels in which every operator occurs. *)
EXTENDS Operators

CONSTANTS
    Tuples,   \* the tuples of the sources
    LeftMax,  \* the sources have up to so many of them
    RightMax

Left == [op |-> "Source", in |-> <<>>, rows |-> "left"]
Right == [op |-> "Source", in |-> <<>>, rows |-> "right"]
PrintAt(i) == [op |-> "Print", in |-> <<i>>]
FirstAt(i) == [op |-> "Projection", in |-> <<i>>, attrs |-> <<1>>]
SelectAt(i, cmp, isAttr, right) ==
    [op |-> "Select", in |-> <<i>>, attr |-> 1, cmp |-> cmp, isAttr |-> isAttr, right |-> right]
SortAt(i) == [op |-> "Sort", in |-> <<i>>, criteria |-> <<[attr |-> 2, desc |-> TRUE], [attr |-> 1, desc |-> FALSE]>>]
JoinAt(i, j) == [op |-> "HashJoin", in |-> <<i, j>>, left |-> 1, right |-> 1]
GroupAt(i) == [op |-> "HashAggregation", in |-> <<i>>, group |-> <<1>>,
               funcs |-> <<[func |-> "MIN", attr |-> 2], [func |-> "MAX", attr |-> 2],
                           [func |-> "SUM", attr |-> 2], [func |-> "COUNT", attr |-> 2]>>]
CountAt(i) == [op |-> "HashAggregation", in |-> <<i>>, group |-> <<2>>, funcs |-> <<[func |-> "COUNT", attr |-> 1]>>]
Both(op, i, j) == [op |-> op, in |-> <<i, j>>]

MCPlans ==
    {<<PrintAt(2), SelectAt(3, cmp, FALSE, 1), FirstAt(4), Left>> : cmp \in {"EQ", "NE", "GT", "LE"}}
    \cup {<<SelectAt(2, cmp, TRUE, 2), SortAt(3), Right>> : cmp \in {"LT", "GE"}}
    \cup {<<SortAt(2), Both("UnionAll", 3, 4), Left, Right>>,
          <<JoinAt(2, 3), SortAt(4), Right, Left>>,
          <<PrintAt(2), JoinAt(3, 4), Left, GroupAt(5), Right>>,
          <<SortAt(2), GroupAt(3), Both("UnionAll", 4, 5), Left, Right>>,
          <<Both("Union", 2, 3), CountAt(4), Right, Left>>,
          <<Both("Intersect", 2, 3), Left, CountAt(4), Right>>,
          <<Both("IntersectAll", 2, 3), Left, SelectAt(4, "LE", TRUE, 2), Right>>,
          <<SortAt(2), Both("Except", 3, 4), Left, Right>>,
          <<Both("ExceptAll", 2, 3), Both("UnionAll", 4, 5), Both("Intersect", 6, 7), Left, Right, Left, Right>>}

Rows(max) == UNION {[1..k -> Tuples] : k \in 0..max}

MCLeftRows == Rows(LeftMax)
MCRightRows == Rows(RightMax)

MCTuples == {<<1, 1>>, <<1, 2>>, <<2, 2>>}

(* The plans meet the hypothesis of the theorem about iterators. *)
ASSUME PlansReadOnce == AggregationsReadOnce
==============================================================================
