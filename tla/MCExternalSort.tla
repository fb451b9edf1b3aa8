--------------------------- MODULE MCExternalSort ---------------------------
(* Inputs for ExternalSort: all short ones over two values, and long ones. *)
EXTENDS ExternalSort

CONSTANTS
    ShortLength, \* the inputs of up to this length are complete
    LongLengths  \* the lengths of the others

(* Four long inputs of each length: descending, alternating, two scattered. *)
LongInputs ==
    UNION {{[i \in 1..k |-> k + 1 - i],
            [i \in 1..k |-> 1 + (i % 2)],
            [i \in 1..k |-> 1 + ((i * 7) % 11)],
            [i \in 1..k |-> 1 + ((i * i * 5) % 13)]} : k \in LongLengths}

MCValues == 1..Max(LongLengths)

MCInputs == UNION {[1..k -> {1, 2}] : k \in 0..ShortLength} \cup LongInputs
==============================================================================
