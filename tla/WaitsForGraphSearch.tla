------------------------- MODULE WaitsForGraphSearch -------------------------
(***************************************************************************)
(* The depth-first search of class WaitsForGraph as it is written, to be   *)
(* compared with the definition that WaitsForGraph gives of its answer.    *)
(***************************************************************************)
EXTENDS WaitsForGraph

(* findDuplicate: visited is the path of the search so far. *)
RECURSIVE Search(_, _, _)
Search(g, n, visited) ==
    \/ n \in visited
    \/ \E m \in g[n] : Search(g, m, visited \cup {n})
==============================================================================
