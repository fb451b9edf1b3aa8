------------------------------- MODULE Replacer ------------------------------
(***************************************************************************)
(* What a replacer promises the buffer pool (class Replacer of             *)
(* task-slotted-pages, replacer.h:25-56): it knows the frames that can be  *)
(* victimized, gives up one of them at a time, and counts them.            *)
(***************************************************************************)
EXTENDS FiniteSets

CONSTANTS
    Frames,   \* the frames of the buffer pool
    NoFrame,  \* Victim has found none
    Silent    \* the answer of a method that returns nothing

VARIABLES
    evictable,  \* the frames that can be victimized
    answer      \* what the last call returned

Init == evictable = {} /\ answer = Silent

Victim ==
    \/ /\ answer' \in evictable
       /\ evictable' = evictable \ {answer'}
    \/ /\ evictable = {}
       /\ answer' = NoFrame
       /\ UNCHANGED evictable

Pin(f) == evictable' = evictable \ {f} /\ answer' = Silent

Unpin(f) == evictable' = evictable \cup {f} /\ answer' = Silent

Size == answer' = Cardinality(evictable) /\ UNCHANGED evictable

Next == Victim \/ Size \/ \E f \in Frames : Pin(f) \/ Unpin(f)

Spec == Init /\ [][Next]_<<evictable, answer>>
==============================================================================
