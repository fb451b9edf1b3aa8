\* Four frames, each pinned twice at a time at most.
CONSTANTS
    Frames = {f1, f2, f3, f4}
    NoFrame = NoFrame
    Silent = Silent
    MaxPins = 2
SPECIFICATION Spec
INVARIANTS AssertionsHold MarksAreTrue
PROPERTIES VictimIsOldest ImplementsReplacer
