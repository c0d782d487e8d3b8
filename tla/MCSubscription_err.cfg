CONSTANTS
    Callers = {c1, c2}
    MaxFrames = 3
SPECIFICATION Spec
INVARIANTS
    ErrTellsTheEnd
