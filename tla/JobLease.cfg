CONSTANTS
    c1 = c1
    c2 = c2
    c3 = c3
    Copies = {c1, c2, c3}
    Interval = 4
    Early = 1
    Offset = 1
    Holds <- ShortAndLong
    Late = 2
SPECIFICATION Spec
SYMMETRY Symmetry
INVARIANT OneRunner
INVARIANT Timely
PROPERTY OncePerTick
