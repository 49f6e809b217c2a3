SPECIFICATION Spec
CONSTANTS
    NINO = 3
    NBLK = 3
    BS = 4
    a = a
    bb = bb
    Name = {a, bb}
    Dot = Dot
    DotDot = DotDot
    Needed <- MCNeeded
    Path <- MCPath
    MaxRef = 2
INVARIANT UnnamedIsFreed
