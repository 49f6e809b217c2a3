SPECIFICATION MetaSpec
CONSTANTS
    NINO = 3
    NBLK = 3
    BS = 4
    a = a
    bb = bb
    Name = {a, bb}
    Dot = Dot
    DotDot = DotDot
    Needed <- MCNeeded
    Path <- MCPath
    MaxRef = 2
    First = 1
    End = 9
    PerGroup = 3
    NGroup = 3
    DescPerBlock = 2
    Reserved <- Metadata
INVARIANTS
    TypeOK EntriesTile LinksCovered InodesConsistent
    AllocTypeOK RecordsAgree
PROPERTIES
    CallsChangeOneName
    FirstFit
