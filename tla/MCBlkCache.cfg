SPECIFICATION Spec
CONSTANTS
    h1 = h1
    h2 = h2
    h3 = h3
    zero = zero
    one = one
    mixed = mixed
    NSLOT = 2
    NBLK = 3
    Handle <- ThreeHandles
    Data <- AllData
    Zero <- zero
    Torn <- TornMix
SYMMETRY MCSymmetry
INVARIANTS
    TypeOK
    Coherent
    RefcntExact
    NoWriteLost
PROPERTIES
    SyncMakesDurable
    ImplementsBlockStore
