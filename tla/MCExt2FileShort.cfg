\* ext2_write_short: a write for which there is no room any more.
CONSTANTS
    NBLK = 5
    NDIR = 1
    P = 2
    File = {f1, f2}
    f1 = f1
    f2 = f2
    Data = {2}
    Stale = 1
    Offset = {1, 6, 12, 13, 15}
    Length = {2}
SPECIFICATION Spec
PROPERTY WrittenIsInFile
