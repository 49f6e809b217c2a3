\* kernel: heap, process numbers, kexec, page tables and block driver.
SPECIFICATION KernelSpec
CONSTANTS
    small = small
    big = big
    tiny = tiny
    NPAGE = 4
    Cache <- Classes
    PerSlab <- Objects
    Exact <- Filling
    MaxEmpty = 1

    p1 = p1
    p2 = p2
    p3 = p3
    Proc = {p1, p2, p3}
    MAXPID = 9
    RESERVEDPID = 3

    PGSIZE = 8
    PTR = 2
    PHSIZE = 2
    ALIGN = 4
    STACKTOP = 32
    Exe <- MCExe
    Argv <- MCArgv

    K = 3
    NFRAME = 14
    KernelVa <- MCKernelVa
    KERNBASE = 24
    Space = {r1, r2}
    r1 = r1
    r2 = r2
    UserVa = {0, 1, 9, 23}

    zero = zero
    one = one
    NBLK = 2
    SPB = 2
    W = 3
    Data <- TwoData
INVARIANTS
    SlabTypeOK PagesInPlace ObjectsAccounted
    PidTypeOK UniquePids BitmapExact NumberLeft
    ExecTypeOK ProgramReady NothingKept
    VmTypeOK PagesAccounted KernelMapped
    VirtioTypeOK DeviceQuietUnlessPolling
PROPERTIES
    OnlyMappedPagesChange
    BlockTransferred
    CallReturns
