\* page_table_free: a process is freed.
CONSTANTS
    K = 3
    NFRAME = 14
    KernelVa <- MCKernelVa
    KERNBASE = 24
    Space = {r1, r2}
    r1 = r1
    r2 = r2
    UserVa = {0, 1, 9, 23}
SPECIFICATION VmSpec
PROPERTY KernelSurvivesFree
