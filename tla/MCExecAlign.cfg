\* exec_argv: the alignment that the comment on setup_argv promises.
CONSTANTS
    PGSIZE = 8
    PTR = 2
    PHSIZE = 2
    ALIGN = 4
    STACKTOP = 32
    Exe <- MCExe
    Argv <- MCArgv
SPECIFICATION ExecSpec
INVARIANT ArgvAligned
