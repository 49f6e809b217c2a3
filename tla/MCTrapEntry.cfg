\* trap_entry: the first trap of a process.
CONSTANTS
    DEPTH = 3
    Cause = {"UserEnvCall", "IllegalInstruction"}
SPECIFICATION Spec
INVARIANT OnKernelStack
CHECK_DEADLOCK FALSE
