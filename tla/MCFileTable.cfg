\* file_table: open files over a file and the UART, which works on by itself.
CONSTANTS
    Char = {a, b}
    a = a
    b = b
    DEPTH = 2
    Buf <- MCBuf
    File = {f}
    Dir = {root}
    Dev = {uart0}
    Root = root
    Obj = {o1, o2}
    Fd = {0, 1}
    Null = Null
    MaxLen = 2
    Word = {1}
    Length = {1, 2}
SPECIFICATION Spec
INVARIANTS TypeOK RefsExact BytesInOrder
PROPERTIES OffsetFollowsTransfer CallReturns
