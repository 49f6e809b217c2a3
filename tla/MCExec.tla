-------------------------------- MODULE MCExec -------------------------------
(***************************************************************************)
(* An instance of Exec: four pages of eight cells, the upper two the stack.*)
(* The executables: no headers; text, and data with .bss on a page each; a *)
(* header that is not loaded before a segment that starts inside a page    *)
(* and ends in the next; two segments that share a page; one that reaches  *)
(* into the stack; more headers, and more of a segment, than a buffer of   *)
(* kmalloc holds.  The arguments: none, an odd and an even number, some    *)
(* that fill the stack, some that need more, more pointers than a buffer.  *)
(***************************************************************************)
EXTENDS Exec

Segment(va, filesz, memsz) ==
    [type |-> "PT_LOAD", vaddr |-> va, filesz |-> filesz, memsz |-> memsz]
Note == [type |-> "PT_NOTE", vaddr |-> 0, filesz |-> 3, memsz |-> 3]

MCExe == {<<>>,
          <<Segment(0, 6, 6), Segment(8, 3, 8)>>,
          <<Note, Segment(5, 4, 9)>>,
          <<Segment(0, 0, 4)>>,
          <<Segment(0, 4, 4), Segment(6, 3, 8)>>,
          <<Segment(8, 5, 12)>>,
          <<Note, Note, Note, Segment(0, 1, 1)>>,
          <<Segment(0, 7, 8)>>}
MCArgv == {<<>>, <<1>>, <<2, 3>>, <<1, 1, 1>>, <<5, 2, 1>>, <<3, 1, 2, 2>>, <<5, 5>>, <<9, 7>>}

=============================================================================
