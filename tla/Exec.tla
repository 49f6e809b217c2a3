-------------------------------- MODULE Exec --------------------------------
(***************************************************************************)
(* kernel/syscall/proccall.c: kexec, which makes a process of an ELF file, *)
(* with setup_argv, and copyout of mm/vm.c.  One step of kexec is an       *)
(* action; a step that needs memory may find none.                         *)
(*                                                                         *)
(* User memory is an array of cells: a cell is a byte, a pointer takes PTR *)
(* cells and a page PGSIZE.  All processes see the same user memory, since *)
(* they share the tables below the kernel's top level (PageTable shows it).*)
(* PageTable also shows that uvmfree never comes back from a table with    *)
(* kernel mappings, and with no table at all it reads address 0, which is  *)
(* not mapped: so kexec ends in freeproc wherever it calls it.             *)
(* kmalloc never hands out more than a page less a word (Slab).  What is   *)
(* read or written past that destroys the memory behind it: the call ends  *)
(* in overrun, and nothing is modelled after it but the next start.        *)
(***************************************************************************)
EXTENDS Integers, Sequences, FiniteSets

CONSTANTS PGSIZE,
          PTR,      \* sizeof(u64)
          PHSIZE,   \* sizeof(struct Elf64_Phdr)
          ALIGN,    \* 16 in the code
          STACKTOP, \* KERNBASE: the user stack ends here
          Exe,      \* the program header tables of executable files
          Argv      \* argument vectors, as the sizes of their strings with the NUL

ASSUME SizesAssumption ==
    /\ PGSIZE \in Nat \ {0} /\ PTR \in Nat \ {0} /\ ALIGN \in Nat \ {0} /\ PHSIZE \in Nat
    /\ STACKTOP \in Nat /\ STACKTOP % PGSIZE = 0 /\ STACKTOP >= 2 * PGSIZE
    /\ PGSIZE % ALIGN = 0 /\ ALIGN % PTR = 0
ASSUME ArgvAssumption == Argv \subseteq Seq(Nat \ {0})
\* Executables come from the linker: what a segment has in the file is no more than it
\* takes in memory.  kexec does not check it.
ASSUME ExeAssumption ==
    /\ Exe \subseteq Seq([type : STRING, vaddr : Nat, filesz : Nat, memsz : Nat])
    /\ \A e \in Exe : \A s \in 1 .. Len(e) :
          e[s].type = "PT_LOAD" => e[s].filesz <= e[s].memsz

Addr == 0 .. (STACKTOP - 1)
VPage == 0 .. ((STACKTOP - 1) \div PGSIZE)
stack_bottom == STACKTOP - 2 * PGSIZE

VARIABLES pc,       \* the step of kexec
          exe, argv,    \* what it was last called with
          i,        \* the program header it has reached
          max_va,
          mapped,   \* the pages that are mapped for users
          mem,      \* user memory
          iref,     \* references to the executable's inode that kexec holds
          heap,     \* the buffers it has from kmalloc
          proc,     \* the fields of p that kexec sets
          ret       \* what the last call returned

execVars == <<pc, exe, argv, i, max_va, mapped, mem, iref, heap, proc, ret>>

Zero == <<"zero", 0, 0>>
Byte(s, k) == <<"file", s, k>>          \* byte k of segment s
Char(a, k) == <<"arg", a, k>>           \* byte k of argument a
Ptr(to, k) == <<"ptr", to, k>>          \* part k of a pointer
NULL == 0
NoProc == [sz |-> 0, brk |-> 0, sp |-> 0, a0 |-> 0, a1 |-> 0]

ExecInit ==
    /\ pc = "idle" /\ exe = <<>> /\ argv = <<>> /\ i = 0 /\ max_va = 0
    /\ mapped = {} /\ mem = [a \in Addr |-> Zero]
    /\ iref = 0 /\ heap = {} /\ proc = NoProc /\ ret = 0

(***************************************************************************)
(* How a call goes on and ends.  (X_Mut... is a mistaken variant of X that *)
(* a mutation run puts in its place.)                                      *)
(***************************************************************************)
memory == <<mapped, mem>>
callVars == <<exe, argv, i, max_va>>

Goto(l) == pc' = l

\* The machine is not heard of again: vmmap panics, or memory is overrun.
Stops(l) ==
    /\ Goto(l)
    /\ UNCHANGED <<callVars, memory, iref, heap, proc, ret>>

\* A failing call gives back buffers and ends in freeproc; its iput comes behind that.
Fails(buffers) ==
    /\ Goto("freeproc")
    /\ heap' = heap \ buffers
    /\ UNCHANGED <<callVars, memory, iref, proc, ret>>

Returns(value) ==
    /\ Goto("idle") /\ ret' = value
    /\ UNCHANGED callVars

\* A buffer of n cells, of whatever size it was asked for, holds them all.
Fits(n) == n <= PGSIZE - PTR

\* The file of path does not exist, or namei reaches a directory and puts it back.
Kexec(e, av) ==
    /\ pc = "idle"
    /\ \/ /\ Goto("allocproc") /\ exe' = e /\ argv' = av /\ i' = 1 /\ max_va' = 0
          /\ iref' = iref + 1
          /\ UNCHANGED ret
       \/ Returns(-1) /\ UNCHANGED iref
    /\ UNCHANGED <<memory, heap, proc>>

\* proc_cache may be empty; the kernel stack and the root table may not be had.
Allocproc_MutKeepsInode ==
    /\ pc = "allocproc"
    /\ \/ Goto("mapproc") /\ UNCHANGED <<callVars, memory, iref, heap, proc, ret>>
       \/ Returns(-1) /\ UNCHANGED <<iref, memory, heap, proc>>
       \/ Fails({})
Allocproc ==
    /\ pc = "allocproc"
    /\ \/ Goto("mapproc") /\ UNCHANGED <<callVars, memory, iref, heap, proc, ret>>
       \/ Returns(-1) /\ iref' = iref - 1 /\ UNCHANGED <<memory, heap, proc>>
       \/ Fails({})

\* A second mapproc takes the place of the root that allocproc has made.
CallMapproc ==
    /\ pc = "mapproc"
    /\ \/ Goto("ehdr") /\ UNCHANGED <<callVars, memory, iref, heap, proc, ret>>
       \/ Fails({})

\* The header, which may be short or of another kind.
ReadHeader ==
    /\ pc = "ehdr"
    /\ \/ Goto("phdr") /\ UNCHANGED <<callVars, memory, iref, heap, proc, ret>>
       \/ Fails({})

\* A buffer for the program headers; kmalloc of no bytes fails.
AllocTable ==
    /\ pc = "phdr"
    /\ \/ /\ exe # <<>>
          /\ Goto("phdr_read") /\ heap' = heap \cup {"phdr_table"}
          /\ UNCHANGED <<callVars, memory, iref, proc, ret>>
       \/ Fails({})

ReadTable ==
    /\ pc = "phdr_read"
    /\ \/ /\ Fits(Len(exe) * PHSIZE)
          /\ Goto("load") /\ UNCHANGED <<callVars, memory, iref, heap, proc, ret>>
       \/ ~Fits(Len(exe) * PHSIZE) /\ Stops("overrun")
       \/ Fails({"phdr_table"})

(***************************************************************************)
(* Mapping zeroed pages, where vmmap panics if there is one already, and   *)
(* copyout, which needs every page to be mapped for users.                 *)
(***************************************************************************)
PageOf(a) == a \div PGSIZE
PagesOf(from, to) == {v \in VPage : v * PGSIZE < to /\ (v + 1) * PGSIZE > from}

Mapped(S) ==
    /\ S \cap mapped = {}
    /\ mapped' = mapped \cup S

Copyable(pages, from, to) == \A a \in from .. (to - 1) : PageOf(a) \in pages

\* One segment: its pages, then the bytes of the file through a heap buffer.
IsLoad(ph) == ph.type = "PT_LOAD" /\ ph.memsz > 0

AlignUp(a, n) == ((a + n - 1) \div n) * n
AlignDown(a, n) == (a \div n) * n

End(ph) == ph.vaddr + ph.memsz
VaEnd_MutUnaligned(ph) == End(ph)
VaEnd(ph) == AlignUp(End(ph), PGSIZE)

SkipSegment ==
    /\ pc = "load" /\ i <= Len(exe)
    /\ ~IsLoad(exe[i])
    /\ i' = i + 1
    /\ UNCHANGED <<pc, exe, argv, max_va, memory, iref, heap, proc, ret>>

\* The pages of a segment, and a buffer for what it has in the file.
MapSegment(ph) ==
    /\ Mapped(PagesOf(ph.vaddr, End(ph)))
    /\ max_va' = IF VaEnd(ph) > max_va THEN VaEnd(ph) ELSE max_va
    /\ \/ /\ ph.filesz > 0
          /\ Goto("segment") /\ heap' = heap \cup {"seg_buf"} /\ UNCHANGED i
       \/ ph.filesz = 0 /\ i' = i + 1 /\ UNCHANGED <<pc, heap>>
    /\ UNCHANGED <<exe, argv, mem, iref, proc, ret>>

LoadSegment ==
    /\ pc = "load" /\ i <= Len(exe)
    /\ IsLoad(exe[i])
    /\ LET ph == exe[i]
       IN  \/ MapSegment(ph)
           \/ /\ PagesOf(ph.vaddr, End(ph)) \cap mapped # {} \/ End(ph) > STACKTOP
              /\ Stops("panic")
           \/ Fails({"phdr_table"})

\* Through the buffer into the process.
CopySegment(ph) ==
    /\ Copyable(mapped, ph.vaddr, ph.vaddr + ph.filesz)
    /\ mem' = [a \in Addr |-> IF a >= ph.vaddr /\ a < ph.vaddr + ph.filesz
                              THEN Byte(i, a - ph.vaddr) ELSE mem[a]]
    /\ heap' = heap \ {"seg_buf"}
    /\ i' = i + 1 /\ Goto("load")
    /\ UNCHANGED <<exe, argv, max_va, mapped, iref, proc, ret>>

ReadSegment_MutKeepsBuffer ==
    /\ pc = "segment"
    /\ \/ Fits(exe[i].filesz) /\ CopySegment(exe[i])
       \/ ~Fits(exe[i].filesz) /\ Stops("overrun")
       \/ Fails({"phdr_table"})
ReadSegment ==
    /\ pc = "segment"
    /\ \/ Fits(exe[i].filesz) /\ CopySegment(exe[i])
       \/ ~Fits(exe[i].filesz) /\ Stops("overrun")
       \/ Fails({"seg_buf", "phdr_table"})

\* The two pages of the stack.
StackPages == PagesOf(stack_bottom, STACKTOP)

Stack ==
    /\ pc = "load" /\ i > Len(exe)
    /\ \/ /\ max_va <= stack_bottom
          /\ Mapped(StackPages)
          /\ Goto("argv")
          /\ UNCHANGED <<callVars, mem, iref, heap, proc, ret>>
       \/ max_va <= stack_bottom /\ StackPages \cap mapped # {} /\ Stops("panic")
       \/ Fails({"phdr_table"})

(***************************************************************************)
(* setup_argv: the strings from the top of the stack down, the last first, *)
(* and below them, from an aligned address, the pointers and a NULL.       *)
(***************************************************************************)
StringAt(av) ==
    LET at[k \in 1 .. (Len(av) + 1)] ==
            IF k = Len(av) + 1 THEN STACKTOP ELSE at[k + 1] - av[k]
    IN  at

ArraySize_MutNoNull(argc) == argc * PTR
ArraySize(argc) == (argc + 1) * PTR

ArgvBase(av) == AlignDown(StringAt(av)[1], ALIGN) - ArraySize(Len(av))

Strings(av, m) ==
    LET at == StringAt(av)
        holds(a, k) == a >= at[k] /\ a < at[k + 1]
    IN  [a \in Addr |-> IF a >= at[1]
                        THEN LET k == CHOOSE n \in 1 .. Len(av) : holds(a, n)
                             IN  Char(k, a - at[k])
                        ELSE m[a]]

Pointers(av, m) ==
    LET base == ArgvBase(av)
        to(k) == IF k <= Len(av) THEN StringAt(av)[k] ELSE NULL
    IN  [a \in Addr |-> IF a >= base /\ a < base + (Len(av) + 1) * PTR
                        THEN Ptr(to((a - base) \div PTR + 1), (a - base) % PTR)
                        ELSE m[a]]

Ready(sp, argc, av) ==
    proc' = [sz |-> max_va, brk |-> max_va, sp |-> sp, a0 |-> argc, a1 |-> av]

Finish ==
    /\ heap' = heap \ {"arg_ptrs", "phdr_table"}
    /\ iref' = iref - 1
    /\ Returns(0)

\* No arguments; or a buffer in which the addresses of the strings are kept.
SetupArgv ==
    /\ pc = "argv"
    /\ \/ /\ argv = <<>>
          /\ Ready(STACKTOP, 0, NULL)
          /\ Finish
          /\ UNCHANGED memory
       \/ /\ argv # <<>>
          /\ Goto("strings") /\ heap' = heap \cup {"arg_ptrs"}
          /\ UNCHANGED <<callVars, memory, iref, proc, ret>>
       \/ argv # <<>> /\ Fails({"phdr_table"})

CopyArgv ==
    /\ Copyable(mapped, ArgvBase(argv), STACKTOP)
    /\ mem' = Pointers(argv, Strings(argv, mem))
    /\ Ready(ArgvBase(argv), Len(argv), ArgvBase(argv))
    /\ Finish
    /\ UNCHANGED mapped

WriteArgv ==
    /\ pc = "strings"
    /\ \/ Fits(Len(argv) * PTR) /\ CopyArgv
       \/ ~Fits(Len(argv) * PTR) /\ Stops("overrun")
       \/ ~Copyable(mapped, ArgvBase(argv), STACKTOP) /\ Fails({"arg_ptrs", "phdr_table"})

\* The machine is started again.
Stopped == {"freeproc", "panic", "overrun"}

ExecBoot ==
    /\ pc \in Stopped /\ Goto("idle")
    /\ mapped' = {} /\ mem' = [a \in Addr |-> Zero]
    /\ iref' = 0 /\ heap' = {} /\ proc' = NoProc /\ ret' = 0
    /\ UNCHANGED callVars

ExecNext ==
    \/ \E e \in Exe, av \in Argv : Kexec(e, av)
    \/ Allocproc \/ CallMapproc \/ ReadHeader \/ AllocTable \/ ReadTable
    \/ SkipSegment \/ LoadSegment \/ ReadSegment
    \/ Stack \/ SetupArgv \/ WriteArgv
    \/ ExecBoot

ExecSpec == ExecInit /\ [][ExecNext]_execVars

-----------------------------------------------------------------------------

Cell == {Zero} \cup {"file", "arg", "ptr"} \X Nat \X Nat

ExecTypeOK ==
    /\ pc \in {"idle", "allocproc", "mapproc", "ehdr", "phdr", "phdr_read", "load", "segment",
              "argv", "strings"} \cup Stopped
    /\ exe \in Exe \cup {<<>>} /\ argv \in Argv \cup {<<>>}
    /\ i \in 0 .. (Len(exe) + 1)
    /\ max_va \in Nat /\ max_va % PGSIZE = 0
    /\ mapped \subseteq VPage /\ mem \in [Addr -> Cell]
    /\ iref \in Nat /\ heap \subseteq {"phdr_table", "seg_buf", "arg_ptrs"}
    /\ proc \in [sz : Nat, brk : Nat, sp : Nat, a0 : Nat, a1 : Nat] /\ ret \in {0, -1}

Loaded == pc = "idle" /\ ret = 0 /\ mapped # {}

(***************************************************************************)
(* When kexec returns 0, main finds its arguments: a0 of them, a pointer   *)
(* to each at a1 and a NULL behind the last, and each points to all of its *)
(* string.  a1 is also the stack pointer, aligned for a pointer.           *)
(***************************************************************************)
PointerAt(a, to) == \A k \in 0 .. (PTR - 1) : mem[a + k] = Ptr(to, k)
StringIs(a, k) == \A n \in 0 .. (argv[k] - 1) : a + n < STACKTOP /\ mem[a + n] = Char(k, n)

ArgvReadable ==
    LET argc == proc.a0
    IN  /\ argc = Len(argv)
        /\ proc.sp % PTR = 0
        /\ IF argc = 0 THEN proc.a1 = NULL /\ proc.sp = STACKTOP
           ELSE /\ proc.a1 = proc.sp
                /\ \A k \in 1 .. argc : \E to \in Addr :
                      PointerAt(proc.a1 + (k - 1) * PTR, to) /\ StringIs(to, k)
                /\ PointerAt(proc.a1 + argc * PTR, NULL)

(***************************************************************************)
(* And it finds its program: every segment is mapped up to its memsz and   *)
(* holds the bytes of the file, zeroes behind them, and so does the stack  *)
(* below the arguments.  (They are not checked against the stack: if they  *)
(* need more than two pages and a segment ends there, they run into it.)   *)
(***************************************************************************)
In(a, ph, n) == IsLoad(ph) /\ a >= ph.vaddr /\ a < ph.vaddr + n

ImageLoaded ==
    /\ \A a \in Addr, s \in 1 .. Len(exe) : In(a, exe[s], exe[s].memsz) => PageOf(a) \in mapped
    /\ \A a \in 0 .. (proc.sp - 1) :
          mem[a] = IF \E s \in 1 .. Len(exe) : In(a, exe[s], exe[s].filesz)
                   THEN LET s == CHOOSE n \in 1 .. Len(exe) : In(a, exe[n], exe[n].filesz)
                        IN  Byte(s, a - exe[s].vaddr)
                   ELSE Zero
    /\ \A s \in 1 .. Len(exe) : IsLoad(exe[s]) => proc.sz >= exe[s].vaddr + exe[s].memsz
    /\ proc.brk = proc.sz /\ proc.sz <= stack_bottom

ProgramReady == Loaded => ArgvReadable /\ ImageLoaded

\* Whichever way kexec returns, it has given back the inode and its buffers; and where
\* it gives up, it has freed every buffer it had, those of setup_argv and of the segment
\* being read included, before it goes into freeproc.
NothingKept ==
    /\ pc = "idle" => iref = 0 /\ heap = {}
    /\ pc = "freeproc" => heap = {}

(***************************************************************************)
(* What the comment on setup_argv says: the array of pointers, where sp    *)
(* and a1 point, is aligned as the RISC-V ABI asks.  (It is not: ALIGNDOWN *)
(* is applied to the end of the array, and its size need not be a multiple *)
(* of 16.)                                                                 *)
(***************************************************************************)
ArgvAligned == Loaded /\ proc.a0 > 0 => proc.a1 % ALIGN = 0

=============================================================================
