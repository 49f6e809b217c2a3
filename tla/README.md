# cuteCore: a verification project

cuteCore is a small RISC-V kernel in C: paging, a slab heap, a virtio block driver, a write-back block
cache, an ext2 file system with a VFS layer, and the beginnings of processes. This directory holds TLA+
models of its parts, the TLC instances that check them, and proofs checked by TLAPS.

`PROJECT.json` lists, in machine-readable form, the components, runs, mutants, the source lines every
definition stands for, the findings, the hazards and the theorems.

    tlc -workers 2 -config MCBlkCache.cfg MCBlkCache     # one run: the module and a .cfg
    tlapm BlkCacheProofs.tla                             # one set of proofs

## 1. The system

### Parts, state and operations

| part | source | state | operations |
|---|---|---|---|
| page allocator | `mm/kalloc.c` | free list threaded through the free pages | `kalloc`, `kfree` |
| slab heap | `mm/slab.c`, `mm/kmalloc.c` | per class three lists of slabs and a count of empty ones; links inside the pages | `cache_alloc`, `cache_free`, `cache_shrink`, `kmalloc`, `kmfree` |
| virtual memory | `mm/vm.c` | Sv39 tables; `kvmroot` | `kvmmake`, `walk`, `vmmap`, `uvmcreate`, `uvmmapkernel`, `uvmalloc`, `uvmunmap`, `uvmfree`, `copyout` |
| virtio driver | `driver/virtio_mmio.c` | the rings, `disk_io`, `last_used`; the device | `blkinit`, `blkread`, `blkwrite` |
| block cache | `block/blk_cache.c` | 64 slots: number, valid, dirty, refcnt, data | `bread`, `bwrite`, `brelse`, `bsync` |
| ext2 allocators | `fs/ext2/balloc.c`, `ialloc.c` | bitmaps, `gb_table`, its copy on disk, superblock counts | `ext2_alloc_block/inode`, `ext2_free_block/inode` |
| ext2 file contents | `fs/ext2/inode.c`, `dir.c` | `i_block`, size and dirty flag of an inode; index blocks | `ext2_read_block`, `ext2_write_block`, `ext2_file_read/write`, `ext2_write_inode`, `ext2_truncate_inode` |
| names and inode cache | `fs/vfs.c`, `fs/ext2/dir.c`, `inode.c` | directory blocks, inode table, cached inodes and their references | `ext2_lookup`, `ext2_create`, `ext2_mkdir`, `ext2_unlink`, `ext2_iget`, `iput`, `namei`, `nameiparent` |
| ext2 mount | `fs/ext2/super.c` | superblock buffer (pinned for ever), `fs` | `ext2_fs_init` |
| file table | `fs/file.c` | open files and their references | `filealloc`, `filedup`, `fileclose`, `fileread`, `filewrite` |
| process numbers | `kernel/task/proc.c` | `pid_bitmap`, `last_pid` | `allocpid`, `freepid` |
| processes, exec | `kernel/task/proc.c`, `syscall/proccall.c` | `struct proc` | `allocproc`, `freeproc`, `mapproc`, `kexec` |
| traps, switch | `kernel/trapvec.S`, `swtch.S`, `trap/trap.c` | registers, `sscratch` | trap entry, `usertrap`, `trapret`, `swtch` |
| scheduler | `kernel/task/scheduler.c` | ready list | `scheduler` |
| system calls | `kernel/syscall/*.c` | none | dispatch, `sys_read`, `sys_write` |
| UART | `driver/uart.c` | the device's registers and FIFO | `uartinit`, `uart_putc`, `uart_read`, `uart_write` |
| boot, console, string library | the rest | none of interest | initialisation, output |

### How they interact

Calls go down a stack: system calls → files → ext2 → allocators and block cache → virtio driver → device;
the heap and the page tables both draw on `kalloc`. There is one hart. The boot path never enables
interrupts, so **kernel calls do not overlap each other**, and that is why most models let a call be one
step. Concurrency remains in two places: a device (the disk, the UART) works while its driver polls, and
power can be lost between any two transfers. What makes the rest hard is that calls *nest*: a caller holds references to
cached blocks and inodes while it makes further calls that may evict, free or reuse others; and that most
calls can run out of something (slots, pages, blocks, inode numbers) half way.

`panic` switches the machine off. `main` runs the initialisations and then shuts down: no process runs in
this commit, nothing puts one on the ready list and nothing calls `ext2_create`, `ext2_mkdir`,
`ext2_unlink`, `uvmalloc` or `bsync`'s caller `scheduler`. The models of these parts are of the functions
as written, called in every order their interface allows.

### What makes each part correct

* heap: no page or object is lost or has two owners; the lists agree with the slabs' counters.
* page tables: a page has one use; the kernel's mappings stay; a failed call leaves no trace.
* driver: a call returns only when its whole block has been moved; driver and device never touch the
  request at the same time; an interrupted write leaves a prefix.
* block cache: it is invisible, except that what was not written back is gone after a power loss, and that a
  store nobody announced with `bwrite` may be forgotten.
* allocators: bitmap and the three copies of the counts agree; the lowest free unit is handed out.
* file contents: a file is an array of words with holes of zeros; every block has one owner.
* names: an inode has at least as many links as names and is freed with the last; a free inode is not in
  use; a failed call changes no name. (The freeing and the failed call are refuted, section 3.)
* process numbers: unique, never lost, never exhausted.
* files: an object lives for its descriptors, an inode for its objects; an offset moves by what was moved.
* UART: every character is sent once, in order; reading takes what is there and does not wait.
* exec: when it returns 0 the program and its arguments are in place; when it returns, nothing is kept.
* traps: a frame goes to the kernel stack of the process, and the way back restores it.

The behaviours that are hard to test in this code are listed line by line in `PROJECT.json` under
`hazards`, each with the properties that would catch it, or a note on why none does yet.

## 2. The modules

A helper that changes several fields takes the state as a record (`FS`, `Mem`, `Heap`) and returns the new
one; `Becomes` assigns it. A definition named `X_MutSomething` is a mistaken variant of `X`, of the kind a
slip in the code would be; nothing uses it, and substituting it for `X` shows that a property can fail.

| module | models | notes |
|---|---|---|
| `BlockStore` | what `include/fs.h` promises of the block layer | abstract: a current and a durable value per block, references |
| `BlkCache` | `block/blk_cache.c`, its callers, the clearing of .bss | one step per block transferred, so that power can be lost in between |
| `BlkCacheProofs` | | proofs for every number of slots, blocks and references |
| `VirtioBlk` | `driver/virtio_mmio.c` and the device | one step per statement that the device can tell apart |
| `Slab` | `mm/kalloc.c`, `slab.c`, `kmalloc.c` | the words inside the pages, one step per call; where a write behind a page destroys a word in use, the model stops (`overrun`) until the next boot |
| `PageTable` | `mm/vm.c`, `mapproc`, the mappings of `kexec` | three-level tables of K entries |
| `Ext2Alloc` | `balloc.c` and `ialloc.c`, which differ in parameters only | one step per call |
| `FileStore` | what `ext2_file_read` and `ext2_file_write` promise | abstract: an array of words per file; what a write reports is part of the file |
| `Ext2File` | block map, file read and write, truncate, inode write-back | one step per call |
| `Ext2Dir` | directories, inode cache, path resolution | one step per call; `kmalloc` may fail in `ext2_iget` |
| `Uart` | `driver/uart.c` and the device | one step per access to a register |
| `FileTable` | `fs/file.c`, `filecall.c`, and `iput`, `readi`, `writei` of `vfs.c` | over `FileStore` and `Uart`; one step per call, except that calls of the UART go on register by register |
| `Exec` | `kexec`, `setup_argv`, `copyout` | one step per stage of `kexec` and of each buffer it takes; every allocation may fail; what does not fit into a buffer ends in `overrun` |
| `TrapVec` | `trapvec.S`, `trap.c` | one step per swap of stack pointers |
| `Pid` | `allocpid` and its return in `freeproc` | |
| `ProcProofs` | | proofs about `Pid` and `Exec`, for every number of processes and numbers, every executable and argument vector |
| `VirtioBlkProofs` | | proofs for every device, block size and width of the ring indices |
| `SlabProofs` | | proofs for every number of pages, classes and kept empty slabs |
| `PageTableProofs` | | proofs for every number of pages, table size, and kernel map |
| `Ext2MetaProofs` | | proofs about `Ext2Alloc`, for every geometry of groups and table blocks, and about `Ext2Dir`, for every number of inodes and blocks, length of a block and set of names |
| `Ext2FileProofs` | | proofs for every number of blocks, files, direct slots and words in a block |
| `FileTableProofs` | | proofs about `FileTable` and `Uart`, for every pool, FIFO and buffer |
| `MCBlkCache`, `MCExt2File`, `MCFileTable`, `MCPageTable`, `MCExec`, `MCExt2Dir`, `MCTrapVec` | | instances for TLC of the module of that name |
| `MCKernel` | | `Slab`, `Pid`, `Exec`, `PageTable` and `VirtioBlk` side by side |
| `MCExt2Meta` | | `Ext2Dir` and `Ext2Alloc` side by side |

The components of `MCKernel` share no state, and one of them moves only while the others are as at boot: the
states are the sum of theirs, not the product, and each is explored as far as on its own. The same holds for
`MCExt2Meta`. That is why the operators of these modules carry the component in names such as `SlabNext`,
`VmTypeOK` or `virtioVars`.

The layers are composed by abstraction rather than by one big module: `BlkCache` implements `BlockStore`,
whose `view` is a plain array of blocks, and `Ext2File` and `Ext2Dir` keep their blocks in such an array;
`Ext2Alloc` implements a set of numbers whose lowest is handed out (`FirstFit`, and the theorem
`AllocatorsImplementSet`), and `Ext2File` and `Ext2Dir` allocate so; `Ext2File` implements `FileStore`, which
in turn is what `FileTable` uses as its files, next to `Uart` as its device, both but for a write that ends
early behind the end, which leaves the size (section 3). `Exec` takes from `PageTable` that
user mappings are common to all processes and that `freeproc` does not come back.

### Correspondence with the code

* **BlkCache.** `blkNo`, `valid`, `dirty`, `refcnt`, `data` are the fields of `blk_caches[]`; `handle` the
  pointers callers hold, `want` the block each was obtained for. Callers store, call `bwrite` and release in
  any order: most do the three in this order, but `ext2_mkdir` stores into the block of its new inode and,
  on a full device, releases it without `bwrite` (dir.c:694-705). `announced` remembers what `bwrite` last
  announced of a block and what went to the device with it since; only what was announced is promised to
  last. `BreadHit`, `BreadMiss` and `BreadPanic` are the three ways through `bread`; `Evict` and `Fill` its
  two transfers; `BsyncSlot` one iteration of `bsync`. `Crash` and `TornCrash` lose power at any step, the
  second within a transfer, whose eight sectors `Torn` mixes; `Boot` is entry.S, which clears .bss.
* **VirtioBlk.** `stmt` is the place in `virtio_blk_submit`: `Fill` builds the request and samples
  `last_used`, `Post` moves `avail.idx`, `Poll` waits, `Check` looks at the status and goes on with the
  next sector. The device is external: it may take a request as soon as the index has moved, and may fail
  it. Ring indices count modulo W.
* **Slab.** `word[p]` is the first word of page p whatever the page is used for (free-list link,
  `slab->next`, magic number, data), so that a write to a wrong page is a wrong link and not a type error.
  `Exact` are the classes whose objects fill the page to the last byte, of `kmalloc`'s nine the one of 8
  bytes: there `slabinit` writes the nullptr that ends its chain into the next page. `InUse` says when that
  word mattered to somebody; then `overrun` is set, and the heap is not followed any further.
* **PageTable.** A page that is a table has K entries; `User`, `Kernel` and `Table` are the leaves with
  `PTE_U`, the kernel's leaves and the inner entries. `MapUser` maps a page as `kexec` does for segments and
  stack, `SetSize` is its assignment of `p->sz` at the end. `Uvmfree` is `uvmfree` with its panic.
* **Ext2Alloc.** `gbTable` is `sbi->gb_table`, `gdt` the table blocks in the cache, `sbFree` the superblock.
* **Ext2File.** Blocks hold words, which are data or block numbers and do not say which; `Path` gives the
  slots from the inode to a logical block; `Reload` is `iput` of the last reference followed by `ext2_iget`.
* **Ext2Dir.** `entries[b]` is the chain that `rec_len` makes of a block; `raw` the inode table, `mem` the
  cached inodes, `ref` their counts. `last` is the last call with its result, nullptr being 0, and `last.oom`
  tells whether `ext2_iget` found no memory in it, which the caller cannot see.
* **Uart.** `setup` are the writes `uartinit` has still to do, `todo` what `uart_write` has still to store,
  `got` what `uart_read` has found. `Receive` and `Transmit` are the device. `due` and `arrived` remember
  what was given to the driver and to the device.
* **FileTable.** `file[o]` are the fields of an object of `file_cache`, `ftable` and `count` the list and its
  counter, `iref` and `nlinks` the two numbers `iput` looks at. `Open`, `Dup` and `Close` stand for callers
  the repository does not have yet; they do what the comments of `filealloc`, `filedup` and `fileclose`
  expect. `Polling` lets a call to the UART go on.
* **Exec.** `pc` is the stage of `kexec`; `mem` and `mapped` user memory, whose cells say where they come
  from (a byte of a segment, of an argument, part of a pointer); `iref` and `heap` what `kexec` has to give
  back: the inode, the header table, the buffer of a segment, the array of `setup_argv`. `Fails` frees what
  buffers there are and calls `freeproc`, from which nothing returns; `Stops` is a panic or an overrun.
* **TrapVec.** `sp` and `sscratch` are a stack and a depth; `regs` the other registers together.
* **Pid.** `Candidate(i)` is the number the loop of `allocpid` tries in its i-th round.

## 3. What the runs check

`pass` runs explore their whole state space. For every property of each there is a mutant in
`PROJECT.json` that breaks it.

| run | instance | shows |
|---|---|---|
| `blk_cache` | 2 slots, 3 blocks, 3 references | coherence, exact reference counts, nothing announced is lost, `bsync` makes it durable, refinement of `BlockStore`; all with power loss at every step and stores, `bwrite` and `brelse` in any order |
| `ext2_file` | 2 files, 5 blocks, blocks of 2 words, 1 direct slot | refinement of `FileStore`, also across eviction of the inode, up to writes that end early behind the end; one owner per block |
| `ext2_meta` | directories: 3 inodes, 3 blocks, 2 names; allocators: 8 units in groups of 3 | chains tile their blocks, at least as many links as names, nothing in use is free, cached inodes agree with the table, a call changes its own name only; bitmap, counts and copies agree, first fit |
| `file_table` | 2 objects, 2 descriptors, a file, a directory, a UART with a FIFO of 2, with fairness | exact references of objects and inodes, offsets follow transfers, characters in order, calls return |
| `kernel`, heap | 4 pages, classes of 2, of 1 and of 2 objects, the last fills its pages exactly | pages and objects accounted for, lists linked and in agreement |
| `kernel`, numbers | 3 processes, 9 numbers, 1 to 3 reserved | unique, none lost, search succeeds |
| `kernel`, exec | 4 pages of 8 cells, 8 executables, 8 argument vectors | program and arguments in place, nothing kept |
| `kernel`, page tables | 14 pages, 3 entries per table, 2 processes | one use per page, kernel mappings stay, failures leave no trace |
| `kernel`, driver | 2 blocks of 2 sectors, indices modulo 3, with fairness | memory owned by driver or device, whole blocks transferred, interrupted writes are prefixes, every call returns or panics |

The other runs each refute what a comment says; they are listed below, under "Where code and comments
disagree", and use the instances above.

### Bounds, and why they are enough

* `BlkCache`: more blocks than slots forces evictions; more references than slots forces the panic, and two
  references to one block are possible. Contents are two values and a mixture for torn writes.
* `VirtioBlk`: W = 3 wraps both indices within two calls of two requests; block numbers include one behind
  the device. With two sectors there is a first, a last and a prefix.
* `Slab`: four pages are fewer than three classes, large allocations and `kalloc` callers want at once;
  `MaxEmpty` = 1, so a second empty slab is given back. A class of one object covers the 2048-byte class, one
  that is in `Exact` the 8-byte class: the page behind its slab may be free, a slab, large, raw or none.
* `PageTable`: with K = 3 a table boundary lies between pages 2 and 3 and top-level entries 0 and 2 are
  shared, as in the code; 14 pages run out in the middle of `uvmalloc`.
* `Ext2Alloc`: a short last group, table blocks of two descriptors for three groups, and numbers that start
  at 1, as inodes always do and blocks do on a device with blocks of 1 KiB, so that a number and its bit
  differ; metadata in two groups.
* `Ext2File`: one direct slot and two words per block put logical blocks 0, 1–2 and 3–6 into the direct,
  single and double index, with the end of the map at word 14; offsets cross each boundary, one lies behind
  the end, and five blocks are too few for two files.
* `Ext2Dir`: a block of four units overflows with `.`, `..`, and both names; three blocks and three inodes
  run out at different points of `ext2_mkdir`. A call that hands out a reference is made while callers hold
  fewer than `MaxRef` = 2, of whatever inodes: so `ext2_create`, `ext2_mkdir` and `namei` also happen, in
  every directory, while an unlinked or another inode is held.
* `FileTable`: two objects over one inode, two descriptors over one object, and an object over each kind of
  inode are all possible; a file of two words is read and written short; the buffer of two characters is
  longer than THR, and the FIFO fills up while `uart_read` reads.
* `Exec`: alignment 4 and pointers of 2 cells keep the proportions of 16 and 8, with odd and even argument
  counts; the executables have segments that start inside a page, cross a page, share one, have .bss, are not
  loaded, or reach the stack; some arguments need more than the stack. There are more headers, more bytes of a
  segment and more pointers than a buffer of `kmalloc` holds, which is a page less the magic number.
* `TrapVec`: the bound DEPTH on nested traps lies behind the violation, which takes three steps.
* `Pid`: the search wraps and has to pass live numbers; more numbers than processes, as in the code.

### Fairness

`kernel` and `file_table` assume weak fairness, for their `CallReturns`: of the driver, as nothing
preempts it (interrupts are off), and of the device, which eventually serves what it was given; for the UART
that is sending the character in THR. The other components of `kernel` have none. Nothing is assumed about
characters that arrive, so `uartinit`, which empties the FIFO until it finds it empty, is not shown to end.
The code has no timeout, so without the fairness of the device the kernel hangs, in `virtio_blk_submit` as
in `uart_putc`; that is stated as a hazard and not covered. Calls may also never be made: the property
speaks of calls that have started.

### Where code and comments disagree

Each is a run that TLC refutes; the quotations are in `PROJECT.json`.

1. `page_table_free` (`KernelSurvivesFree`): freeing an address space descends into the kernel's table of
   devices and panics.
2. `page_table_share` (`SpacesIndependent`): processes share the tables below top-level entries 0 and 2
   (vm.c:309), so what one maps below 1 GiB, and the user stack, appears in all, where vm.c:10 says that
   address spaces are independent. A second `kexec` at the same address therefore panics with "map: remap".
3. `exec_argv` (`ArgvAligned`): with an even argc the array of pointers and `sp` are 8 modulo 16, as
   `setup_argv` aligns before it subtracts the array (proccall.c:68-72); proccall.c:14-16 says it is aligned.
4. `ext2_write_short` (`WrittenIsInFile`): a write cut short by a full device returns the bytes written
   without updating the size (dir.c:433), where dir.c:385 and 394 say that it extends the file.
5. `ext2_links` (`UnnamedIsFreed`): `ext2_unlink` takes one link from a directory, which has two, and none
   at all when `ext2_iget` has no memory for the victim (dir.c:844), so that an inode stays that no name
   leads to; dir.c:791 says it is freed.
6. `ext2_create_fails` (`FailedCallsCreateNothing`): `ext2_create` and `ext2_mkdir` return `nullptr` after
   the name has been added when their last `ext2_iget` finds no memory (dir.c:651, 781); dir.c:609 and 669
   say that `nullptr` means failure.
7. `trap_entry` (`OnKernelStack`): on the way in from user mode the second swap of `sp` and `sscratch` undoes
   the first, so the frame is stored on the user stack. (Without the second swap the property holds.)

The properties that hold are stated so that they do not depend on these: `OnlyMappedPagesChange` says which
translations may change given the shared tables, `ProgramReady` nothing of the alignment, `ImplementsFileStore`
names the short write as the one step that is no step of `FileStore`, `LinksCovered` bounds links from below,
and `CallsChangeOneName` names the `nullptr` of a call that ran out of memory as the one that leaves a name.

Met while modelling, and not kept as runs. No caller gets there, or nothing reads the result:

* `ext2_free_block` (balloc.c:125) and `ext2_free_inode` check the group, not the number, so a number
  behind the end that falls into the last group would clear a padding bit and raise the counts, where
  balloc.c:109 says it is ignored. Callers free only what they were given.
* `i_blocks` (inode.c:198) counts the slots of `i_block`, not the blocks below index blocks; and
  `ext2_mkdir` writes `bg_used_dirs_count` to offset 2048 of block 0 (dir.c:771), not into the table mount
  reads. Nothing reads either field, and the models leave both out.
* `nameiparent` returns a regular file as the parent directory (vfs.c:150, against vfs.c:193), and
  `ext2_create` and `ext2_unlink` do not look at the type. The model's callers give them directories.

What happens in the models, with no comment that promises otherwise:

* For `kmalloc`'s 8-byte class the objects fill the page exactly, and the word in which `slabinit` ends its
  chain is the first of the *next* page. `setup_argv` asks for that class when there is one argument
  (proccall.c:49). The model takes the class in (`Exact`), and stops, `overrun`, where the word was in use.
* `kmalloc` gives one page for every size above 2048, less a word, so a segment of more than 4088 bytes
  overruns the buffer `kexec` reads it through (proccall.c:205), and more than 511 pointers that of
  `setup_argv`. `Exec` stops there, too.
* `ext2_mkdir` on a full device stores the new inode into its table block and releases it without `bwrite`
  (dir.c:694-705). The number is freed, so nobody reads what is there, and it may or may not survive.
* `RESERVEDPID` itself is lost after the search for a number has wrapped once (proc.c:128); `BitmapExact`
  speaks of the numbers above it.
* `kexec` panics rather than return -1 (proccall.c:115) on every exit behind `allocproc`, because `freeproc`
  does not come back. It also replaces the root `allocproc` has made (proccall.c:132), whose page is lost.
* Arguments of more than two pages run on into a segment that ends at the stack; of the image,
  `ProgramReady` speaks of what lies below `sp`.

Outside the models:

* `forkret` returns from `trapret` without `sret`, and its stack pointer starts at the end of the page whose
  last 280 bytes are the trap frame (proc.c:97, 107), so its own frame overwrites it.
* `sys_read` and `sys_write` take the user's address as a kernel pointer, and a negative length converts to
  a large one (filecall.c:32, 44); the model's lengths are small.

## 4. What is proved

Proofs hold for all values of the constants that satisfy the named assumptions.

**BlkCacheProofs** (assumptions: at least one slot and one block, finitely many references). The inductive
invariant `IInv` joins the checked invariants and `CallInv`, which says what a `bread` or `bsync` that
waits for the device relies on: its victim is unreferenced, no slot holds the block asked for, the victim
is written back before it is overwritten, and `bsync` has left no dirty slot behind it. The checked
invariants alone are not inductive: `Fill` would break `UniqueBlock` and `HandlePinsBlock` without it.
Counting lemmas (`CountAcquire`, `CountRelease`) give `RefcntExact`. `NoWriteLost` says where the contents
are that `bwrite` last announced: on the device, or in a slot that is dirty. It assumes no order of stores,
`bwrite` and `brelse`. From `IInv` follow `TypeCorrect`, `CacheCoherent`, `RefcntCorrect`, `NoLostWriteBack`;
`BreadNeverPanics` by an injection of slots into references; `SyncIsDurable`; and `CacheImplementsStore`, the
refinement of `BlockStore`, where each step is mapped to a step or a stutter: `bwrite` to `Announce`, the
write-back of a dirty slot to `Persist`, `brelse` to `Drop`, and a fill to `Get`, which may forget what
nobody announced of the block it evicts.

**ProcProofs**, numbers (assumptions: 0 < RESERVEDPID < MAXPID, and memory bounds the processes: two pages
each of 128 MiB allow 16384, the numbers are 32467). `PidInv` adds to the checked invariants that the bit of
every live number is set, also of the reserved ones that `BitmapExact` leaves out; without it two processes
could share one of those. `AllocpidSucceeds` combines `CandidatesCover`, the loop comes by every number
above RESERVEDPID, with an injection of numbers into processes.

**ProcProofs**, exec (assumptions: a page is a multiple of the alignment, and that of a pointer; what a linker
writes: a segment has `filesz <= memsz`, and `vaddr + memsz`, a natural number here, does not wrap; arguments
are finite sequences of lengths).
`ExecInv` joins the type invariant, what `kexec` still holds at each stage (`Kept`: the inode, and exactly the
buffers that `Buffers` lists for the stage), how far the image has come (`Progress`) and `ProgramReady`. What
does not fit into a buffer ends in `overrun`, behind which nothing is claimed. Since user mappings are shared by all processes, memory is not clean
when `kexec` begins: `Progress` says that either nothing is mapped yet (`Clean`), or the stack is mapped
already (`Taken`), and then this `kexec` cannot get through, as mapping the stack a second time panics. So
whoever returns 0 began clean, and from there `Image` follows the segments: which bytes came from the file,
that the rest is zero, that segments lie apart and below `max_va`. The places of the argument strings are
a recursive function of the arguments; that it descends, stays on the stack and leaves the strings apart
(`StringsDescend`) is an induction over naturals, done with the least counterexample instead of an
induction theorem. `ExecTypeCorrect`, `ProgramWhole` (`ProgramReady`), `KexecKeepsNothing` (`NothingKept`).

**VirtioBlkProofs** (assumptions: at least one block and one sector per block, ring indices of at least two
values). `IInv` adds to the type invariant where the request is: `IndexInv` ties the three indices to the
phases of driver and device, `Submitted` that the request in memory is the one of the call, `Answered` that
the status byte speaks of it, `Prefix` that the sectors behind the loop counter have been moved. All that is
used of the indices is `Succ(x) # x`, so they may wrap in the middle of a call. It proves `TypeCorrect`,
`SharedMemoryOwned` and `TransferIsWhole`.

**SlabProofs** (assumptions: some pages, at least one object per slab; any classes fill their pages exactly).
The lists exist only as links inside pages, so `IInv` says that there are sequences of pages, the free list and one
per class and kind of slab, which the links spell out (`Arranged`), that a slab is on the list its counter
calls for and on no other (`Homes`), that every page has one owner (`Owned`), that the objects of a slab are
handed out or once on its chain (`Objects`), and that `empty_slabs` is the length of the empty list
(`Empties`). During a call one slab is in flight: `Placed` names it and the list it is still on, or none.
Each list operation is proved to change one sequence and no link of another; `cache_shrink`'s loop, which
removes empty slabs until few enough are left, runs at most once, as the count exceeds the limit by one at
most. Of a class that fills its pages exactly, `slabinit` also writes the first word of the next page: `IInv`
survives that where the page is free of links and marks (no `InUse`), and after an `overrun` says the types
only, as the properties do. `TypeCorrect`, `HeapPagesInPlace`, `HeapObjectsAccounted`.

**PageTableProofs** (assumptions: tables of at least two entries; `KernelAssumption`, the pages suffice for
the boot map, and some page the kernel maps has a top-level index below that of KERNBASE). Tables do not say
what a page is used for, so `IInv` states that there are a level `lev` and a slot `home` for every page such
that every entry names a page of the next level that has this entry as its home, or shares the home in the
kernel's root that a copied top-level entry has (`Shape`); with it two translations that end at one page
come through one slot. The loops of `vmmap` for the boot map and of
`uvmalloc` are recursive functions, followed by the least index at which something could go wrong. The
rollback of a failed `uvmalloc` returns pages that were free when the call began, so no translation from
before names them: that is why `OthersKeepTheirPages` (`OnlyMappedPagesChange`) holds although the lower
tables are shared. It allows a mapping to change the translation of the page it maps, in its own space and,
only where the table is shared with the kernel, in others. Also `TypeCorrect`, `PagesHaveOneUse`, `KernelStays`, and `FreeingPanics`: `uvmfree` of
*any* address space panics, so the finding of `page_table_free` does not depend on its instance.

**Ext2MetaProofs**, allocators (assumptions: the last group is not empty, bit and number differ by 0 or 1,
and unit 0 is reserved where it exists). `AllocIInv` is the type invariant, `RecordsAgree`, that nothing
reserved is handed out (or freeing it would clear the bit of metadata), and that the table blocks hold a
count at every place; `AllocatesLowest` (`FirstFit`) then follows from a scan that takes the first group with
a count above zero and the first clear bit in it. `AllocTypeCorrect`, `RecordsStayInAgreement`,
`AllocatesLowest`, and `AllocatorsImplementSet`: under the mapping `FreeUnits`, bitmaps, groups and counts
implement the plain set of numbers with `Lowest` that `Ext2Dir` (`AllocIno`, `FreeIno`, `AllocBlk`,
`FreeBlks`) has in their place.

**Ext2MetaProofs**, names (assumptions: some inodes, blocks and a block length; every name fits into a
block, `.` and `..` together; paths are finite sequences). The inductive invariant is `VolumeInv`: the state is
a `Volume` and `Good`, which has six parts. A cached inode is as in the table (`Cached`); a free number is
not cached, owes no link and is not named, and the root stays in use (`Unused`); a block in use has one place
and a free one none (`Placed`); the blocks of directories are tiled, the first begins with `.`, and files are
empty (`Arranged`); an inode has at least as many links as entries, and one without references has a link
(`Counted`); and an
inode has at most one ordinary name, as there is no call that links (`OneName`). The checked invariants alone
are not inductive. Without `OneName` it is not known that the name `ext2_unlink` removes is gone; and
without the `.` that every directory keeps, because unlink is called with ordinary names, `iput` could free a
directory whose blocks hold entries.

A call is a composition of functions of the whole volume, and in the middle links and entries do not match:
`ext2_create` writes the count 1 before there is an entry. So `Good` takes a table of *debts*, links an
inode counts and no entry has; `NewFileGood` owes one, `AddGood` pays it, `RemovedGood` takes an entry before
`UnlinkedGood` takes the link, and between calls there is none (`NoDebt`). Entries move when others come and
go in front of them, so links are compared by `View`, which maps places to names, and `Gains`: one place
more, the others moved by an injection. That carries counts, sets of names and `OneName` at once.
`SplitTiled` and `MergeTiled` show that the ends of the entries of a chain, a recursive function, stay where
they were; `Climb`, from the least counterexample, stands for induction. `ReachedGiven` follows a path and shows that what it
finds is in use. From `VolumeInv` follow `DirTypeCorrect`, `DirectoriesTiled` (`EntriesTile`), `NamedIsLinked`
(`LinksCovered`), `InodesStayConsistent` (`InodesConsistent`), and, from `Done`, which every call is shown to
establish, the action property `CallsNameOnlyTheirOwn` (`CallsChangeOneName`): the entries of a directory
change by exactly what the call reports, and a `nullptr` that comes from lack of memory (`last.oom`) has left
one entry, of the name asked for. That links are *exact* is not proved because it is false (`ext2_links`).

**Ext2FileProofs** (assumptions: at least one direct slot and one word per block). The block map is a tree
whose shape does not depend on the disk: a place is a slot of an inode or a slot below one. `IInv` says that
there is a function `a` from places to blocks that inodes and index blocks spell out (`Describes`), that it
is injective and reaches every block in use (`Owned`), and that an inode that is not dirty is on disk as it
is in memory (`Saved`). `OneOwner` alone is not inductive: `Reload` takes the inode from disk, of which it
says nothing, and it counts the slots that name a block without saying at which place of which file it is.
`Arrives` is one level down: it follows a slot or fills it, and leaves the data of every other place alone,
which rests on a new index block being cleared. On it rest `WriteIs` (one block), `ChunkIs` (read, modify,
write back), and `WrittenIs`, the loop of `ext2_file_write` by the least round that goes wrong, including
the round in which the device is full. `TreeIs` shows that `ext2_free_branch` visits exactly the places of a
file. `TypeCorrect`, `BlocksHaveOneOwner`, and `FilesAreArrays`, the refinement of `FileStore`: a read, a
write and a truncation map to their abstract operations, `Reload` to a stutter, and a write that ends early
behind the end to `ShortWrite`, which stores the words and reports them but leaves the size: that one is no
step of `FileStore`, whose `Write` extends the file by all it reports. The attempt to prove it found `FileStore` too strict: it did not allow a write behind the end of the block map to fail without
storing anything. TLC had not seen it, as no offset of the instance lay that far; the specification now
allows it, and the instance has such an offset.

**FileTableProofs** (assumptions: finitely many objects and descriptors, lengths that are positive numbers,
files, directories and devices are different inodes). For the UART the invariant follows `LCR.DLAB` through
the seven register writes of `uartinit`: register 0 is the divisor whenever the driver stores there before
the line is set up, and nothing waits to be stored between two calls. For files it joins exact counts of
objects and inodes with the list `ftable`. `TypeCorrect`, `ReferencesExact`, `UartKeepsOrder`, and the
action property `OffsetsFollow`, which counts what a write reported also where it ended early.

## 5. What is only model-checked, and what is not modelled

Only checked, by TLC on the instances of section 3:

* liveness: `CallReturns` of the driver and of the UART (fairness and ENABLED are beyond the prover);
* `TrapVec`, which is refuted as it stands; what it says behind the frame is unreachable;
* the other refutations, on their instances; only that of `page_table_free` is also a theorem.

Not modelled, with the reasons in `PROJECT.json`: boot, a straight line of initialisations; the build and
the string functions. Partly modelled: traps (`swtch` and interrupts during a system call are left out, as no
source of interrupts is enabled); system calls (no dispatch or fetching of arguments); processes (no
`forkret`); the UART (no formatting of console output, and `uart_getc` has no caller); the scheduler (its
`bsync` only); virtual memory (no TLB); mount (the state it leaves).

Simplifications to keep in mind: stores of the driver reach the device in program order; calls of ext2
are atomic with respect to power loss; `bread` never returns `nullptr` (it panics), so the error paths
behind such a result are unreachable and left out; files are a few words long, so the wrap of the 32-bit
offset at 4 GiB is out of range; names are abstract, so the truncation of `name_len` to 8 bits is too.

## 6. Plan

1. `Ext2Crash`: allocators and names over the durable copy of `BlockStore`: which invariants survive a
   power loss (link counts, names of free inodes) and which do not.
2. `BlockDevice`: an abstract device with block-atomic or torn writes that `VirtioBlk` implements and
   `BlkCache` uses.
