------------------------------ MODULE FileTable -----------------------------
(***************************************************************************)
(* fs/file.c: open file objects, shared by descriptors, over inodes, with  *)
(* readi, writei and iput of fs/vfs.c and the calls of filecall.c.         *)
(*                                                                         *)
(* The contents of a file are what FileStore promises, but for a write     *)
(* that ends early, as Ext2File shows; a device is the UART of Uart, whose *)
(* calls go on while it sends and receives.  The other calls do not        *)
(* overlap (one hart, interrupts off), so each is one step.                *)
(* Nothing in the repository opens, duplicates or closes a descriptor yet: *)
(* those three callers are external, and written after the comments of     *)
(* filealloc, filedup and fileclose.                                       *)
(***************************************************************************)
EXTENDS Uart, FiniteSets, SequencesExt

CONSTANTS File, Dir, Dev,   \* inodes of type INODE_FILE, INODE_DIR, INODE_DEV
          Root,     \* fs.root, a directory
          Obj,      \* the objects of file_cache
          Fd,       \* 0 .. NOFILE - 1
          Null,     \* no object
          MaxLen, Word, Length   \* of FileStore; Length is also what uart_read is asked for

Inode == File \cup Dir \cup Dev
ASSUME NullAssumption == Null \notin Obj
ASSUME PoolAssumption == IsFiniteSet(Obj) /\ IsFiniteSet(Fd)
ASSUME LengthAssumption == MaxLen \in Nat /\ Length \subseteq Nat \ {0}
ASSUME InodeAssumption == Root \in Dir /\ File \cap Dir = {} /\ (File \cup Dir) \cap Dev = {}

VARIABLES file,     \* file[o]: the fields of object o, for the objects in use
          ftable,   \* ftable.head, in order
          count,    \* ftable.count
          fdtable,  \* curproc()->fdtable
          iref,     \* iref[i]: ref of the inode in memory, 0 if it is not cached
          nlinks,   \* nlinks[i]
          content, size, last    \* see FileStore

S == INSTANCE FileStore WITH Offset <- 0 .. MaxLen

table == <<file, ftable, count, fdtable>>
names == <<ftable, count, fdtable>>
inodes == <<iref, nlinks>>
store == <<content, size, last>>
vars == <<table, inodes, store, uart>>

Flags == {"O_RDONLY", "O_WRONLY", "O_RDWR"}
FILE_READABLE(f) == f.flags # "O_WRONLY"
FILE_WRITABLE(f) == f.flags # "O_RDONLY"

\* fileinit, and the reference the mount keeps on the root.
Init ==
    /\ UartInit
    /\ file = <<>> /\ ftable = <<>> /\ count = 0
    /\ fdtable = [fd \in Fd |-> Null]
    /\ iref = [i \in Inode |-> IF i = Root THEN 1 ELSE 0]
    /\ nlinks = [i \in Inode |-> 1]
    /\ S!Init

Ready == pc = "idle"

(***************************************************************************)
(* iput of inode i.  An inode without links goes with its contents when it *)
(* is not referred to any more; its number is then free.                   *)
(***************************************************************************)
iput(i) ==
    /\ iref' = [iref EXCEPT ![i] = IF @ = 1 /\ i = Root THEN 1 ELSE @ - 1]
    /\ IF iref[i] = 1 /\ i \in File /\ nlinks[i] = 0
       THEN S!Delete(i) ELSE UNCHANGED store
    /\ UNCHANGED nlinks

(***************************************************************************)
(* filealloc, and what open does with the object: it names the inode namei *)
(* has given it.  (Without an object open fails and gives the inode back.) *)
(***************************************************************************)
filealloc(o, i, flags) ==
    /\ file' = [p \in DOMAIN file \cup {o} |->
                  IF p = o THEN [ref |-> 1, flags |-> flags, offset |-> 0, inode |-> i]
                  ELSE file[p]]
    /\ ftable' = Append(ftable, o)
    /\ count' = count + 1

Open(fd, i, flags) ==
    /\ Ready /\ fdtable[fd] = Null /\ nlinks[i] > 0
    /\ \E o \in Obj \ DOMAIN file :
          filealloc(o, i, flags) /\ fdtable' = [fdtable EXCEPT ![fd] = o]
    /\ iref' = [iref EXCEPT ![i] = @ + 1]
    /\ UNCHANGED <<nlinks, store, uart>>

filedup_MutUncounted(o) == UNCHANGED file
filedup(o) == file' = [file EXCEPT ![o].ref = @ + 1]

Dup(fd, new) ==
    /\ Ready /\ fdtable[fd] # Null /\ fdtable[new] = Null
    /\ filedup(fdtable[fd])
    /\ fdtable' = [fdtable EXCEPT ![new] = fdtable[fd]]
    /\ UNCHANGED <<ftable, count, inodes, store, uart>>

(***************************************************************************)
(* fileclose.  (No object has a release operation: ops is always nullptr.) *)
(***************************************************************************)
Dropped(o) == file' = [file EXCEPT ![o].ref = @ - 1]

\* list_del, kmem_cache_free.
Freed(o) ==
    /\ \E k \in DOMAIN ftable : ftable[k] = o /\ ftable' = RemoveAt(ftable, k)
    /\ count' = count - 1
    /\ file' = Restrict(file, DOMAIN file \ {o})

fileclose(o) ==
    IF file[o].ref > 1
    THEN Dropped(o) /\ UNCHANGED <<ftable, count, inodes, store>>
    ELSE iput(file[o].inode) /\ Freed(o)

Close(fd) ==
    /\ Ready /\ fdtable[fd] # Null
    /\ fileclose(fdtable[fd])
    /\ fdtable' = [fdtable EXCEPT ![fd] = Null]
    /\ UNCHANGED uart

(***************************************************************************)
(* Names come and go by Ext2Dir's calls.  unlink takes a reference while   *)
(* it works, so the inode of a closed file is freed at once.               *)
(***************************************************************************)
Unlink(i) ==
    /\ Ready /\ nlinks[i] = 1
    /\ nlinks' = [nlinks EXCEPT ![i] = 0]
    /\ IF iref[i] = 0 THEN S!Delete(i) ELSE UNCHANGED store
    /\ UNCHANGED <<iref, table, uart>>

Create(i) ==
    /\ Ready /\ nlinks[i] = 0 /\ iref[i] = 0
    /\ nlinks' = [nlinks EXCEPT ![i] = 1]
    /\ UNCHANGED <<iref, table, store, uart>>

(***************************************************************************)
(* sys_read and sys_write of descriptor fd: argfd, then fileread and       *)
(* filewrite, which pass readi and writei a copy of the offset.            *)
(***************************************************************************)
argfd(fd) == fdtable[fd]

Moved(o, n) == file' = [file EXCEPT ![o].offset = @ + n]

Fails ==
    /\ last' = <<-1>>
    /\ UNCHANGED <<content, size, file, uart>>

Advanced_MutTwice(n) == 2 * n
Advanced(n) == n

ReadFile(o, n) ==
    /\ S!Read(file[o].inode, file[o].offset, n)
    /\ Moved(o, Advanced(Len(last')))
    /\ UNCHANGED uart

fileread(o, n) ==
    LET f == file[o]
    IN  IF ~FILE_READABLE(f) \/ f.inode \in Dir THEN Fails
        ELSE IF f.inode \in File THEN ReadFile(o, n)
        ELSE uart_read(n) /\ last' = <<>> /\ UNCHANGED <<file, content, size>>

sys_read(fd, n) ==
    /\ Ready
    /\ IF argfd(fd) = Null THEN Fails ELSE fileread(argfd(fd), n)
    /\ UNCHANGED <<names, inodes>>

\* writei stores k of the words, all of them unless the disk is full: a write that ends
\* early leaves the size.
writei(i, off, ws, k) ==
    \/ k \in {0, Len(ws)} /\ S!Write(i, off, ws, k)
    \/ 0 < k /\ k < Len(ws) /\ last' = <<k>> /\ size' = size /\ S!Stored(i, off, ws, k)

WriteFile(o, n, w, k) ==
    /\ file[o].offset + k <= MaxLen
    /\ writei(file[o].inode, file[o].offset, [j \in 1 .. n |-> w], k)
    /\ Moved(o, k)
    /\ UNCHANGED uart

filewrite(o, n) ==
    LET f == file[o]
    IN  IF ~FILE_WRITABLE(f) \/ f.inode \in Dir THEN Fails
        ELSE IF f.inode \in File THEN \E w \in Word, k \in 0 .. n : WriteFile(o, n, w, k)
        ELSE /\ \E b \in Buf : Len(b) = n /\ uart_write(b)
             /\ last' = <<n>>
             /\ UNCHANGED <<file, content, size>>

sys_write(fd, n) ==
    /\ Ready
    /\ IF argfd(fd) = Null THEN Fails ELSE filewrite(argfd(fd), n)
    /\ UNCHANGED <<names, inodes>>

\* The UART's driver goes on; uart_read returns what it has found.
Polling ==
    /\ Driver
    /\ last' = IF pc = "read" /\ pc' = "idle" THEN got ELSE last
    /\ UNCHANGED <<table, inodes, content, size>>

Next ==
    \/ \E fd \in Fd :
          \/ \E i \in Inode, flags \in Flags : Open(fd, i, flags)
          \/ \E new \in Fd : Dup(fd, new)
          \/ Close(fd)
          \/ \E n \in Length : sys_read(fd, n) \/ sys_write(fd, n)
    \/ \E i \in File : Unlink(i) \/ Create(i)
    \/ Polling
    \/ UartDevice /\ UNCHANGED <<table, inodes, store>>

\* A call runs to its end, and the UART sends what it is given.
Fairness ==
    /\ WF_vars(Polling)
    /\ WF_vars(Transmit /\ UNCHANGED <<table, inodes, store>>)

Spec == Init /\ [][Next]_vars /\ Fairness

-----------------------------------------------------------------------------

TypeOK ==
    /\ UartTypeOK
    /\ DOMAIN file \subseteq Obj
    /\ \A o \in DOMAIN file :
          file[o] \in [ref : Nat \ {0}, flags : Flags, offset : 0 .. MaxLen, inode : Inode]
    /\ ftable \in Seq(Obj) /\ count \in Nat
    /\ fdtable \in [Fd -> Obj \cup {Null}]
    /\ iref \in [Inode -> Nat] /\ nlinks \in [Inode -> {0, 1}]
    /\ size \in [File -> 0 .. MaxLen]

(***************************************************************************)
(* Whatever was opened, duplicated, closed and unlinked before: an object  *)
(* is kept for exactly the descriptors that name it, an inode for exactly  *)
(* the objects that refer to it, and the table lists every object once.    *)
(***************************************************************************)
RefsExact ==
    /\ \A fd \in Fd : fdtable[fd] # Null => fdtable[fd] \in DOMAIN file
    /\ \A o \in DOMAIN file :
          /\ file[o].ref = Cardinality({fd \in Fd : fdtable[fd] = o})
          /\ file[o].ref > 0
    /\ \A i \in Inode \ {Root} :
          iref[i] = Cardinality({o \in DOMAIN file : file[o].inode = i})
    /\ iref[Root] = 1 + Cardinality({o \in DOMAIN file : file[o].inode = Root})
    /\ ToSet(ftable) = DOMAIN file /\ IsInjective(ftable) /\ count = Len(ftable)

(***************************************************************************)
(* The offset of an open file moves by what a call has transferred, from   *)
(* or to that offset, and only the offset of the object the call named:    *)
(* descriptors that were duplicated share it, others do not.               *)
(***************************************************************************)
WasRead(f, from, to) ==
    /\ last' = SubSeq([p \in 1 .. MaxLen |-> content[f][p - 1]], from + 1, to)
    /\ content' = content
WasWritten(f, from, to) ==
    /\ last' = <<to - from>>
    /\ \A p \in 0 .. (MaxLen - 1) :
          content'[f][p] # content[f][p] => p \in from .. (to - 1)

OffsetFollowsTransfer ==
    [][LET kept == DOMAIN file \cap DOMAIN file'
           moved == {o \in kept : file'[o].offset # file[o].offset}
       IN  /\ \A o \in moved :
                 LET f == file[o].inode
                     from == file[o].offset
                     to == file'[o].offset
                 IN  f \in File /\ (WasRead(f, from, to) \/ WasWritten(f, from, to))
           /\ \A o, p \in moved : o = p]_vars

(***************************************************************************)
(* A call to the UART returns: the device sends what it holds, so that the *)
(* polling ends, and uart_read does not wait.  (uartinit may go on         *)
(* emptying a FIFO that is refilled all the time.)                         *)
(***************************************************************************)
CallReturns == pc \in {"read", "write"} ~> pc = "idle"

=============================================================================
