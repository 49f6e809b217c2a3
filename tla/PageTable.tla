------------------------------ MODULE PageTable -----------------------------
(***************************************************************************)
(* mm/vm.c: the page tables of the kernel and of user processes, three     *)
(* levels (Sv39) of K entries each, and the calls that create, extend and  *)
(* free an address space.                                                  *)
(*                                                                         *)
(* There is no kernel page table isolation: uvmmapkernel copies the top    *)
(* level of the kernel's table, so that every process shares the kernel's  *)
(* lower tables.  Addresses and sizes are in pages.  Calls do not overlap, *)
(* so each is one step; a panic powers the machine off, and what the call  *)
(* that panicked had done is not kept.                                     *)
(***************************************************************************)
EXTENDS Integers, Sequences, FiniteSets

CONSTANTS K,          \* entries of a table, 512 in the code
          NFRAME,     \* pages of kalloc
          KernelVa,   \* the virtual pages kvmmake maps, in its order
          KERNBASE,   \* the lowest address of kernel text; the user stack ends here
          Space,      \* the address spaces, one per process
          UserVa      \* pages of the segments and stacks of user programs

Va    == 0 .. (K * K * K - 1)
Frame == 1 .. NFRAME
Entry == 0 .. (K - 1)

ASSUME KAssumption        == K \in Nat /\ K > 1 /\ NFRAME \in Nat \ {0}
ASSUME KernelVaAssumption == KernelVa \in Seq(Va) /\ KERNBASE \in Va
ASSUME UserVaAssumption   == UserVa \subseteq Va

VARIABLES free,       \* pages of kalloc's free list
          table,      \* table[p]: the entries of page p where it is a table
          kvmroot,
          root,       \* root[r]: p->root, NoFrame if there is none
          sz,         \* sz[r]: p->sz, behind the segments of a program that runs
          owned,      \* owned[r]: the virtual pages r has mapped for itself
          lost,       \* pages kexec allocated and then dropped
          outcome     \* of the machine and of the last call

vmVars == <<free, table, kvmroot, root, sz, owned, lost, outcome>>

NoFrame == 0
None == [kind |-> "none", to |-> NoFrame]
Table(p) == [kind |-> "table", to |-> p]    \* PTE_V without R, W, X
User_MutUnshifted(p) == [kind |-> "user", to |-> 4 * p]
User(p)  == [kind |-> "user", to |-> p]     \* a leaf with PTE_U
Kernel(v) == [kind |-> "kernel", to |-> v]  \* a leaf of the identity mapping

\* (X_Mut... is a mistaken variant of X that a mutation run puts in its place.)

Empty == [e \in Entry |-> None]

PX(level, va) ==
    IF level = 0 THEN va % K ELSE IF level = 1 THEN (va \div K) % K ELSE va \div (K * K)

(***************************************************************************)
(* Memory as a record, and the functions of vm.c that change it.  at is    *)
(* the table a walk has reached.                                           *)
(***************************************************************************)
Mem == [free |-> free, table |-> table, at |-> NoFrame, result |-> "ok"]

Lowest(S) == CHOOSE p \in S : \A q \in S : p <= q

\* kalloc of a page for a table or for data: zeroed.
kallocPage(m) == [m EXCEPT !.free = @ \ {Lowest(@)}, !.table[Lowest(m.free)] = Empty]

\* One level of walk, at level l of the tree.
Descend(m, l, va, alloc) ==
    IF m.at = NoFrame THEN m
    ELSE LET e == m.table[m.at][PX(l, va)]
         IN  IF e # None THEN [m EXCEPT !.at = e.to]
             ELSE IF ~alloc \/ m.free = {} THEN [m EXCEPT !.at = NoFrame]
             ELSE LET p == Lowest(m.free)
                  IN  [kallocPage(m) EXCEPT !.table[m.at][PX(l, va)] = Table(p), !.at = p]

walk(m, r, va, alloc) ==
    Descend(Descend([m EXCEPT !.at = r], 2, va, alloc), 1, va, alloc)

\* vmmap of one page.
vmmap(m, r, va, pte) ==
    LET w == walk(m, r, va, TRUE)
    IN  IF w.at = NoFrame THEN [w EXCEPT !.result = "failed"]
        ELSE IF w.table[w.at][PX(0, va)] # None THEN [w EXCEPT !.result = "panic"]
        ELSE [w EXCEPT !.table[w.at][PX(0, va)] = pte]

\* What the hardware, or walk without alloc, finds for va.
Translate(t, r, va) ==
    LET w == walk([free |-> {}, table |-> t, at |-> NoFrame, result |-> "ok"], r, va, FALSE)
    IN  IF w.at = NoFrame THEN None ELSE t[w.at][PX(0, va)]

\* uvmunmap with free = true.
Unmap_MutKeepsEntry(m, r, S) ==
    [m EXCEPT !.free = @ \cup {Translate(m.table, r, v).to : v \in S}]
Unmap(m, r, S) ==
    LET slots == {<<walk(m, r, v, FALSE).at, PX(0, v)>> : v \in S}
    IN  [m EXCEPT !.free = @ \cup {m.table[s[1]][s[2]].to : s \in slots},
                  !.table = [p \in Frame |-> [e \in Entry |->
                                IF <<p, e>> \in slots THEN None ELSE @[p][e]]]]

uvmunmap(m, r, S) ==
    LET mapped == {v \in S : Translate(m.table, r, v) # None}
    IN  IF \E v \in mapped : Translate(m.table, r, v).kind = "kernel"
        THEN [m EXCEPT !.result = "panic"]           \* kfree of a device
        ELSE Unmap(m, r, mapped)

(***************************************************************************)
(* kvmmake                                                                 *)
(***************************************************************************)
KernelMemory ==
    LET m0 == [free |-> Frame \ {1}, table |-> [p \in Frame |-> Empty],
               at |-> NoFrame, result |-> "ok"]
        build[i \in 0 .. Len(KernelVa)] ==
            IF i = 0 THEN m0 ELSE vmmap(build[i - 1], 1, KernelVa[i], Kernel(KernelVa[i]))
    IN  build[Len(KernelVa)]
\* kvmmake succeeds, or the kernel panics while it boots; and there are devices below
\* the kernel, in a table of their own.
ASSUME KernelAssumption ==
    /\ KernelMemory.result = "ok"
    /\ \E j \in 1 .. Len(KernelVa) : PX(2, KernelVa[j]) < PX(2, KERNBASE)

VmInit ==
    /\ kvmroot = 1
    /\ free = KernelMemory.free /\ table = KernelMemory.table
    /\ root = [r \in Space |-> NoFrame]
    /\ sz = [r \in Space |-> 0]
    /\ owned = [r \in Space |-> {}]
    /\ lost = {}
    /\ outcome = KernelMemory.result

\* The end of a call that leaves memory m.
Ends(m) ==
    /\ outcome' = m.result
    /\ IF m.result = "panic" THEN UNCHANGED <<free, table>>
       ELSE free' = m.free /\ table' = m.table
    /\ UNCHANGED kvmroot

(***************************************************************************)
(* mapproc: uvmcreate and uvmmapkernel                                     *)
(***************************************************************************)
Copied_MutHighOnly(i) == i >= PX(2, KERNBASE) /\ table[kvmroot][i] # None
Copied(i) == table[kvmroot][i] # None

Mapproc(r) ==
    /\ outcome # "panic" /\ root[r] = NoFrame
    /\ IF free = {}
       THEN Ends([Mem EXCEPT !.result = "failed"]) /\ UNCHANGED root
       ELSE LET p == Lowest(free)
            IN  /\ Ends([kallocPage(Mem) EXCEPT !.table[p] =
                               [i \in Entry |-> IF Copied(i) THEN table[kvmroot][i] ELSE None]])
                /\ root' = [root EXCEPT ![r] = p]
    /\ UNCHANGED <<sz, owned, lost>>

(***************************************************************************)
(* kalloc and vmmap of one page, as kexec does for every page of a segment *)
(* and of the stack.  If vmmap fails the new page is lost.                 *)
(***************************************************************************)
MapUser(r, va) ==
    /\ outcome # "panic" /\ root[r] # NoFrame /\ sz[r] = 0
    /\ LET m == IF free = {} THEN [Mem EXCEPT !.result = "failed"]
                ELSE vmmap(kallocPage(Mem), root[r], va, User(Lowest(free)))
       IN  /\ Ends(m)
           /\ owned' = IF m.result = "ok" THEN [owned EXCEPT ![r] = @ \cup {va}] ELSE owned
           /\ lost' = IF m.result = "failed" /\ free # {} THEN lost \cup {Lowest(free)} ELSE lost
    /\ UNCHANGED <<root, sz>>

\* At its end kexec sets p->sz behind the last page of the segments.
SetSize(r) ==
    /\ outcome # "panic" /\ root[r] # NoFrame /\ sz[r] = 0
    /\ \E last \in owned[r] :
          /\ last < KERNBASE - 2 /\ \A v \in owned[r] : v <= last \/ v >= KERNBASE - 2
          /\ sz' = [sz EXCEPT ![r] = last + 1]
    /\ outcome' = "ok"
    /\ UNCHANGED <<free, table, kvmroot, root, owned, lost>>

(***************************************************************************)
(* uvmalloc from sz to new pages, with its way back through uvmdealloc.    *)
(***************************************************************************)
Rollback_MutShort(m, r, from, to) == uvmunmap(m, r, (from + 1) .. (to - 1))
Rollback(m, r, from, to) == uvmunmap(m, r, from .. (to - 1))

uvmalloc(m, r, old, new) ==
    LET grow[s \in old .. new] ==
            IF s = old THEN m
            ELSE LET g == grow[s - 1]
                     p == Lowest(g.free)
                     v == vmmap(kallocPage(g), r, s - 1, User(p))
                     undo(u) == [Rollback(u, r, old, s - 1) EXCEPT !.result = "failed"]
                 IN  IF g.result # "ok" THEN g
                     ELSE IF g.free = {} THEN undo(g)
                     ELSE IF v.result = "failed"
                     THEN undo([v EXCEPT !.free = @ \cup {p}, !.result = "ok"])
                     ELSE v
    IN  grow[new]

Uvmalloc(r, new) ==
    /\ outcome # "panic" /\ root[r] # NoFrame /\ sz[r] # 0 /\ new > sz[r]
    /\ LET m == uvmalloc(Mem, root[r], sz[r], new)
       IN  /\ Ends(m)
           /\ IF m.result = "ok"
              THEN /\ owned' = [owned EXCEPT ![r] = @ \cup sz[r] .. (new - 1)]
                   /\ sz' = [sz EXCEPT ![r] = new]
              ELSE UNCHANGED <<owned, sz>>
    /\ UNCHANGED <<root, lost>>

(***************************************************************************)
(* uvmfree: the pages up to sz and of the stack, then uvmfreewalk: entries *)
(* from KERNBASE on are left alone, freewalk frees the tables below the    *)
(* others and panics if there is still a leaf in one.                      *)
(***************************************************************************)
Inner(t, S)  == {x \in S \X Entry : t[x[1]][x[2]].kind = "table"}
Below(t, S)  == {t[x[1]][x[2]].to : x \in Inner(t, S)}

Leaves(t, S) == {x \in S \X Entry : t[x[1]][x[2]].kind \in {"user", "kernel"}}

uvmfreewalk(m, r) ==
    LET tops == {m.table[r][i].to : i \in {j \in Entry : j < PX(2, KERNBASE)
                                                        /\ m.table[r][j].kind = "table"}}
        tables == tops \cup Below(m.table, tops)
    IN  IF Leaves(m.table, tables) # {} THEN [m EXCEPT !.result = "panic"]
        ELSE [m EXCEPT !.free = @ \cup tables \cup {r}]

Uvmfree(r) ==
    /\ outcome # "panic" /\ root[r] # NoFrame
    /\ LET m == uvmunmap(Mem, root[r], (0 .. (sz[r] - 1)) \cup {KERNBASE - 2, KERNBASE - 1})
       IN  Ends(IF m.result = "panic" THEN m ELSE uvmfreewalk(m, root[r]))
    /\ root' = [root EXCEPT ![r] = NoFrame]
    /\ sz' = [sz EXCEPT ![r] = 0]
    /\ owned' = [owned EXCEPT ![r] = {}]
    /\ UNCHANGED lost

\* The machine is started again.
VmBoot ==
    /\ outcome = "panic" /\ outcome' = KernelMemory.result
    /\ free' = KernelMemory.free /\ table' = KernelMemory.table
    /\ root' = [r \in Space |-> NoFrame]
    /\ sz' = [r \in Space |-> 0]
    /\ owned' = [r \in Space |-> {}]
    /\ lost' = {}
    /\ UNCHANGED kvmroot

VmNext ==
    \/ \E r \in Space :
          \/ Mapproc(r)
          \/ \E va \in UserVa : MapUser(r, va)
          \/ SetSize(r)
          \/ \E new \in 1 .. (K + 1) : Uvmalloc(r, new)
          \/ Uvmfree(r)
    \/ VmBoot

VmSpec == VmInit /\ [][VmNext]_vmVars

(***************************************************************************)
(* Properties                                                              *)
(***************************************************************************)
\* The type invariant of page tables and address spaces.
VmTypeOK ==
    /\ free \subseteq Frame
    /\ table \in [Frame -> [Entry -> [kind : {"none", "table", "user", "kernel"}, to : Nat]]]
    /\ \A p \in Frame, e \in Entry :
          table[p][e].kind \in {"table", "user"} => table[p][e].to \in Frame
    /\ kvmroot \in Frame
    /\ root \in [Space -> Frame \cup {NoFrame}]
    /\ sz \in [Space -> Va]
    /\ owned \in [Space -> SUBSET Va]
    /\ lost \subseteq Frame
    /\ outcome \in {"ok", "failed", "panic"}

Roots  == ({kvmroot} \cup {root[r] : r \in Space}) \ {NoFrame}
Level1 == Below(table, Roots)
Level0 == Below(table, Level1)
UserLeaves == {x \in Level0 \X Entry : table[x[1]][x[2]].kind = "user"}
UserPages  == {table[x[1]][x[2]].to : x \in UserLeaves}

\* Every page has exactly one use: free, a table of one level, memory of a user, or
\* lost by kexec.  No table and no user page is ever on the free list, none is
\* mapped twice, and uvmalloc's way back gives up neither too much nor too little.
PagesAccounted ==
    outcome # "panic" =>
        /\ Frame = free \cup Roots \cup Level1 \cup Level0 \cup UserPages \cup lost
        /\ Cardinality(Frame) = Cardinality(free) + Cardinality(Roots) + Cardinality(Level1)
              + Cardinality(Level0) + Cardinality(UserPages) + Cardinality(lost)
        /\ Cardinality(UserPages) = Cardinality(UserLeaves)

\* Whatever processes map, the kernel's own mappings stay as kvmmake made them, in
\* its own table and in every process's, and are not accessible to users.
KernelMapped ==
    \A p \in Roots, i \in 1 .. Len(KernelVa) :
        Translate(table, p, KernelVa[i]) = Kernel(KernelVa[i])

\* The kernel has a table for va in its top level, which every address space shares.
Shared(va) == table[kvmroot][PX(2, va)] # None

\* A call changes no translation but those of the pages a process maps with it, and
\* these in its own address space: a mapping that fails half way, or that is taken
\* back, changes none, and no other space changes outside of the tables that
\* uvmmapkernel shares.
OnlyMappedPagesChange ==
    [][\A p \in Roots \cap Roots', v \in Va :
          Translate(table', p, v) # Translate(table, p, v) =>
              \/ outcome = "panic"
              \/ \E r \in Space : v \in owned'[r] \ owned[r] /\ (p = root[r] \/ Shared(v)')]_vmVars

\* vm.c:10: every process has an address space of its own, independent of the others.
\* What one process maps for itself changes nothing in another's.
SpacesIndependent ==
    [][\A r, s \in Space, va \in UserVa, v \in Va :
          MapUser(r, va) /\ s # r /\ root[s] # NoFrame =>
              Translate(table', root[s], v) = Translate(table, root[s], v)]_vmVars

\* vm.c:248-249: uvmfree drops its references to the kernel's tables and does not
\* descend into them, as they are managed globally.
KernelSurvivesFree == [][\A r \in Space : Uvmfree(r) => outcome' # "panic"]_vmVars

=============================================================================
