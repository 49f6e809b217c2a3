-------------------------------- MODULE Slab --------------------------------
(***************************************************************************)
(* The kernel heap: the page allocator of mm/kalloc.c, the slab allocator  *)
(* of mm/slab.c on top of it and kmalloc/kmfree of mm/kmalloc.c.           *)
(*                                                                         *)
(* All of them keep their links inside the pages they manage, so the links *)
(* are modelled where the code has them: word[p], the first word of page p,*)
(* is the free-list link of a free page, slab->next of a slab, the magic   *)
(* number of a large allocation, and the owner's data otherwise.           *)
(* Calls do not overlap (one hart, interrupts off), so each is one step.   *)
(*                                                                         *)
(* Exact are the classes whose objects fill a page to its last byte (of    *)
(* kmalloc's nine, only the one of 8 bytes): for them the word in which    *)
(* slabinit ends its chain is the first word of the next page.  Where that *)
(* word was in use the heap is broken from then on: overrun records it,    *)
(* and nothing is modelled after it but the next start of the machine.     *)
(***************************************************************************)
EXTENDS Integers, Sequences, FiniteSets

CONSTANTS NPAGE,        \* pages between ekernel and PHYEND
          Cache,        \* the size classes in use
          PerSlab,      \* PerSlab[c]: objectsnum of a slab of class c
          Exact,        \* the classes without an unused rest in the page
          MaxEmpty      \* MAX_EMPTY_SLABS

ASSUME NPAGEAssumption    == NPAGE \in Nat \ {0}
ASSUME PerSlabAssumption  == PerSlab \in [Cache -> Nat \ {0}]
ASSUME ExactAssumption    == Exact \subseteq Cache
ASSUME MaxEmptyAssumption == MaxEmpty \in Nat

VARIABLES memlist,      \* kmem.memlist
          word,         \* the first word of every page
          prev,         \* slab->prev (kept Null for a page that is not a slab)
          slab,         \* the other header fields of each page that is a slab
          cache,        \* the struct cache of each class
          live,         \* objects handed out and not yet freed, as <<page, object>>
          large,        \* pages handed out by kmalloc
          raw,          \* pages handed out by kalloc (page tables, stacks, ...)
          overrun       \* slabinit has written over a word that was in use

slabVars == <<memlist, word, prev, slab, cache, live, large, raw, overrun>>

Page  == 0 .. (NPAGE - 1)
Null  == -1
Magic == -2             \* LARGE_ALLOC_MAGIC
List  == {"full", "partial", "empty"}

\* freerange frees the pages in ascending order, so the highest is on top.
kinit ==
    [memlist |-> NPAGE - 1,
     word    |-> [p \in Page |-> p - 1],
     prev    |-> [p \in Page |-> Null],
     slab    |-> [p \in {} |-> Null],
     cache   |-> [c \in Cache |-> [head |-> [l \in List |-> Null], empty_slabs |-> 0]]]

SlabInit ==
    /\ memlist = kinit.memlist /\ word = kinit.word /\ prev = kinit.prev
    /\ slab = kinit.slab /\ cache = kinit.cache
    /\ live = {} /\ large = {} /\ raw = {} /\ overrun = FALSE

(***************************************************************************)
(* The memory the allocators write, and what their helpers do to it.       *)
(* (X_Mut... is a mistaken variant of X that a mutation run uses.)         *)
(***************************************************************************)
Heap == [memlist |-> memlist, word |-> word, prev |-> prev, slab |-> slab, cache |-> cache]

Becomes(m) ==
    /\ memlist' = m.memlist /\ word' = m.word /\ prev' = m.prev
    /\ slab' = m.slab /\ cache' = m.cache

\* kfree: the page goes on top of the free list.
kfree(m, p) ==
    [m EXCEPT !.word[p] = m.memlist, !.memlist = p, !.prev[p] = Null,
              !.slab = [q \in DOMAIN @ \ {p} |-> @[q]]]

\* kalloc of a non-empty free list: its top, with the page zeroed.
kalloc(m) == [m EXCEPT !.memlist = m.word[m.memlist], !.word[m.memlist] = Null]

list_remove(m, c, l, s) ==
    LET next == m.word[s]
        m1 == IF m.prev[s] # Null
              THEN [m EXCEPT !.word[m.prev[s]] = next]
              ELSE [m EXCEPT !.cache[c].head[l] = next]
    IN  IF next # Null THEN [m1 EXCEPT !.prev[next] = m.prev[s]] ELSE m1

list_insert_MutNoBack(m, c, l, s) ==
    [m EXCEPT !.word[s] = m.cache[c].head[l], !.prev[s] = Null, !.cache[c].head[l] = s]
list_insert(m, c, l, s) ==
    LET top == m.cache[c].head[l]
        m1 == [m EXCEPT !.word[s] = top, !.prev[s] = Null, !.cache[c].head[l] = s]
    IN  IF top # Null THEN [m1 EXCEPT !.prev[top] = s] ELSE m1

\* slabinit: the chain of all objects, ending in the word after the last one
\* (object PerSlab + 1, never handed out), which is set to nullptr.
Chain_MutRepeat(c) == [k \in 1 .. (PerSlab[c] + 1) |-> IF k = 1 THEN 1 ELSE k - 1]
Chain(c) == [k \in 1 .. (PerSlab[c] + 1) |-> k]

slabinit(m, c, s) ==
    LET header == [cache |-> c, list |-> Chain(c), freenum |-> PerSlab[c]]
    IN  [m EXCEPT !.word = [p \in Page |->
                              IF p = s \/ (p = s + 1 /\ c \in Exact) THEN Null ELSE @[p]],
                  !.prev[s] = Null,
                  !.slab = [q \in DOMAIN @ \cup {s} |-> IF q = s THEN header ELSE @[q]]]

\* The word behind page s is one that somebody relies on: it lies beyond the memory,
\* in a page that kalloc has handed out, or it is a link or a mark other than nullptr.
InUse(s) == s + 1 \notin Page \/ s + 1 \in raw \/ word[s + 1] # Null

\* The loop of cache_shrink runs at most once: see EmptyBounded.
cache_shrink(m, c) ==
    LET s == m.cache[c].head["empty"]
    IN  IF s = Null \/ m.cache[c].empty_slabs <= MaxEmpty THEN m
        ELSE kfree([list_remove(m, c, "empty", s) EXCEPT !.cache[c].empty_slabs = @ - 1], s)

(***************************************************************************)
(* kalloc and kfree called directly.                                       *)
(***************************************************************************)
Kalloc ==
    /\ memlist # Null
    /\ Becomes(kalloc(Heap))
    /\ raw' = raw \cup {memlist}
    /\ UNCHANGED <<live, large, overrun>>

Kfree(p) ==
    /\ p \in raw
    /\ Becomes(kfree(Heap, p))
    /\ raw' = raw \ {p}
    /\ UNCHANGED <<live, large, overrun>>

(***************************************************************************)
(* kmalloc of a class, which is cache_alloc: a partial slab, else an empty *)
(* one, else a new page, else nullptr (no step).                           *)
(***************************************************************************)
\* Slab s, first of the partial list of m, gives its first free object.
Exhausted_MutLate(n) == n < 0
Exhausted(n) == n = 0

Take(m, c, s) ==
    LET obj == Head(m.slab[s].list)
        m1 == [m EXCEPT !.slab[s].list = Tail(@), !.slab[s].freenum = @ - 1]
    IN  /\ IF Exhausted(m1.slab[s].freenum)
           THEN Becomes(list_insert(list_remove(m1, c, "partial", s), c, "full", s))
           ELSE Becomes(m1)
        /\ live' = live \cup {<<s, obj>>}
        /\ UNCHANGED <<large, raw>>

AllocPartial(c) ==
    LET s == cache[c].head["partial"]
    IN  s # Null /\ Take(Heap, c, s) /\ UNCHANGED overrun

AllocEmpty(c) ==
    LET s == cache[c].head["empty"]
    IN  /\ cache[c].head["partial"] = Null /\ s # Null
        /\ Take(list_insert([list_remove(Heap, c, "empty", s)
                                EXCEPT !.cache[c].empty_slabs = @ - 1],
                            c, "partial", s), c, s)
        /\ UNCHANGED overrun

AllocNew(c) ==
    LET s == memlist
    IN  /\ cache[c].head["partial"] = Null /\ cache[c].head["empty"] = Null
        /\ s # Null
        /\ Take(list_insert(slabinit(kalloc(Heap), c, s), c, "partial", s), c, s)
        /\ overrun' = (c \in Exact /\ InUse(s))

\* A request above MAX_CACHE_SIZE takes a page of its own, marked by its first word.
Mark(m, p) == [m EXCEPT !.word[p] = Magic]

KmallocLarge ==
    /\ memlist # Null
    /\ Becomes(Mark(kalloc(Heap), memlist))
    /\ large' = large \cup {memlist}
    /\ UNCHANGED <<live, raw, overrun>>

(***************************************************************************)
(* kmfree of what kmalloc returned: the page's first word tells a large    *)
(* allocation from an object of a slab.                                    *)
(***************************************************************************)
KmfreeLarge(p) ==
    /\ word[p] = Magic
    /\ Becomes(kfree(Heap, p))
    /\ large' = large \ {p}
    /\ UNCHANGED <<live, raw, overrun>>

\* cache_free, then cache_shrink if that left too many empty slabs.
AllFree(c, n) == n = PerSlab[c]

KmfreeObject(s, obj) ==
    /\ word[s] # Magic
    /\ LET c == slab[s].cache
           m == [Heap EXCEPT !.slab[s].list = <<obj>> \o @, !.slab[s].freenum = @ + 1]
           n == m.slab[s].freenum
           emptied == [list_insert(list_remove(m, c, "partial", s), c, "empty", s)
                          EXCEPT !.cache[c].empty_slabs = @ + 1]
       IN  Becomes(IF n = 1
                   THEN list_insert(list_remove(m, c, "full", s), c, "partial", s)
                   ELSE IF AllFree(c, n) THEN cache_shrink(emptied, c)
                   ELSE m)
    /\ live' = live \ {<<s, obj>>}
    /\ UNCHANGED <<large, raw, overrun>>

Call ==
    \/ Kalloc
    \/ \E p \in raw : Kfree(p)
    \/ \E c \in Cache : AllocPartial(c) \/ AllocEmpty(c) \/ AllocNew(c)
    \/ KmallocLarge
    \/ \E p \in large : KmfreeLarge(p)
    \/ \E o \in live : KmfreeObject(o[1], o[2])

\* A broken heap ends in a restart.
SlabBoot ==
    /\ overrun
    /\ Becomes(kinit)
    /\ live' = {} /\ large' = {} /\ raw' = {} /\ overrun' = FALSE

SlabNext == (~overrun /\ Call) \/ SlabBoot

SlabSpec == SlabInit /\ [][SlabNext]_slabVars

(***************************************************************************)
(* Properties                                                              *)
(***************************************************************************)
\* The type invariant of the heap.
SlabTypeOK ==
    /\ memlist \in Page \cup {Null}
    /\ word \in [Page -> Page \cup {Null, Magic}]
    /\ prev \in [Page -> Page \cup {Null}]
    /\ DOMAIN slab \subseteq Page
    /\ \A s \in DOMAIN slab :
          /\ slab[s].cache \in Cache
          /\ slab[s].freenum \in 0 .. PerSlab[slab[s].cache]
          /\ slab[s].list \in Seq(1 .. (PerSlab[slab[s].cache] + 1))
    /\ cache \in [Cache -> [head : [List -> Page \cup {Null}], empty_slabs : Nat]]
    /\ live \subseteq Page \X Nat /\ large \subseteq Page /\ raw \subseteq Page
    /\ overrun \in BOOLEAN

\* Where the links lead from page p, and so the pages on the list that starts there,
\* in order; NPAGE + 1 of them if it is not terminated.
Steps(p) ==
    LET at[k \in 0 .. NPAGE] ==
            IF k = 0 THEN p
            ELSE IF at[k - 1] \in Page THEN word[at[k - 1]] ELSE Null
    IN  at

Walk(p) ==
    LET at  == Steps(p)
        len == Cardinality({k \in 0 .. NPAGE : at[k] # Null})
    IN  [k \in 1 .. len |-> at[k - 1]]

\* The lists of the heap: the free list and three of every class.
Lists == {memlist} \cup {cache[c].head[l] : c \in Cache, l \in List}

OnList(s, c, l) ==
    \E k \in 1 .. Len(Walk(cache[c].head[l])) : Walk(cache[c].head[l])[k] = s

Places(p) ==
    Cardinality({k \in 1 .. Len(Walk(memlist)) : Walk(memlist)[k] = p})
    + Cardinality({x \in Cache \X List : OnList(p, x[1], x[2])})
    + (IF p \in large THEN 1 ELSE 0) + (IF p \in raw THEN 1 ELSE 0)

\* Each page is on the free list, in exactly one slab list, a large allocation or
\* a page of a kalloc caller.
PagePartition ==
    /\ \A p \in Lists : Len(Walk(p)) <= NPAGE
    /\ \A p \in Page : Places(p) = 1

\* A slab is on the list its number of free objects calls for.  (A slab with one
\* object goes from full to partial only: slab.c tests freenum == 1 before
\* freenum == objectsnum.)
OnRightList ==
    \A s \in DOMAIN slab :
        LET c == slab[s].cache
            n == slab[s].freenum
        IN  IF n = 0 THEN OnList(s, c, "full")
            ELSE IF n = PerSlab[c] /\ n > 1 THEN OnList(s, c, "empty")
            ELSE OnList(s, c, "partial")

\* prev is the inverse of next on every slab list.
DoublyLinked ==
    \A c \in Cache, l \in List :
        LET w == Walk(cache[c].head[l])
        IN  \A k \in 1 .. Len(w) : prev[w[k]] = (IF k = 1 THEN Null ELSE w[k - 1])

\* empty_slabs counts the empty list, which stays short.
EmptyBounded ==
    \A c \in Cache :
        /\ cache[c].empty_slabs = Len(Walk(cache[c].head["empty"]))
        /\ cache[c].empty_slabs <= MaxEmpty

\* No page is lost and none has two owners, although all lists share the first word
\* of the pages; and the lists of a class agree with its slabs' counters: allocation
\* finds a free object wherever there is one, list_remove unlinks the right neighbours
\* wherever in its list the slab is, and empty slabs beyond MAX_EMPTY_SLABS go back.
\* All this until slabinit of a class in Exact overruns its page, and not after it.
PagesInPlace ==
    overrun \/ (PagePartition /\ OnRightList /\ DoublyLinked /\ EmptyBounded)

\* Every object of a slab is handed out or once on the slab's free chain.
OnceEach ==
    \A s \in DOMAIN slab :
        LET n == slab[s].freenum
            free == {slab[s].list[k] : k \in 1 .. n}
            used == {o[2] : o \in {x \in live : x[1] = s}}
        IN  /\ Len(slab[s].list) = n + 1
            /\ Cardinality(free) = n
            /\ free \cap used = {}
            /\ free \cup used = 1 .. PerSlab[slab[s].cache]

\* kmfree can tell the two kinds of allocation apart by the page's first word.
MagicTellsApart ==
    /\ \A p \in large : word[p] = Magic
    /\ \A o \in live : word[o[1]] # Magic /\ o[1] \in DOMAIN slab

\* No object is given to two callers, lost, or invented past the last one, and
\* what is given back goes to where it came from: until slabinit overruns a page.
ObjectsAccounted == overrun \/ (OnceEach /\ MagicTellsApart)

=============================================================================
