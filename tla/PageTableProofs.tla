--------------------------- MODULE PageTableProofs --------------------------
(***************************************************************************)
(* Proofs about PageTable for every size of tables, every number of pages  *)
(* and processes and every set of pages the kernel maps.                   *)
(*                                                                         *)
(* The tables say nothing of what a page is used for.  The proofs name it: *)
(* lev[p] is the level of the table that page p is, or its other use, and  *)
(* home[p] the slot through which p is reached.                            *)
(***************************************************************************)
EXTENDS PageTable, FiniteSetTheorems, WellFoundedInduction, TLAPS

-----------------------------------------------------------------------------
(***************************************************************************)
(* Arithmetic: an address is its three indices.                            *)
(***************************************************************************)
LEMMA DivMod ==
    ASSUME NEW n \in Nat, NEW d \in Nat \ {0}
    PROVE  /\ n \div d \in Nat /\ n % d \in 0 .. (d - 1)
           /\ (n \div d) * d + (n % d) = n
<1>1. n \div d \in Int /\ n % d \in 0 .. (d - 1)
  OBVIOUS
<1>2. n = d * (n \div d) + (n % d)
  OBVIOUS
<1>3. n \div d \in Nat
  BY <1>1
<1> QED
  BY <1>1, <1>2, <1>3

\* Of two numbers with different quotients the one with the larger quotient is larger.
LEMMA QuotientsAscend ==
    ASSUME NEW d \in Nat \ {0}, NEW f \in Nat, NEW g \in Nat, f < g,
           NEW j \in 0 .. (d - 1), NEW k \in Nat
    PROVE  f * d + j < g * d + k
<1>1. PICK n \in Nat : g = f + 1 + n
  <2>1. g - f - 1 \in Nat /\ g = f + 1 + (g - f - 1)
    OBVIOUS
  <2> QED
    BY <2>1
<1>2. g * d = f * d + d + n * d
  BY <1>1
<1>3. f * d \in Nat /\ n * d \in Nat /\ g * d \in Nat
  BY <1>1
<1> QED
  BY <1>2, <1>3

LEMMA QuotientUnique ==
    ASSUME NEW d \in Nat \ {0}, NEW f \in Nat, NEW g \in Nat,
           NEW j \in 0 .. (d - 1), NEW k \in 0 .. (d - 1),
           f * d + j = g * d + k
    PROVE  f = g /\ j = k
<1>1. f * d \in Nat /\ g * d \in Nat
  OBVIOUS
<1>2. ~(f < g) /\ ~(g < f)
  BY <1>1, QuotientsAscend
<1> QED
  BY <1>1, <1>2

\* An address: its page within the last table, the table's index, and the top-level index.
LEMMA PXDigits ==
    ASSUME NEW v \in Va
    PROVE  /\ PX(0, v) \in Entry /\ PX(1, v) \in Entry /\ PX(2, v) \in Entry
           /\ v = (PX(2, v) * K + PX(1, v)) * K + PX(0, v)
<1>1. K \in Nat \ {0} /\ K * K \in Nat \ {0} /\ v \in Nat /\ v < K * K * K
  <2>1. K \in Nat /\ K > 1
    BY KAssumption
  <2>2. K * K \in Nat /\ K * K # 0
    BY <2>1
  <2>3. K * K * K \in Nat
    BY <2>1, <2>2
  <2> QED
    BY <2>1, <2>2, <2>3 DEF Va
<1>2. PICK q, a : /\ q = v \div K /\ a = v % K /\ q \in Nat /\ a \in 0 .. (K - 1)
                  /\ q * K + a = v
  BY <1>1, DivMod
<1>3. PICK s, b : /\ s = q \div K /\ b = q % K /\ s \in Nat /\ b \in 0 .. (K - 1)
                  /\ s * K + b = q
  <2>1. q \in Nat /\ K \in Nat \ {0}
    BY <1>1, <1>2
  <2>2. q \div K \in Nat /\ q % K \in 0 .. (K - 1) /\ (q \div K) * K + (q % K) = q
    BY ONLY <2>1, DivMod
  <2> QED
    BY <2>2
<1>4. PICK u, c : /\ u = v \div (K * K) /\ c = v % (K * K) /\ u \in Nat
                  /\ c \in 0 .. (K * K - 1) /\ u * (K * K) + c = v
  <2>1. PICK d : d = K * K
    OBVIOUS
  <2>2. d \in Nat \ {0} /\ v \in Nat
    BY <1>1, <2>1
  <2>3. v \div d \in Nat /\ v % d \in 0 .. (d - 1) /\ (v \div d) * d + (v % d) = v
    BY ONLY <2>2, DivMod
  <2> QED
    BY <2>1, <2>3
<1>5. b * K + a \in 0 .. (K * K - 1)
  <2>1. b < K /\ b \in Nat /\ a \in 0 .. (K - 1) /\ 0 \in Nat /\ b * K \in Nat
    BY <1>1, <1>2, <1>3
  <2>2. b * K + a < K * K + 0
    BY <1>1, <2>1, QuotientsAscend
  <2> QED
    BY <1>1, <2>1, <2>2
<1>6. s * (K * K) + (b * K + a) = v
  <2>1. (s * K + b) * K = s * (K * K) + b * K
    BY <1>1, <1>3
  <2>2. (s * K + b) * K + a = v
    BY <1>2, <1>3
  <2>3. s * (K * K) \in Nat /\ b * K \in Nat /\ a \in Nat
    BY <1>1, <1>2, <1>3
  <2> QED
    BY <2>1, <2>2, <2>3
<1>7. u = s
  <2>1. PICK d, e : d = K * K /\ e = b * K + a
    OBVIOUS
  <2>2. d \in Nat \ {0} /\ e \in 0 .. (d - 1)
    BY <1>1, <1>5, <2>1
  <2>3. u \in Nat /\ c \in 0 .. (d - 1) /\ u * d + c = v
    BY <1>4, <2>1
  <2>4. s \in Nat /\ s * d + e = v
    BY <1>3, <1>6, <2>1
  <2>5. u * d + c = s * d + e
    BY <2>3, <2>4
  <2> QED
    BY ONLY <2>2, <2>3, <2>4, <2>5, QuotientUnique
<1>8. u < K
  <2>1. CASE K < u
    <3>1. K * (K * K) + 0 < u * (K * K) + c
      BY <1>1, <1>4, <2>1, QuotientsAscend, 0 \in 0 .. (K * K - 1)
    <3> QED
      BY <1>1, <1>4, <3>1
  <2>2. CASE K = u
    <3>1. K * (K * K) + c = v
      BY <1>4, <2>2
    <3>2. K * (K * K) = K * K * K /\ K * K * K \in Nat /\ c \in Nat
      BY <1>1, <1>4
    <3> QED
      BY <1>1, <3>1, <3>2
  <2> QED
    BY <1>1, <1>4, <2>1, <2>2
<1>9. PX(0, v) = a /\ PX(1, v) = b /\ PX(2, v) = u
  BY <1>2, <1>3, <1>4 DEF PX
<1> QED
  BY <1>1, <1>2, <1>3, <1>4, <1>7, <1>8, <1>9 DEF Entry

LEMMA PXUnique ==
    ASSUME NEW v \in Va, NEW w \in Va,
           PX(0, v) = PX(0, w), PX(1, v) = PX(1, w), PX(2, v) = PX(2, w)
    PROVE  v = w
BY PXDigits

-----------------------------------------------------------------------------
(***************************************************************************)
(* The shape of memory: free pages f and page contents t, where page p has *)
(* level lev[p] and is reached through slot home[p].  A table of level l   *)
(* names tables, or user pages, of level l - 1; only a slot of the top     *)
(* level may name a table whose home is the same slot of the kernel's.     *)
(***************************************************************************)
KRoot == 1
Users == -1     \* a page of user memory, the level below the last table
Free  == -2
Lost  == -3
Held  == -4     \* a page that kalloc has returned and nothing uses yet

Slot == Frame \X Entry
EntryType ==
    {e \in [kind : {"none", "table", "user", "kernel"}, to : Nat] :
        e.kind \in {"table", "user"} => e.to \in Frame}

Points(l, q) == IF l = 0 THEN User(q) ELSE Table(q)

Fits(t, lev, home, p, e) ==
    \/ t[p][e] = None
    \/ lev[p] = 0 /\ t[p][e].kind = "kernel"
    \/ \E q \in Frame :
          /\ t[p][e] = Points(lev[p], q) /\ lev[q] = lev[p] - 1
          /\ home[q] = <<p, e>> \/ (lev[p] = 2 /\ home[q] = <<KRoot, e>>)

Shape(f, t, lev, home) ==
    /\ lev \in [Frame -> -4 .. 2] /\ home \in [Frame -> Slot]
    /\ t \in [Frame -> [Entry -> EntryType]]
    /\ f = {p \in Frame : lev[p] = Free}
    /\ KRoot \in Frame /\ lev[KRoot] = 2
    /\ \A p \in Frame, e \in Entry : lev[p] \in 0 .. 2 => Fits(t, lev, home, p, e)
    /\ \A q \in Frame : lev[q] \in -1 .. 1 =>
          /\ lev[home[q][1]] = lev[q] + 1
          /\ t[home[q][1]][home[q][2]] = Points(lev[q] + 1, q)
    /\ \A p \in Frame, e \in Entry :
          lev[p] = 2 /\ t[KRoot][e] # None => t[p][e] = t[KRoot][e]

\* What a walk finds: the table below slot i of p, the last table for v, and the entry.
Step(t, p, i) == IF p = NoFrame \/ t[p][i] = None THEN NoFrame ELSE t[p][i].to
Reach(t, r, v) == Step(t, Step(t, r, PX(2, v)), PX(1, v))
Tr(t, r, v) == IF Reach(t, r, v) = NoFrame THEN None ELSE t[Reach(t, r, v)][PX(0, v)]

\* Every translation under t is one under t2, by way of the same table.
Same(t, t2, lev) ==
    \A r \in Frame, v \in Va :
        lev[r] = 2 => /\ Tr(t2, r, v) = Tr(t, r, v)
                      /\ Reach(t, r, v) # NoFrame => Reach(t2, r, v) = Reach(t, r, v)

\* Only free pages have become something else, and that is a table below the top.
Grown(lev, lev2) ==
    \A q \in Frame : lev2[q] = lev[q] \/ (lev[q] = Free /\ lev2[q] \in 0 .. 1)

\* The processes' own pages are mapped, and the kernel's are where kvmmake put them.
Mapped(t, rt, own) ==
    \A r \in Space : /\ rt[r] = NoFrame => own[r] = {}
                     /\ \A v \in own[r] : rt[r] # NoFrame => Tr(t, rt[r], v) # None

KernelThere(t, lev) ==
    \A p \in Frame, i \in 1 .. Len(KernelVa) :
        lev[p] = 2 => Tr(t, p, KernelVa[i]) = Kernel(KernelVa[i])

Running(rt, lo, lev) ==
    /\ {p \in Frame : lev[p] = 2} = ({KRoot} \cup {rt[r] : r \in Space}) \ {NoFrame}
    /\ lo = {p \in Frame : lev[p] = Lost}
    /\ \A p \in Frame : lev[p] # Held

Good(lev, home) ==
    /\ Shape(free, table, lev, home) /\ KernelThere(table, lev)
    /\ kvmroot = KRoot
    /\ root \in [Space -> Frame \cup {NoFrame}] /\ sz \in [Space -> Va]
    /\ owned \in [Space -> SUBSET Va] /\ lost \subseteq Frame
    /\ outcome \in {"ok", "failed", "panic"}
    /\ \A r \in Space : root[r] # NoFrame => lev[root[r]] = 2 /\ root[r] # KRoot
    /\ outcome # "panic" => Running(root, lost, lev) /\ Mapped(table, root, owned)

IInv == \E lev, home : Good(lev, home)

-----------------------------------------------------------------------------
LEMMA PageTyped ==
    /\ Frame \subseteq Nat /\ NoFrame \notin Frame /\ KRoot \in Frame
    /\ IsFiniteSet(Frame) /\ Cardinality(Frame) = NFRAME /\ NFRAME \in Nat
<1>1. NFRAME \in Nat \ {0}
  BY KAssumption
<1>2. 1 \in Int /\ NFRAME \in Int
  BY <1>1
<1>3. IsFiniteSet(Frame) /\ Cardinality(Frame) = NFRAME
  BY <1>1, <1>2, FS_Interval DEF Frame
<1> QED
  BY <1>1, <1>3 DEF Frame, NoFrame, KRoot

LEMMA LevelsDiffer ==
    /\ Users = -1 /\ Free = -2 /\ Lost = -3 /\ Held = -4
    /\ \A p, q : Table(p) # None /\ User(p) # None /\ Kernel(p) # None /\ Table(p) # User(q)
                 /\ Table(p) # Kernel(q) /\ User(p) # Kernel(q)
    /\ \A p, q : Table(p) = Table(q) => p = q
    /\ \A p, q : User(p) = User(q) => p = q
    /\ \A p, q : Kernel(p) = Kernel(q) => p = q
BY DEF Users, Free, Lost, Held, Table, User, Kernel, None

LEMMA PointsAre ==
    ASSUME NEW l, NEW q \in Frame
    PROVE  /\ Points(l, q).to = q /\ Points(l, q) # None /\ Points(l, q).kind # "kernel"
           /\ Points(l, q) \in EntryType
BY PageTyped DEF Points, User, Table, None, EntryType

LEMMA EmptyTyped == None \in EntryType /\ Empty \in [Entry -> EntryType]
BY DEF None, EntryType, NoFrame, Empty

LEMMA KernelTyped ==
    ASSUME NEW v \in Va
    PROVE  Kernel(v) \in EntryType /\ Kernel(v).kind = "kernel" /\ Kernel(v) # None
<1>1. v \in Nat
  BY KAssumption DEF Va
<1> QED
  BY <1>1 DEF Kernel, EntryType, None

\* The kinds of entries a table of level l has.
LEMMA EntryFits ==
    ASSUME NEW t, NEW lev, NEW home, NEW p, NEW e, Fits(t, lev, home, p, e),
           t[p][e] # None, ~ (lev[p] = 0 /\ t[p][e].kind = "kernel")
    PROVE  \E q \in Frame :
              /\ t[p][e] = Points(lev[p], q) /\ t[p][e].to = q /\ lev[q] = lev[p] - 1
              /\ home[q] = <<p, e>> \/ (lev[p] = 2 /\ home[q] = <<KRoot, e>>)
BY PointsAre DEF Fits

LEMMA LowestIn ==
    ASSUME NEW S \in SUBSET Frame, S # {}
    PROVE  Lowest(S) \in S
<1> DEFINE R == OpToRel(<, Nat)
<1>1. IsWellFoundedOn(R, Nat)
  BY NatLessThanWellFounded
<1>2. \A x, y \in Nat : <<x, y>> \in R <=> x < y
  BY DEF OpToRel
<1>3. S \subseteq Nat
  BY PageTyped
<1> HIDE DEF R
<1>4. \E p \in S : \A q \in S : ~ (<<q, p>> \in R)
  BY <1>1, <1>3, WFMin
<1>5. \E p \in S : \A q \in S : p <= q
  <2>1. PICK p \in S : \A q \in S : ~ (<<q, p>> \in R)
    BY <1>4
  <2>2. ASSUME NEW q \in S
        PROVE  p <= q
    <3>1. p \in Nat /\ q \in Nat
      BY <1>3
    <3>2. ~ (q < p)
      BY <1>2, <2>1, <3>1
    <3> QED
      BY <3>1, <3>2
  <2> QED
    BY <2>2
<1> QED
  BY <1>5 DEF Lowest

\* A step down from a table of level 2 or 1.
LEMMA StepDown ==
    ASSUME NEW f, NEW t, NEW lev, NEW home, Shape(f, t, lev, home),
           NEW p \in Frame, lev[p] \in 1 .. 2, NEW e \in Entry
    PROVE  \/ t[p][e] = None /\ Step(t, p, e) = NoFrame
           \/ \E q \in Frame :
                 /\ Step(t, p, e) = q /\ t[p][e] = Table(q) /\ lev[q] = lev[p] - 1
                 /\ home[q] = <<p, e>> \/ (lev[p] = 2 /\ home[q] = <<KRoot, e>>)
<1>1. p # NoFrame
  BY PageTyped
<1>2. CASE t[p][e] = None
  BY <1>2 DEF Step
<1>3. CASE t[p][e] # None
  <2>1. Fits(t, lev, home, p, e)
    BY DEF Shape
  <2>2. lev[p] # 0
    OBVIOUS
  <2>3. PICK q \in Frame :
              /\ t[p][e] = Points(lev[p], q) /\ t[p][e].to = q /\ lev[q] = lev[p] - 1
              /\ home[q] = <<p, e>> \/ (lev[p] = 2 /\ home[q] = <<KRoot, e>>)
    BY <1>3, <2>1, <2>2, EntryFits
  <2>4. Step(t, p, e) = q /\ t[p][e] = Table(q)
    BY <1>1, <1>3, <2>2, <2>3 DEF Step, Points
  <2> QED
    BY <2>3, <2>4
<1> QED
  BY <1>2, <1>3

\* A walk ends nowhere or at a last table, whose home and whose table's home are the
\* indices of the address.
LEMMA ReachDown ==
    ASSUME NEW f, NEW t, NEW lev, NEW home, Shape(f, t, lev, home),
           NEW r \in Frame, lev[r] = 2, NEW v \in Va, Reach(t, r, v) # NoFrame
    PROVE  \E q \in Frame, a \in Frame :
              /\ Step(t, r, PX(2, v)) = q /\ Reach(t, r, v) = a /\ Step(t, q, PX(1, v)) = a
              /\ t[r][PX(2, v)] = Table(q) /\ t[q][PX(1, v)] = Table(a)
              /\ lev[q] = 1 /\ home[q][2] = PX(2, v)
              /\ lev[a] = 0 /\ home[a] = <<q, PX(1, v)>>
<1>1. PICK i, j : i = PX(2, v) /\ j = PX(1, v) /\ i \in Entry /\ j \in Entry
  BY PXDigits
<1>2. Step(t, r, i) # NoFrame
  BY <1>1 DEF Reach, Step
<1>3. lev[r] \in 1 .. 2
  OBVIOUS
<1>4. PICK q \in Frame :
         /\ Step(t, r, i) = q /\ t[r][i] = Table(q) /\ lev[q] = lev[r] - 1
         /\ home[q] = <<r, i>> \/ (lev[r] = 2 /\ home[q] = <<KRoot, i>>)
  BY <1>1, <1>2, <1>3, StepDown
<1>5. lev[q] = 1 /\ home[q][2] = i
  BY <1>4
<1>6. Step(t, q, j) # NoFrame
  BY <1>1, <1>4 DEF Reach
<1>7. lev[q] \in 1 .. 2
  BY <1>5
<1>8. PICK a \in Frame :
         /\ Step(t, q, j) = a /\ t[q][j] = Table(a) /\ lev[a] = lev[q] - 1
         /\ home[a] = <<q, j>> \/ (lev[q] = 2 /\ home[a] = <<KRoot, j>>)
  BY <1>1, <1>6, <1>7, StepDown
<1>9. lev[a] = 0 /\ home[a] = <<q, j>>
  BY <1>5, <1>8
<1>10. Reach(t, r, v) = a
  BY <1>1, <1>4, <1>8 DEF Reach
<1> QED
  BY <1>1, <1>4, <1>5, <1>8, <1>9, <1>10

\* Two addresses that lead to the same slot are the same address.
LEMMA SlotUnique ==
    ASSUME NEW f, NEW t, NEW lev, NEW home, Shape(f, t, lev, home),
           NEW r \in Frame, lev[r] = 2, NEW v \in Va, Reach(t, r, v) # NoFrame,
           NEW s \in Frame, lev[s] = 2, NEW w \in Va, Reach(t, s, w) = Reach(t, r, v),
           PX(0, v) = PX(0, w)
    PROVE  v = w
<1>1. PICK q \in Frame, a \in Frame :
         /\ Reach(t, r, v) = a /\ home[q][2] = PX(2, v) /\ home[a] = <<q, PX(1, v)>>
  BY ReachDown
<1>2. PICK p \in Frame, b \in Frame :
         /\ Reach(t, s, w) = b /\ home[p][2] = PX(2, w) /\ home[b] = <<p, PX(1, w)>>
  <2>1. Reach(t, s, w) # NoFrame
    OBVIOUS
  <2> QED
    BY <2>1, ReachDown
<1>3. PX(2, v) = PX(2, w) /\ PX(1, v) = PX(1, w)
  BY <1>1, <1>2
<1> QED
  BY <1>3, PXUnique

\* Tables that gain entries for empty tables only translate as before.
LEMMA SameTables ==
    ASSUME NEW f, NEW t, NEW lev, NEW home, Shape(f, t, lev, home), NEW t2,
           \A p \in Frame, e \in Entry : lev[p] \in 1 .. 2 =>
               \/ t2[p][e] = t[p][e]
               \/ t[p][e] = None /\ \E x \in Frame : t2[p][e] = Table(x) /\ t2[x] = Empty,
           \A p \in Frame : lev[p] = 0 => t2[p] = t[p]
    PROVE  Same(t, t2, lev)
<1> SUFFICES ASSUME NEW r \in Frame, NEW v \in Va, lev[r] = 2
             PROVE  /\ Tr(t2, r, v) = Tr(t, r, v)
                    /\ Reach(t, r, v) # NoFrame => Reach(t2, r, v) = Reach(t, r, v)
  BY DEF Same
<1>1. PICK i, j, k : /\ i = PX(2, v) /\ j = PX(1, v) /\ k = PX(0, v)
                     /\ i \in Entry /\ j \in Entry /\ k \in Entry
  BY PXDigits
<1>2. \A e \in Entry : Empty[e] = None
  BY DEF Empty
<1>3. \A x : Table(x).to = x /\ Table(x) # None
  BY DEF Table, None
<1>4. \A x \in Frame : x # NoFrame
  BY PageTyped
<1>5. ASSUME NEW p \in Frame, lev[p] \in 1 .. 2, NEW e \in Entry
      PROVE  \/ t2[p][e] = t[p][e]
             \/ t[p][e] = None /\ \E x \in Frame : t2[p][e] = Table(x) /\ t2[x] = Empty
  BY <1>5
<1>6. CASE Reach(t, r, v) # NoFrame
  <2>1. PICK q \in Frame, a \in Frame :
           /\ Step(t, r, i) = q /\ Reach(t, r, v) = a /\ Step(t, q, j) = a
           /\ t[r][i] = Table(q) /\ t[q][j] = Table(a) /\ lev[q] = 1 /\ lev[a] = 0
    BY <1>1, <1>6, ReachDown
  <2>2. t2[r][i] = Table(q) /\ t2[q][j] = Table(a)
    BY <1>1, <1>3, <1>5, <2>1
  <2>3. Reach(t2, r, v) = a
    BY <1>1, <1>3, <1>4, <2>2 DEF Reach, Step
  <2>4. t2[a] = t[a]
    BY <2>1
  <2> QED
    BY <1>1, <2>1, <2>3, <2>4 DEF Tr
<1>7. CASE Reach(t, r, v) = NoFrame
  <2>1. Tr(t, r, v) = None
    BY <1>7 DEF Tr
  <2>2. Tr(t2, r, v) = None
    <3>1. CASE t2[r][i] = None
      BY <1>1, <3>1 DEF Tr, Reach, Step
    <3>2. ASSUME NEW x \in Frame, t2[r][i] = Table(x), t2[x] = Empty
          PROVE  Tr(t2, r, v) = None
      <4>1. Step(t2, r, i) = x
        BY <1>3, <1>4, <3>2 DEF Step
      <4>2. Step(t2, x, j) = NoFrame
        BY <1>1, <1>2, <3>2 DEF Step
      <4> QED
        BY <1>1, <4>1, <4>2 DEF Tr, Reach
    <3>3. CASE t2[r][i] = t[r][i] /\ t[r][i] # None
      <4>1. lev[r] \in 1 .. 2
        OBVIOUS
      <4>2. PICK q \in Frame : Step(t, r, i) = q /\ t[r][i] = Table(q) /\ lev[q] = lev[r] - 1
        BY <1>1, <3>3, <4>1, StepDown
      <4>3. lev[q] \in 1 .. 2 /\ Step(t2, r, i) = q
        BY <1>3, <1>4, <3>3, <4>2 DEF Step
      <4>4. t[q][j] = None
        <5>1. Step(t, q, j) = NoFrame
          BY <1>1, <1>7, <4>2 DEF Reach
        <5>2. \/ t[q][j] = None
              \/ \E a \in Frame : Step(t, q, j) = a
          BY <1>1, <4>3, StepDown
        <5> QED
          BY <1>4, <5>1, <5>2
      <4>5. CASE t2[q][j] = None
        <5>1. Step(t2, q, j) = NoFrame
          BY <4>5 DEF Step
        <5> QED
          BY <1>1, <4>3, <5>1 DEF Tr, Reach
      <4>6. ASSUME NEW x \in Frame, t2[q][j] = Table(x), t2[x] = Empty
            PROVE  Tr(t2, r, v) = None
        <5>1. Reach(t2, r, v) = x
          BY <1>1, <1>3, <1>4, <4>3, <4>6 DEF Reach, Step
        <5>2. t2[x][k] = None
          BY <1>1, <1>2, <4>6
        <5> QED
          BY <1>1, <5>1, <5>2 DEF Tr
      <4> QED
        BY <1>1, <1>5, <4>3, <4>4, <4>5, <4>6
    <3>4. lev[r] \in 1 .. 2
      OBVIOUS
    <3> QED
      BY <1>1, <1>5, <3>1, <3>2, <3>3, <3>4
  <2> QED
    BY <1>7, <2>1, <2>2
<1> QED
  BY <1>6, <1>7

-----------------------------------------------------------------------------
(***************************************************************************)
(* What happens to pages and slots                                         *)
(***************************************************************************)
Set(g, x, y)    == [g EXCEPT ![x] = y]
Put(t, a, e, x) == [t EXCEPT ![a] = [t[a] EXCEPT ![e] = x]]

LEMMA SetIs ==
    ASSUME NEW g, NEW x \in Frame, DOMAIN g = Frame, NEW y
    PROVE  Set(g, x, y)[x] = y /\ \A q \in Frame : q # x => Set(g, x, y)[q] = g[q]
BY DEF Set

\* kalloc: a free page is held, and empty.
LEMMA TakenShape ==
    ASSUME NEW f, NEW t, NEW lev, NEW home, Shape(f, t, lev, home),
           NEW p \in Frame, lev[p] = Free, NEW f2, f2 = f \ {p},
           NEW t2, t2 = Set(t, p, Empty), NEW lev2, lev2 = Set(lev, p, Held)
    PROVE  Shape(f2, t2, lev2, home) /\ Same(t, t2, lev)
<1> USE DEF Set, Put
<1>1. /\ lev \in [Frame -> -4 .. 2] /\ home \in [Frame -> Slot]
      /\ t \in [Frame -> [Entry -> EntryType]] /\ f = {q \in Frame : lev[q] = Free}
      /\ KRoot \in Frame /\ lev[KRoot] = 2
      /\ \A q \in Frame, e \in Entry : lev[q] \in 0 .. 2 => Fits(t, lev, home, q, e)
      /\ \A q \in Frame : lev[q] \in -1 .. 1 =>
            /\ lev[home[q][1]] = lev[q] + 1
            /\ t[home[q][1]][home[q][2]] = Points(lev[q] + 1, q)
      /\ \A q \in Frame, e \in Entry :
            lev[q] = 2 /\ t[KRoot][e] # None => t[q][e] = t[KRoot][e]
  BY DEF Shape
<1>2. /\ lev2 \in [Frame -> -4 .. 2] /\ t2 \in [Frame -> [Entry -> EntryType]]
      /\ f2 = {q \in Frame : lev2[q] = Free} /\ lev2[KRoot] = 2
  BY <1>1, EmptyTyped DEF Free, Held
<1>3. \A q \in Frame : q # p => lev2[q] = lev[q] /\ t2[q] = t[q]
  BY <1>1
<1>4. lev[p] = -2 /\ lev2[p] = -4
  BY <1>1 DEF Free, Held
<1>5. ASSUME NEW q \in Frame, NEW e \in Entry, lev2[q] \in 0 .. 2
      PROVE  Fits(t2, lev2, home, q, e)
  <2>1. q # p /\ lev2[q] = lev[q] /\ t2[q] = t[q] /\ Fits(t, lev, home, q, e)
    BY <1>1, <1>3, <1>4, <1>5
  <2>2. \A x \in Frame : lev[x] = lev[q] - 1 => lev2[x] = lev[x]
    BY <1>3, <1>4, <1>5, <2>1
  <2> QED
    BY <2>1, <2>2 DEF Fits
<1>6. ASSUME NEW q \in Frame, lev2[q] \in -1 .. 1
      PROVE  /\ lev2[home[q][1]] = lev2[q] + 1
             /\ t2[home[q][1]][home[q][2]] = Points(lev2[q] + 1, q)
  <2>1. q # p /\ lev2[q] = lev[q]
    BY <1>3, <1>4, <1>6
  <2>2. home[q][1] \in Frame
    BY <1>1 DEF Slot
  <2>3. home[q][1] # p
    BY <1>1, <1>4, <1>6, <2>1
  <2> QED
    BY <1>1, <1>3, <1>6, <2>1, <2>2, <2>3
<1>7. \A q \in Frame, e \in Entry :
         lev2[q] = 2 /\ t2[KRoot][e] # None => t2[q][e] = t2[KRoot][e]
  BY <1>1, <1>3, <1>4
<1>8. Same(t, t2, lev)
  <2>1. \A q \in Frame, e \in Entry : lev[q] \in 1 .. 2 =>
            \/ t2[q][e] = t[q][e]
            \/ t[q][e] = None /\ \E x \in Frame : t2[q][e] = Table(x) /\ t2[x] = Empty
    BY <1>3, <1>4
  <2>2. \A q \in Frame : lev[q] = 0 => t2[q] = t[q]
    BY <1>3, <1>4
  <2>3. Shape(f, t, lev, home)
    OBVIOUS
  <2> QED
    BY ONLY <2>1, <2>2, <2>3, SameTables
<1> QED
  BY <1>1, <1>2, <1>5, <1>6, <1>7, <1>8 DEF Shape

\* A slot without an entry gets one for an empty page that is held.  The kernel's own
\* table gets entries only while it is the only one.
LEMMA TableShape ==
    ASSUME NEW f, NEW t, NEW lev, NEW home, Shape(f, t, lev, home),
           NEW a \in Frame, NEW e \in Entry, lev[a] \in 1 .. 2, t[a][e] = None,
           a = KRoot => \A q \in Frame : lev[q] = 2 => q = KRoot,
           NEW p \in Frame, lev[p] = Held, t[p] = Empty,
           NEW t2, t2 = Put(t, a, e, Table(p)),
           NEW lev2, lev2 = Set(lev, p, lev[a] - 1),
           NEW home2, home2 = Set(home, p, <<a, e>>)
    PROVE  Shape(f, t2, lev2, home2) /\ Same(t, t2, lev)
<1> USE DEF Set, Put
<1>1. /\ lev \in [Frame -> -4 .. 2] /\ home \in [Frame -> Slot]
      /\ t \in [Frame -> [Entry -> EntryType]] /\ f = {q \in Frame : lev[q] = Free}
      /\ KRoot \in Frame /\ lev[KRoot] = 2
      /\ \A q \in Frame, k \in Entry : lev[q] \in 0 .. 2 => Fits(t, lev, home, q, k)
      /\ \A q \in Frame : lev[q] \in -1 .. 1 =>
            /\ lev[home[q][1]] = lev[q] + 1
            /\ t[home[q][1]][home[q][2]] = Points(lev[q] + 1, q)
      /\ \A q \in Frame, k \in Entry :
            lev[q] = 2 /\ t[KRoot][k] # None => t[q][k] = t[KRoot][k]
  BY DEF Shape
<1>2. lev[p] = -4 /\ lev2[p] = lev[a] - 1 /\ a # p /\ Free = -2
  BY <1>1 DEF Held, Free
<1>3. Table(p) = Points(lev[a], p) /\ Table(p) \in EntryType /\ Table(p) # None
  BY PointsAre DEF Points
<1>4. /\ \A q \in Frame : q # p => lev2[q] = lev[q] /\ home2[q] = home[q]
      /\ \A q \in Frame : q # a => t2[q] = t[q]
      /\ \A k \in Entry : k # e => t2[a][k] = t[a][k]
      /\ t2[a][e] = Table(p) /\ home2[p] = <<a, e>>
  BY <1>1
<1>5. /\ lev2 \in [Frame -> -4 .. 2] /\ home2 \in [Frame -> Slot]
      /\ t2 \in [Frame -> [Entry -> EntryType]]
  <2>1. lev2 \in [Frame -> -4 .. 2] /\ home2 \in [Frame -> Slot]
    BY <1>1, <1>2 DEF Slot
  <2>2. t2 \in [Frame -> [Entry -> EntryType]]
    BY <1>1, <1>3
  <2> QED
    BY <2>1, <2>2
<1>6. f = {q \in Frame : lev2[q] = Free} /\ lev2[KRoot] = 2
  BY <1>1, <1>2, <1>4
<1>7. ASSUME NEW q \in Frame, NEW k \in Entry, lev2[q] \in 0 .. 2
      PROVE  Fits(t2, lev2, home2, q, k)
  <2>1. CASE q = p
    <3>1. t2[p][k] = None
      BY <1>2, <1>4 DEF Empty
    <3> QED
      BY <2>1, <3>1 DEF Fits
  <2>2. CASE q = a /\ k = e
    BY <1>2, <1>3, <1>4, <2>2 DEF Fits
  <2>3. CASE q # p /\ ~ (q = a /\ k = e)
    <3>1. lev2[q] = lev[q] /\ t2[q][k] = t[q][k] /\ Fits(t, lev, home, q, k)
      BY <1>1, <1>4, <1>7, <2>3
    <3>2. \A x \in Frame : lev[x] = lev[q] - 1 => x # p /\ lev2[x] = lev[x] /\ home2[x] = home[x]
      BY <1>2, <1>4, <1>7, <3>1
    <3> QED
      BY <3>1, <3>2 DEF Fits
  <2> QED
    BY <2>1, <2>2, <2>3
<1>8. ASSUME NEW q \in Frame, lev2[q] \in -1 .. 1
      PROVE  /\ lev2[home2[q][1]] = lev2[q] + 1
             /\ t2[home2[q][1]][home2[q][2]] = Points(lev2[q] + 1, q)
  <2>1. CASE q = p
    <3>1. home2[q][1] = a /\ home2[q][2] = e /\ lev2[a] = lev[a]
      BY <1>2, <1>4, <2>1
    <3>2. lev2[q] + 1 = lev[a]
      BY <1>2, <2>1
    <3> QED
      BY <1>3, <1>4, <2>1, <3>1, <3>2
  <2>2. CASE q # p
    <3>1. PICK x, k : x = home[q][1] /\ k = home[q][2] /\ x \in Frame /\ k \in Entry
      BY <1>1 DEF Slot
    <3>2. lev2[q] = lev[q] /\ home2[q][1] = x /\ home2[q][2] = k
      BY <1>4, <2>2, <3>1
    <3>3. lev[x] = lev[q] + 1 /\ t[x][k] = Points(lev[q] + 1, q)
      BY <1>1, <1>8, <3>1, <3>2
    <3>4. x # p
      BY <1>2, <1>8, <3>2, <3>3
    <3>5. ~ (x = a /\ k = e)
      BY <3>3, PointsAre
    <3> QED
      BY <1>4, <3>1, <3>2, <3>3, <3>4, <3>5
  <2> QED
    BY <2>1, <2>2
<1>9. ASSUME NEW q \in Frame, NEW k \in Entry, lev2[q] = 2, t2[KRoot][k] # None
      PROVE  t2[q][k] = t2[KRoot][k]
  <2>1. lev[q] = 2
    BY <1>2, <1>4, <1>9
  <2>2. CASE a = KRoot
    BY <2>1, <2>2
  <2>3. CASE a # KRoot
    BY <1>1, <1>4, <1>9, <2>1, <2>3
  <2> QED
    BY <2>2, <2>3
<1>10. Same(t, t2, lev)
  <2>1. \A q \in Frame, k \in Entry : lev[q] \in 1 .. 2 =>
            \/ t2[q][k] = t[q][k]
            \/ t[q][k] = None /\ \E x \in Frame : t2[q][k] = Table(x) /\ t2[x] = Empty
    BY <1>2, <1>4
  <2>2. \A q \in Frame : lev[q] = 0 => t2[q] = t[q]
    BY <1>4
  <2>3. Shape(f, t, lev, home)
    OBVIOUS
  <2> QED
    BY ONLY <2>1, <2>2, <2>3, SameTables
<1>11. Shape(f, t2, lev2, home2)
  BY ONLY <1>5, <1>6, <1>7, <1>8, <1>9, PageTyped DEF Shape
<1> QED
  BY <1>10, <1>11

\* An entry x of a last table a changes the translations through that slot, no others.
LEMMA LeafTr ==
    ASSUME NEW f, NEW t, NEW lev, NEW home, Shape(f, t, lev, home),
           NEW a \in Frame, NEW e \in Entry, lev[a] = 0, NEW x,
           NEW t2, t2 = Put(t, a, e, x),
           NEW r \in Frame, lev[r] = 2, NEW v \in Va
    PROVE  /\ Reach(t2, r, v) = Reach(t, r, v)
           /\ Tr(t2, r, v) = IF Reach(t, r, v) = a /\ PX(0, v) = e THEN x ELSE Tr(t, r, v)
<1> USE DEF Set, Put
<1>1. PICK i, j, k : /\ i = PX(2, v) /\ j = PX(1, v) /\ k = PX(0, v)
                     /\ i \in Entry /\ j \in Entry /\ k \in Entry
  BY PXDigits
<1>2. t \in [Frame -> [Entry -> EntryType]]
  BY DEF Shape
<1>3. \A q \in Frame : q # a => t2[q] = t[q]
  BY <1>2
<1>4. a # NoFrame /\ t2[a] = [t[a] EXCEPT ![e] = x] /\ t2[a][e] = x
      /\ \A l \in Entry : l # e => t2[a][l] = t[a][l]
  BY <1>2, PageTyped
<1>5. r # a /\ t2[r] = t[r]
  BY <1>3
<1>6. \/ Step(t, r, i) = NoFrame
      \/ \E q \in Frame : Step(t, r, i) = q /\ lev[q] = 1
  <2>1. lev[r] \in 1 .. 2
    OBVIOUS
  <2>2. \/ Step(t, r, i) = NoFrame
        \/ \E q \in Frame : Step(t, r, i) = q /\ lev[q] = lev[r] - 1
    BY <1>1, <2>1, StepDown
  <2> QED
    BY <2>2
<1>7. Step(t2, r, i) = Step(t, r, i)
  BY <1>5 DEF Step
<1>8. Reach(t2, r, v) = Reach(t, r, v)
  <2>1. CASE Step(t, r, i) = NoFrame
    BY <1>1, <1>7, <2>1 DEF Reach, Step
  <2>2. ASSUME NEW q \in Frame, Step(t, r, i) = q, lev[q] = 1
        PROVE  Reach(t2, r, v) = Reach(t, r, v)
    <3>1. t2[q] = t[q]
      BY <1>3, <2>2
    <3> QED
      BY <1>1, <1>7, <2>2, <3>1 DEF Reach, Step
  <2> QED
    BY <1>6, <2>1, <2>2
<1>9. CASE Reach(t, r, v) = a
  BY <1>1, <1>4, <1>8, <1>9 DEF Tr
<1>10. CASE Reach(t, r, v) = NoFrame
  BY <1>4, <1>8, <1>10 DEF Tr
<1>11. CASE Reach(t, r, v) # NoFrame /\ Reach(t, r, v) # a
  <2>1. Reach(t, r, v) \in Frame
    BY <1>11, ReachDown
  <2> QED
    BY <1>1, <1>3, <1>8, <1>11, <2>1 DEF Tr
<1> QED
  BY <1>8, <1>9, <1>10, <1>11

\* A slot of a last table without an entry gets one for a page that is held.
LEMMA UserShape ==
    ASSUME NEW f, NEW t, NEW lev, NEW home, Shape(f, t, lev, home),
           NEW a \in Frame, NEW e \in Entry, lev[a] = 0, t[a][e] = None,
           NEW p \in Frame, lev[p] = Held,
           NEW t2, t2 = Put(t, a, e, User(p)),
           NEW lev2, lev2 = Set(lev, p, Users),
           NEW home2, home2 = Set(home, p, <<a, e>>)
    PROVE  Shape(f, t2, lev2, home2)
<1> USE DEF Set, Put
<1>1. /\ lev \in [Frame -> -4 .. 2] /\ home \in [Frame -> Slot]
      /\ t \in [Frame -> [Entry -> EntryType]] /\ f = {q \in Frame : lev[q] = Free}
      /\ KRoot \in Frame /\ lev[KRoot] = 2
      /\ \A q \in Frame, k \in Entry : lev[q] \in 0 .. 2 => Fits(t, lev, home, q, k)
      /\ \A q \in Frame : lev[q] \in -1 .. 1 =>
            /\ lev[home[q][1]] = lev[q] + 1
            /\ t[home[q][1]][home[q][2]] = Points(lev[q] + 1, q)
      /\ \A q \in Frame, k \in Entry :
            lev[q] = 2 /\ t[KRoot][k] # None => t[q][k] = t[KRoot][k]
  BY DEF Shape
<1>2. lev[p] = -4 /\ lev2[p] = -1 /\ a # p /\ Free = -2 /\ a # KRoot
  BY <1>1 DEF Held, Free, Users
<1>3. User(p) = Points(lev[a], p) /\ User(p) \in EntryType /\ User(p) # None
  <2>1. User(p) = Points(0, p)
    BY DEF Points
  <2> QED
    BY <2>1, PointsAre
<1>4. /\ \A q \in Frame : q # p => lev2[q] = lev[q] /\ home2[q] = home[q]
      /\ \A q \in Frame : q # a => t2[q] = t[q]
      /\ \A k \in Entry : k # e => t2[a][k] = t[a][k]
      /\ t2[a][e] = User(p) /\ home2[p] = <<a, e>>
  BY <1>1
<1>5. /\ lev2 \in [Frame -> -4 .. 2] /\ home2 \in [Frame -> Slot]
      /\ t2 \in [Frame -> [Entry -> EntryType]]
  <2>1. lev2 \in [Frame -> -4 .. 2] /\ home2 \in [Frame -> Slot]
    BY <1>1, <1>2 DEF Slot, Users
  <2>2. t2 \in [Frame -> [Entry -> EntryType]]
    BY <1>1, <1>3
  <2> QED
    BY <2>1, <2>2
<1>6. f = {q \in Frame : lev2[q] = Free} /\ lev2[KRoot] = 2
  BY <1>1, <1>2, <1>4
<1>7. ASSUME NEW q \in Frame, NEW k \in Entry, lev2[q] \in 0 .. 2
      PROVE  Fits(t2, lev2, home2, q, k)
  <2>0. q # p
    BY <1>2, <1>7
  <2>1. CASE q = a /\ k = e
    BY <1>2, <1>3, <1>4, <2>1 DEF Fits
  <2>2. CASE ~ (q = a /\ k = e)
    <3>1. lev2[q] = lev[q] /\ t2[q][k] = t[q][k] /\ Fits(t, lev, home, q, k)
      BY <1>1, <1>4, <1>7, <2>0, <2>2
    <3>2. \A x \in Frame : lev[x] = lev[q] - 1 => x # p /\ lev2[x] = lev[x] /\ home2[x] = home[x]
      BY <1>2, <1>4, <1>7, <3>1
    <3> QED
      BY <3>1, <3>2 DEF Fits
  <2> QED
    BY <2>1, <2>2
<1>8. ASSUME NEW q \in Frame, lev2[q] \in -1 .. 1
      PROVE  /\ lev2[home2[q][1]] = lev2[q] + 1
             /\ t2[home2[q][1]][home2[q][2]] = Points(lev2[q] + 1, q)
  <2>1. CASE q = p
    <3>1. home2[q][1] = a /\ home2[q][2] = e /\ lev2[a] = lev[a] /\ lev2[q] + 1 = lev[a]
      BY <1>2, <1>4, <2>1
    <3> QED
      BY <1>3, <1>4, <2>1, <3>1
  <2>2. CASE q # p
    <3>1. PICK x, k : x = home[q][1] /\ k = home[q][2] /\ x \in Frame /\ k \in Entry
      BY <1>1 DEF Slot
    <3>2. lev2[q] = lev[q] /\ home2[q][1] = x /\ home2[q][2] = k
      BY <1>4, <2>2, <3>1
    <3>3. lev[x] = lev[q] + 1 /\ t[x][k] = Points(lev[q] + 1, q)
      BY <1>1, <1>8, <3>1, <3>2
    <3>4. x # p
      BY <1>2, <1>8, <3>2, <3>3
    <3>5. ~ (x = a /\ k = e)
      BY <3>3, PointsAre
    <3> QED
      BY <1>4, <3>1, <3>2, <3>3, <3>4, <3>5
  <2> QED
    BY <2>1, <2>2
<1>9. ASSUME NEW q \in Frame, NEW k \in Entry, lev2[q] = 2, t2[KRoot][k] # None
      PROVE  t2[q][k] = t2[KRoot][k]
  <2>1. lev[q] = 2 /\ q # a
    BY <1>2, <1>4, <1>9
  <2> QED
    BY <1>1, <1>2, <1>4, <1>9, <2>1
<1> QED
  BY ONLY <1>5, <1>6, <1>7, <1>8, <1>9, PageTyped DEF Shape

\* Such a slot gets an entry of the kernel's identity mapping.
LEMMA KernelShape ==
    ASSUME NEW f, NEW t, NEW lev, NEW home, Shape(f, t, lev, home),
           NEW a \in Frame, NEW e \in Entry, lev[a] = 0, t[a][e] = None, NEW v \in Va,
           NEW t2, t2 = Put(t, a, e, Kernel(v))
    PROVE  Shape(f, t2, lev, home)
<1> USE DEF Set, Put
<1>1. /\ lev \in [Frame -> -4 .. 2] /\ home \in [Frame -> Slot]
      /\ t \in [Frame -> [Entry -> EntryType]] /\ f = {q \in Frame : lev[q] = Free}
      /\ KRoot \in Frame /\ lev[KRoot] = 2
      /\ \A q \in Frame, k \in Entry : lev[q] \in 0 .. 2 => Fits(t, lev, home, q, k)
      /\ \A q \in Frame : lev[q] \in -1 .. 1 =>
            /\ lev[home[q][1]] = lev[q] + 1
            /\ t[home[q][1]][home[q][2]] = Points(lev[q] + 1, q)
      /\ \A q \in Frame, k \in Entry :
            lev[q] = 2 /\ t[KRoot][k] # None => t[q][k] = t[KRoot][k]
  BY DEF Shape
<1>2. a # KRoot
  BY <1>1
<1>3. Kernel(v) \in EntryType /\ Kernel(v).kind = "kernel"
  BY KernelTyped
<1>4. /\ \A q \in Frame : q # a => t2[q] = t[q]
      /\ \A k \in Entry : k # e => t2[a][k] = t[a][k]
      /\ t2[a][e] = Kernel(v)
  BY <1>1
<1>5. t2 \in [Frame -> [Entry -> EntryType]]
  BY <1>1, <1>3
<1>6. ASSUME NEW q \in Frame, NEW k \in Entry, lev[q] \in 0 .. 2
      PROVE  Fits(t2, lev, home, q, k)
  <2>1. CASE q = a /\ k = e
    BY <1>3, <1>4, <2>1 DEF Fits
  <2>2. CASE ~ (q = a /\ k = e)
    <3>1. t2[q][k] = t[q][k] /\ Fits(t, lev, home, q, k)
      BY <1>1, <1>4, <1>6, <2>2
    <3> QED
      BY <3>1 DEF Fits
  <2> QED
    BY <2>1, <2>2
<1>7. ASSUME NEW q \in Frame, lev[q] \in -1 .. 1
      PROVE  /\ lev[home[q][1]] = lev[q] + 1
             /\ t2[home[q][1]][home[q][2]] = Points(lev[q] + 1, q)
  <2>1. PICK x, k : x = home[q][1] /\ k = home[q][2] /\ x \in Frame /\ k \in Entry
    BY <1>1 DEF Slot
  <2>2. lev[x] = lev[q] + 1 /\ t[x][k] = Points(lev[q] + 1, q)
    BY <1>1, <1>7, <2>1
  <2>3. ~ (x = a /\ k = e)
    BY <2>2, PointsAre
  <2> QED
    BY <1>4, <2>1, <2>2, <2>3
<1>8. ASSUME NEW q \in Frame, NEW k \in Entry, lev[q] = 2, t2[KRoot][k] # None
      PROVE  t2[q][k] = t2[KRoot][k]
  <2>1. q # a
    BY <1>8
  <2> QED
    BY <1>1, <1>2, <1>4, <1>8, <2>1
<1>9. f = {q \in Frame : lev[q] = Free} /\ lev[KRoot] = 2 /\ lev \in [Frame -> -4 .. 2]
      /\ home \in [Frame -> Slot]
  BY <1>1
<1> QED
  BY ONLY <1>5, <1>6, <1>7, <1>8, <1>9, PageTyped DEF Shape

\* A page that is held is given back, or lost.
LEMMA ReleaseShape ==
    ASSUME NEW f, NEW t, NEW lev, NEW home, Shape(f, t, lev, home),
           NEW p \in Frame, lev[p] = Held, NEW n \in {Free, Lost},
           NEW lev2, lev2 = Set(lev, p, n),
           NEW f2, f2 = IF n = Free THEN f \cup {p} ELSE f
    PROVE  Shape(f2, t, lev2, home)
<1> USE DEF Set, Put
<1>1. /\ lev \in [Frame -> -4 .. 2] /\ home \in [Frame -> Slot]
      /\ t \in [Frame -> [Entry -> EntryType]] /\ f = {q \in Frame : lev[q] = Free}
      /\ KRoot \in Frame /\ lev[KRoot] = 2
      /\ \A q \in Frame, k \in Entry : lev[q] \in 0 .. 2 => Fits(t, lev, home, q, k)
      /\ \A q \in Frame : lev[q] \in -1 .. 1 =>
            /\ lev[home[q][1]] = lev[q] + 1
            /\ t[home[q][1]][home[q][2]] = Points(lev[q] + 1, q)
      /\ \A q \in Frame, k \in Entry :
            lev[q] = 2 /\ t[KRoot][k] # None => t[q][k] = t[KRoot][k]
  BY DEF Shape
<1>2. lev[p] = -4 /\ lev2[p] = n /\ n \in -3 .. -2 /\ Free = -2 /\ Lost = -3
  BY <1>1 DEF Held, Free, Lost
<1>3. \A q \in Frame : q # p => lev2[q] = lev[q]
  BY <1>1
<1>4. /\ lev2 \in [Frame -> -4 .. 2] /\ lev2[KRoot] = 2
  BY <1>1, <1>2, <1>3
<1>5. f2 = {q \in Frame : lev2[q] = Free}
  BY <1>1, <1>2, <1>3
<1>6. ASSUME NEW q \in Frame, NEW k \in Entry, lev2[q] \in 0 .. 2
      PROVE  Fits(t, lev2, home, q, k)
  <2>1. lev2[q] = lev[q] /\ Fits(t, lev, home, q, k)
    BY <1>1, <1>2, <1>3, <1>6
  <2>2. \A x \in Frame : lev[x] = lev[q] - 1 => lev2[x] = lev[x]
    BY <1>2, <1>3, <1>6, <2>1
  <2> QED
    BY <2>1, <2>2 DEF Fits
<1>7. ASSUME NEW q \in Frame, lev2[q] \in -1 .. 1
      PROVE  /\ lev2[home[q][1]] = lev2[q] + 1
             /\ t[home[q][1]][home[q][2]] = Points(lev2[q] + 1, q)
  <2>1. PICK x, k : x = home[q][1] /\ k = home[q][2] /\ x \in Frame /\ k \in Entry
    BY <1>1 DEF Slot
  <2>2. lev2[q] = lev[q]
    BY <1>2, <1>3, <1>7
  <2>3. lev[x] = lev[q] + 1 /\ t[x][k] = Points(lev[q] + 1, q)
    BY <1>1, <1>7, <2>1, <2>2
  <2>4. lev2[x] = lev[x]
    BY <1>2, <1>3, <1>7, <2>1, <2>2, <2>3
  <2> QED
    BY <2>1, <2>2, <2>3, <2>4
<1>8. ASSUME NEW q \in Frame, NEW k \in Entry, lev2[q] = 2, t[KRoot][k] # None
      PROVE  t[q][k] = t[KRoot][k]
  BY <1>1, <1>2, <1>3, <1>8
<1>9. t \in [Frame -> [Entry -> EntryType]] /\ home \in [Frame -> Slot]
  BY <1>1
<1> QED
  BY ONLY <1>4, <1>5, <1>6, <1>7, <1>8, <1>9, PageTyped DEF Shape

\* A page that is held becomes a top-level table that shares all tables of the kernel's.
LEMMA RootShape ==
    ASSUME NEW f, NEW t, NEW lev, NEW home, Shape(f, t, lev, home),
           NEW p \in Frame, lev[p] = Held,
           NEW t2, t2 = Set(t, p, t[KRoot]), NEW lev2, lev2 = Set(lev, p, 2)
    PROVE  /\ Shape(f, t2, lev2, home) /\ Same(t, t2, lev)
           /\ \A v \in Va : Tr(t2, p, v) = Tr(t, KRoot, v)
<1> USE DEF Set, Put
<1>1. /\ lev \in [Frame -> -4 .. 2] /\ home \in [Frame -> Slot]
      /\ t \in [Frame -> [Entry -> EntryType]] /\ f = {q \in Frame : lev[q] = Free}
      /\ KRoot \in Frame /\ lev[KRoot] = 2
      /\ \A q \in Frame, k \in Entry : lev[q] \in 0 .. 2 => Fits(t, lev, home, q, k)
      /\ \A q \in Frame : lev[q] \in -1 .. 1 =>
            /\ lev[home[q][1]] = lev[q] + 1
            /\ t[home[q][1]][home[q][2]] = Points(lev[q] + 1, q)
      /\ \A q \in Frame, k \in Entry :
            lev[q] = 2 /\ t[KRoot][k] # None => t[q][k] = t[KRoot][k]
  BY DEF Shape
<1>2. lev[p] = -4 /\ lev2[p] = 2 /\ p # KRoot /\ Free = -2
  BY <1>1 DEF Held, Free
<1>3. /\ \A q \in Frame : q # p => lev2[q] = lev[q] /\ t2[q] = t[q]
      /\ t2[p] = t[KRoot]
  BY <1>1
<1>4. /\ lev2 \in [Frame -> -4 .. 2] /\ lev2[KRoot] = 2
      /\ t2 \in [Frame -> [Entry -> EntryType]]
  BY <1>1, <1>2, <1>3
<1>5. f = {q \in Frame : lev2[q] = Free}
  BY <1>1, <1>2, <1>3
<1>6. ASSUME NEW q \in Frame, NEW k \in Entry, lev2[q] \in 0 .. 2
      PROVE  Fits(t2, lev2, home, q, k)
  <2>1. \A x \in Frame : lev[x] \in -1 .. 1 => lev2[x] = lev[x]
    BY <1>2, <1>3
  <2>2. CASE q # p
    <3>1. lev2[q] = lev[q] /\ t2[q] = t[q] /\ Fits(t, lev, home, q, k)
      BY <1>1, <1>3, <1>6, <2>2
    <3>2. lev[q] - 1 \in -1 .. 1
      BY <1>6, <3>1
    <3> QED
      BY <2>1, <3>1, <3>2 DEF Fits
  <2>3. CASE q = p
    <3>1. Fits(t, lev, home, KRoot, k)
      BY <1>1
    <3> QED
      BY <1>1, <1>2, <1>3, <2>1, <2>3, <3>1 DEF Fits
  <2> QED
    BY <2>2, <2>3
<1>7. ASSUME NEW q \in Frame, lev2[q] \in -1 .. 1
      PROVE  /\ lev2[home[q][1]] = lev2[q] + 1
             /\ t2[home[q][1]][home[q][2]] = Points(lev2[q] + 1, q)
  <2>1. PICK x, k : x = home[q][1] /\ k = home[q][2] /\ x \in Frame /\ k \in Entry
    BY <1>1 DEF Slot
  <2>2. lev2[q] = lev[q]
    BY <1>2, <1>3, <1>7
  <2>3. lev[x] = lev[q] + 1 /\ t[x][k] = Points(lev[q] + 1, q)
    BY <1>1, <1>7, <2>1, <2>2
  <2>4. x # p
    BY <1>2, <1>7, <2>2, <2>3
  <2> QED
    BY <1>3, <2>1, <2>2, <2>3, <2>4
<1>8. ASSUME NEW q \in Frame, NEW k \in Entry, lev2[q] = 2, t2[KRoot][k] # None
      PROVE  t2[q][k] = t2[KRoot][k]
  BY <1>1, <1>2, <1>3, <1>8
<1>9. Same(t, t2, lev)
  <2>1. \A q \in Frame, k \in Entry : lev[q] \in 1 .. 2 =>
            \/ t2[q][k] = t[q][k]
            \/ t[q][k] = None /\ \E x \in Frame : t2[q][k] = Table(x) /\ t2[x] = Empty
    BY <1>2, <1>3
  <2>2. \A q \in Frame : lev[q] = 0 => t2[q] = t[q]
    BY <1>2, <1>3
  <2>3. Shape(f, t, lev, home)
    OBVIOUS
  <2> QED
    BY ONLY <2>1, <2>2, <2>3, SameTables
<1>10. ASSUME NEW v \in Va
       PROVE  Tr(t2, p, v) = Tr(t, KRoot, v)
  <2>1. Tr(t2, KRoot, v) = Tr(t, KRoot, v)
    BY <1>1, <1>9 DEF Same
  <2>2. t2[p] = t2[KRoot] /\ p # NoFrame /\ KRoot # NoFrame
    BY <1>2, <1>3, <1>1, PageTyped
  <2>3. Step(t2, p, PX(2, v)) = Step(t2, KRoot, PX(2, v))
    BY <2>2 DEF Step
  <2>4. Reach(t2, p, v) = Reach(t2, KRoot, v)
    BY <2>3 DEF Reach
  <2>5. Tr(t2, p, v) = Tr(t2, KRoot, v)
    BY <2>4 DEF Tr
  <2> QED
    BY <2>1, <2>5
<1>11. home \in [Frame -> Slot]
  BY <1>1
<1>12. Shape(f, t2, lev2, home)
  BY ONLY <1>4, <1>5, <1>6, <1>7, <1>8, <1>11, PageTyped DEF Shape
<1> QED
  BY <1>9, <1>10, <1>12

\* The entries in X, all for user pages, are taken away and the pages given back.
Gone(f, t, X) == f \cup {t[x[1]][x[2]].to : x \in X}
Cut(t, X) == [p \in Frame |-> [e \in Entry |-> IF <<p, e>> \in X THEN None ELSE t[p][e]]]
Loose(lev, home, X) == [q \in Frame |-> IF lev[q] = Users /\ home[q] \in X THEN Free ELSE lev[q]]

LEMMA CutShape ==
    ASSUME NEW f, NEW t, NEW lev, NEW home, Shape(f, t, lev, home),
           NEW X \in SUBSET Slot,
           \A x \in X : lev[x[1]] = 0 /\ t[x[1]][x[2]].kind = "user"
    PROVE  Shape(Gone(f, t, X), Cut(t, X), Loose(lev, home, X), home)
<1>1. /\ lev \in [Frame -> -4 .. 2] /\ home \in [Frame -> Slot]
      /\ t \in [Frame -> [Entry -> EntryType]] /\ f = {q \in Frame : lev[q] = Free}
      /\ KRoot \in Frame /\ lev[KRoot] = 2
      /\ \A q \in Frame, k \in Entry : lev[q] \in 0 .. 2 => Fits(t, lev, home, q, k)
      /\ \A q \in Frame : lev[q] \in -1 .. 1 =>
            /\ lev[home[q][1]] = lev[q] + 1
            /\ t[home[q][1]][home[q][2]] = Points(lev[q] + 1, q)
      /\ \A q \in Frame, k \in Entry :
            lev[q] = 2 /\ t[KRoot][k] # None => t[q][k] = t[KRoot][k]
  BY DEF Shape
<1>2. PICK f2, t2, lev2 : f2 = Gone(f, t, X) /\ t2 = Cut(t, X) /\ lev2 = Loose(lev, home, X)
  OBVIOUS
<1>3. /\ \A q \in Frame : lev2[q] = IF lev[q] = -1 /\ home[q] \in X THEN -2 ELSE lev[q]
      /\ \A q \in Frame, k \in Entry : t2[q][k] = IF <<q, k>> \in X THEN None ELSE t[q][k]
      /\ Free = -2
  BY <1>2 DEF Cut, Loose, Users, Free
<1>4. /\ lev2 \in [Frame -> -4 .. 2] /\ lev2[KRoot] = 2
      /\ t2 \in [Frame -> [Entry -> EntryType]]
  <2>1. lev2 \in [Frame -> -4 .. 2] /\ lev2[KRoot] = 2
    BY <1>1, <1>2, <1>3 DEF Loose, Free
  <2>2. t2 \in [Frame -> [Entry -> EntryType]]
    BY <1>1, <1>2, EmptyTyped DEF Cut
  <2> QED
    BY <2>1, <2>2
<1>5. \A q \in Frame, k \in Entry : <<q, k>> \in X =>
          \E x \in Frame : t[q][k].to = x /\ lev[x] = -1 /\ home[x] = <<q, k>>
  <2>1. SUFFICES ASSUME NEW q \in Frame, NEW k \in Entry, <<q, k>> \in X
                 PROVE  \E x \in Frame : t[q][k].to = x /\ lev[x] = -1 /\ home[x] = <<q, k>>
    OBVIOUS
  <2>2. lev[q] = 0 /\ t[q][k].kind = "user"
    BY <2>1
  <2>3. Fits(t, lev, home, q, k) /\ t[q][k] # None /\ t[q][k].kind # "kernel"
    BY <1>1, <2>2 DEF None
  <2> QED
    BY <2>2, <2>3, EntryFits
<1>6. f2 = {q \in Frame : lev2[q] = Free}
  <2>1. ASSUME NEW q \in f2
        PROVE  q \in Frame /\ lev2[q] = Free
    <3>1. CASE q \in f
      BY <1>1, <1>3, <3>1
    <3>2. ASSUME NEW x \in X, q = t[x[1]][x[2]].to
          PROVE  q \in Frame /\ lev2[q] = Free
      <4>1. PICK p \in Frame, k \in Entry : x = <<p, k>>
        BY DEF Slot
      <4>2. \E y \in Frame : t[p][k].to = y /\ lev[y] = -1 /\ home[y] = <<p, k>>
        BY <1>5, <4>1
      <4> QED
        BY <1>3, <3>2, <4>1, <4>2
    <3> QED
      BY <1>2, <3>1, <3>2 DEF Gone
  <2>2. ASSUME NEW q \in Frame, lev2[q] = Free
        PROVE  q \in f2
    <3>1. CASE lev[q] = -2
      BY <1>1, <1>2, <1>3, <3>1 DEF Gone
    <3>2. CASE lev[q] = -1 /\ home[q] \in X
      <4>1. t[home[q][1]][home[q][2]] = Points(lev[q] + 1, q)
        BY <1>1, <3>2
      <4>2. t[home[q][1]][home[q][2]].to = q
        BY <4>1, PointsAre
      <4> QED
        BY <1>2, <3>2, <4>2 DEF Gone
    <3> QED
      BY <1>3, <2>2, <3>1, <3>2
  <2> QED
    BY <2>1, <2>2
<1>7. ASSUME NEW q \in Frame, NEW k \in Entry, lev2[q] \in 0 .. 2
      PROVE  Fits(t2, lev2, home, q, k)
  <2>1. lev2[q] = lev[q] /\ Fits(t, lev, home, q, k)
    BY <1>1, <1>3, <1>7
  <2>2. CASE <<q, k>> \in X
    BY <1>3, <2>2 DEF Fits
  <2>3. CASE <<q, k>> \notin X
    <3>1. t2[q][k] = t[q][k]
      BY <1>3, <2>3
    <3>2. \A x \in Frame : /\ lev[x] = lev[q] - 1
                           /\ home[x] = <<q, k>> \/ (lev[q] = 2 /\ home[x] = <<KRoot, k>>)
                           => lev2[x] = lev[x]
      BY <1>3, <2>3
    <3> QED
      BY <2>1, <3>1, <3>2 DEF Fits
  <2> QED
    BY <2>2, <2>3
<1>8. ASSUME NEW q \in Frame, lev2[q] \in -1 .. 1
      PROVE  /\ lev2[home[q][1]] = lev2[q] + 1
             /\ t2[home[q][1]][home[q][2]] = Points(lev2[q] + 1, q)
  <2>1. PICK x, k : x = home[q][1] /\ k = home[q][2] /\ x \in Frame /\ k \in Entry
                    /\ home[q] = <<x, k>>
    BY <1>1 DEF Slot
  <2>2. lev2[q] = lev[q] /\ ~ (lev[q] = -1 /\ home[q] \in X)
    BY <1>3, <1>8
  <2>3. lev[x] = lev[q] + 1 /\ t[x][k] = Points(lev[q] + 1, q)
    BY <1>1, <1>8, <2>1, <2>2
  <2>4. lev2[x] = lev[x]
    BY <1>3, <1>8, <2>1, <2>2, <2>3
  <2>5. <<x, k>> \notin X
    BY <2>1, <2>2, <2>3, <1>8
  <2> QED
    BY <1>3, <2>1, <2>2, <2>3, <2>4, <2>5
<1>9. ASSUME NEW q \in Frame, NEW k \in Entry, lev2[q] = 2, t2[KRoot][k] # None
      PROVE  t2[q][k] = t2[KRoot][k]
  <2>1. lev[q] = 2 /\ <<q, k>> \notin X /\ <<KRoot, k>> \notin X
    BY <1>1, <1>3, <1>9
  <2> QED
    BY <1>1, <1>3, <1>9, <2>1
<1>10. home \in [Frame -> Slot]
  BY <1>1
<1>11. Shape(f2, t2, lev2, home)
  BY ONLY <1>4, <1>6, <1>7, <1>8, <1>9, <1>10, PageTyped DEF Shape
<1> QED
  BY <1>2, <1>11

LEMMA CutTr ==
    ASSUME NEW f, NEW t, NEW lev, NEW home, Shape(f, t, lev, home),
           NEW X \in SUBSET Slot, \A x \in X : lev[x[1]] = 0,
           NEW r \in Frame, lev[r] = 2, NEW v \in Va
    PROVE  /\ Reach(Cut(t, X), r, v) = Reach(t, r, v)
           /\ Tr(Cut(t, X), r, v) =
                  IF <<Reach(t, r, v), PX(0, v)>> \in X THEN None ELSE Tr(t, r, v)
<1>1. PICK i, j, k : /\ i = PX(2, v) /\ j = PX(1, v) /\ k = PX(0, v)
                     /\ i \in Entry /\ j \in Entry /\ k \in Entry
  BY PXDigits
<1>2. PICK t2 : t2 = Cut(t, X)
  OBVIOUS
<1>3. \A q \in Frame, e \in Entry : t2[q][e] = IF <<q, e>> \in X THEN None ELSE t[q][e]
  BY <1>2 DEF Cut
<1>4. \A q \in Frame, e \in Entry : lev[q] # 0 => t2[q][e] = t[q][e]
  BY <1>3
<1>5. \/ Step(t, r, i) = NoFrame
      \/ \E q \in Frame : Step(t, r, i) = q /\ lev[q] = 1
  <2>1. lev[r] \in 1 .. 2
    OBVIOUS
  <2>2. \/ Step(t, r, i) = NoFrame
        \/ \E q \in Frame : Step(t, r, i) = q /\ lev[q] = lev[r] - 1
    BY <1>1, <2>1, StepDown
  <2> QED
    BY <2>2
<1>6. Step(t2, r, i) = Step(t, r, i)
  <2>1. t2[r][i] = t[r][i]
    BY <1>1, <1>4
  <2> QED
    BY <2>1 DEF Step
<1>7. Reach(t2, r, v) = Reach(t, r, v)
  <2>1. CASE Step(t, r, i) = NoFrame
    BY <1>1, <1>6, <2>1 DEF Reach, Step
  <2>2. ASSUME NEW q \in Frame, Step(t, r, i) = q, lev[q] = 1
        PROVE  Reach(t2, r, v) = Reach(t, r, v)
    <3>1. t2[q][j] = t[q][j]
      BY <1>1, <1>4, <2>2
    <3> QED
      BY <1>1, <1>6, <2>2, <3>1 DEF Reach, Step
  <2> QED
    BY <1>5, <2>1, <2>2
<1>8. CASE Reach(t, r, v) = NoFrame
  <2>1. <<Reach(t, r, v), k>> \notin X
    BY <1>8, PageTyped DEF Slot
  <2> QED
    BY <1>1, <1>2, <1>7, <1>8, <2>1 DEF Tr
<1>9. CASE Reach(t, r, v) # NoFrame
  <2>1. Reach(t, r, v) \in Frame
    BY <1>9, ReachDown
  <2> QED
    BY <1>1, <1>2, <1>3, <1>7, <1>9, <2>1 DEF Tr
<1> QED
  BY <1>8, <1>9

-----------------------------------------------------------------------------
(***************************************************************************)
(* The functions of vm.c, on a memory m as the model takes and returns it. *)
(***************************************************************************)
IsMem(m) == m = [free |-> m.free, table |-> m.table, at |-> m.at, result |-> m.result]

Sound(m, lev, home) == IsMem(m) /\ Shape(m.free, m.table, lev, home)

Placed(m, a) == [m EXCEPT !.at = a]

LEMMA PlacedIs ==
    ASSUME NEW m, IsMem(m), NEW a
    PROVE  /\ IsMem(Placed(m, a)) /\ Placed(m, a).at = a /\ Placed(m, a).free = m.free
           /\ Placed(m, a).table = m.table /\ Placed(m, a).result = m.result
           /\ m.at = a => Placed(m, a) = m
BY DEF IsMem, Placed

LEMMA DescendFinds ==
    ASSUME NEW m, IsMem(m), NEW l, NEW v
    PROVE  Descend(m, l, v, FALSE) = Placed(m, Step(m.table, m.at, PX(l, v)))
<1>1. CASE m.at = NoFrame
  BY <1>1, PlacedIs DEF Descend, Step
<1>2. CASE m.at # NoFrame
  BY <1>2 DEF Descend, Step, Placed
<1> QED
  BY <1>1, <1>2

LEMMA WalkFinds ==
    ASSUME NEW m, IsMem(m), NEW r, NEW v
    PROVE  walk(m, r, v, FALSE) = Placed(m, Reach(m.table, r, v))
<1>1. PICK m0, m1 : m0 = Placed(m, r) /\ m1 = Descend(m0, 2, v, FALSE)
  OBVIOUS
<1>2. IsMem(m0) /\ m0.at = r /\ m0.table = m.table
  BY <1>1, PlacedIs
<1>3. m1 = Placed(m0, Step(m.table, r, PX(2, v)))
  BY <1>1, <1>2, DescendFinds, ZenonT(30)
<1>4. IsMem(m1) /\ m1.at = Step(m.table, r, PX(2, v)) /\ m1.table = m.table
  BY <1>2, <1>3, PlacedIs
<1>5. Descend(m1, 1, v, FALSE) = Placed(m1, Reach(m.table, r, v))
  BY <1>4, DescendFinds DEF Reach
<1>6. \A x : Placed(m1, x) = Placed(m, x)
  BY <1>1, <1>3 DEF Placed, IsMem
<1>7. walk(m, r, v, FALSE) = Descend(m1, 1, v, FALSE)
  BY <1>1 DEF walk, Placed
<1> QED
  BY <1>5, <1>6, <1>7

LEMMA TranslateFinds ==
    ASSUME NEW t, NEW r, NEW v
    PROVE  Translate(t, r, v) = Tr(t, r, v)
<1>1. PICK m : m = [free |-> {}, table |-> t, at |-> NoFrame, result |-> "ok"]
  OBVIOUS
<1>2. IsMem(m) /\ m.table = t
  BY <1>1 DEF IsMem
<1>3. walk(m, r, v, FALSE) = Placed(m, Reach(t, r, v))
  BY <1>2, WalkFinds
<1>4. Placed(m, Reach(t, r, v)).at = Reach(t, r, v)
  BY <1>2, PlacedIs
<1> QED
  BY <1>1, <1>3, <1>4 DEF Translate, Tr

LEMMA KallocIs ==
    ASSUME NEW m, NEW lev, NEW home, Sound(m, lev, home), m.free # {},
           NEW p, p = Lowest(m.free), NEW m2, m2 = kallocPage(m)
    PROVE  /\ p \in Frame /\ lev[p] = Free /\ IsMem(m2)
           /\ m2.free = m.free \ {p} /\ m2.table = Set(m.table, p, Empty)
           /\ m2.at = m.at /\ m2.result = m.result
<1>1. m.free = {q \in Frame : lev[q] = Free}
  BY DEF Sound, Shape
<1>2. Lowest(m.free) \in m.free
  BY <1>1, LowestIn
<1>3. /\ IsMem(m2) /\ m2.free = m.free \ {p} /\ m2.table = [m.table EXCEPT ![p] = Empty]
      /\ m2.at = m.at /\ m2.result = m.result
  BY DEF Sound, IsMem, kallocPage
<1> QED
  BY <1>1, <1>2, <1>3 DEF Set

LEMMA KallocSound ==
    ASSUME NEW m, NEW lev, NEW home, Sound(m, lev, home), m.free # {},
           NEW p, p = Lowest(m.free), NEW m2, m2 = kallocPage(m)
    PROVE  Sound(m2, Set(lev, p, Held), home) /\ Same(m.table, m2.table, lev)
<1>1. /\ p \in Frame /\ lev[p] = Free /\ IsMem(m2)
      /\ m2.free = m.free \ {p} /\ m2.table = Set(m.table, p, Empty)
  BY KallocIs
<1>2. PICK f, t, f2, t2, lev2 : /\ f = m.free /\ t = m.table /\ f2 = m2.free /\ t2 = m2.table
                                /\ lev2 = Set(lev, p, Held)
  OBVIOUS
<1>3. Shape(f, t, lev, home) /\ f2 = f \ {p} /\ t2 = Set(t, p, Empty)
  BY <1>1, <1>2 DEF Sound
<1>4. Shape(f2, t2, lev2, home) /\ Same(t, t2, lev)
  BY ONLY <1>1, <1>2, <1>3, TakenShape
<1> QED
  BY <1>1, <1>2, <1>4 DEF Sound

LEMMA SameGrows ==
    ASSUME NEW t, NEW t2, NEW t3, NEW lev, NEW lev2,
           Same(t, t2, lev), Grown(lev, lev2), Same(t2, t3, lev2)
    PROVE  Same(t, t3, lev)
<1>1. \A r \in Frame : lev[r] = 2 => lev2[r] = 2
  BY DEF Grown, Free
<1> QED
  BY <1>1 DEF Same

LEMMA GrownGrows ==
    ASSUME NEW lev, NEW lev2, NEW lev3, Grown(lev, lev2), Grown(lev2, lev3)
    PROVE  Grown(lev, lev3)
BY DEF Grown, Free

\* Entries of tables stay.
Kept(t, t2, lev) ==
    \A q \in Frame, e \in Entry : lev[q] \in 0 .. 2 /\ t[q][e] # None => t2[q][e] = t[q][e]

\* The kernel's top-level table gets entries only while there is no other.
Alone(a, lev) == a = KRoot => \A q \in Frame : lev[q] = 2 => q = KRoot

\* A table for which an entry is sought at level l, in memory m with levels lev, and what
\* becomes of m: m2, at the table one level down if a page for it could be had.
Filled(m, l, v) == Descend(m, l, v, TRUE)
Upper(l) == l \in 1 .. 2
Extends(m, lev, m2, lev2, home2) ==
    /\ Sound(m2, lev2, home2) /\ Same(m.table, m2.table, lev) /\ Grown(lev, lev2)
    /\ Kept(m.table, m2.table, lev) /\ m2.result = m.result
Lands(m2, lev2, l, b) == m2.at # NoFrame => m2.at \in Frame /\ lev2[m2.at] = l - 1 /\ m2.at = b

\* One level of walk, filling the slot if it is empty.
LEMMA DescendGood ==
    ASSUME NEW m, NEW lev, NEW home, Sound(m, lev, home),
           NEW a, a \in Frame, m.at = a, NEW l, Upper(l), lev[a] = l, Alone(a, lev),
           NEW v, v \in Va, NEW m2, m2 = Filled(m, l, v)
    PROVE  \E lev2, home2 : /\ Extends(m, lev, m2, lev2, home2)
                            /\ Lands(m2, lev2, l, Step(m2.table, a, PX(l, v)))
<1>1. PICK e, t : e = PX(l, v) /\ e \in Entry /\ t = m.table
  BY PXDigits DEF Upper
<1>0. l \in 1 .. 2 /\ l - 1 \in Int
  BY DEF Upper
<1>2. a # NoFrame /\ IsMem(m) /\ Shape(m.free, t, lev, home)
  BY <1>1, PageTyped DEF Sound
<1>3. Same(t, t, lev) /\ Grown(lev, lev)
  BY DEF Same, Grown
<1>8. Kept(t, t, lev)
  BY DEF Kept
<1>4. \/ t[a][e] = None
      \/ \E q \in Frame : Step(t, a, e) = q /\ t[a][e] = Table(q) /\ lev[q] = lev[a] - 1
  <2>1. lev[a] \in 1 .. 2
    BY <1>0
  <2> QED
    BY <1>1, <1>2, <2>1, StepDown
<1>5. ASSUME NEW q \in Frame, Step(t, a, e) = q, t[a][e] = Table(q), lev[q] = lev[a] - 1
      PROVE  \E lev2, home2 : /\ Extends(m, lev, m2, lev2, home2)
                              /\ Lands(m2, lev2, l, Step(m2.table, a, PX(l, v)))
  <2>1. m2 = Placed(m, q)
    BY <1>1, <1>2, <1>5, LevelsDiffer DEF Filled, Descend, Placed, Table
  <2>2. m2.at = q /\ m2.table = t /\ m2.free = m.free /\ m2.result = m.result /\ IsMem(m2)
    BY ONLY <1>1, <1>2, <2>1, PlacedIs
  <2>3. Sound(m2, lev, home)
    BY <1>2, <2>2 DEF Sound
  <2> QED
    BY <1>1, <1>3, <1>5, <1>8, <2>2, <2>3 DEF Extends, Lands
<1>6. CASE t[a][e] = None /\ m.free = {}
  <2>1. m2 = Placed(m, NoFrame)
    BY <1>1, <1>2, <1>6 DEF Filled, Descend, Placed
  <2>2. m2.at = NoFrame /\ m2.table = t /\ m2.free = m.free /\ m2.result = m.result /\ IsMem(m2)
    BY ONLY <1>1, <1>2, <2>1, PlacedIs
  <2>3. Sound(m2, lev, home)
    BY <1>2, <2>2 DEF Sound
  <2> QED
    BY <1>1, <1>3, <1>8, <2>2, <2>3 DEF Extends, Lands
<1>7. CASE t[a][e] = None /\ m.free # {}
  <2>1. PICK p, m1 : p = Lowest(m.free) /\ m1 = kallocPage(m)
    OBVIOUS
  <2>2. /\ p \in Frame /\ lev[p] = Free /\ IsMem(m1) /\ m1.table = Set(t, p, Empty)
        /\ m1.at = a /\ m1.result = m.result
    <3>1. Sound(m, lev, home) /\ m.free # {}
      BY <1>7
    <3>2. /\ p \in Frame /\ lev[p] = Free /\ IsMem(m1) /\ m1.table = Set(m.table, p, Empty)
          /\ m1.at = m.at /\ m1.result = m.result
      BY ONLY <2>1, <3>1, KallocIs
    <3> QED
      BY <1>1, <3>2
  <2>3. PICK lev1 : /\ lev1 = Set(lev, p, Held) /\ Sound(m1, lev1, home)
                    /\ Same(t, m1.table, lev)
    <3>1. Sound(m, lev, home) /\ m.free # {}
      BY <1>7
    <3>2. Sound(m1, Set(lev, p, Held), home) /\ Same(m.table, m1.table, lev)
      BY ONLY <2>1, <3>1, KallocSound
    <3> QED
      BY <1>1, <3>2
  <2>4. PICK t1, t2, lev2, home2 :
           /\ t1 = m1.table /\ t2 = Put(t1, a, e, Table(p))
           /\ lev2 = Set(lev1, p, lev1[a] - 1) /\ home2 = Set(home, p, <<a, e>>)
    OBVIOUS
  <2>5. /\ m2 = [m1 EXCEPT !.table[a][e] = Table(p), !.at = p]
    BY <1>1, <1>2, <1>7, <2>1 DEF Filled, Descend
  <2>6. /\ IsMem(m2) /\ m2.table = t2 /\ m2.free = m1.free /\ m2.at = p
        /\ m2.result = m.result
    BY <2>2, <2>4, <2>5 DEF IsMem, Put
  <2>7. lev \in [Frame -> -4 .. 2] /\ lev[p] = -2 /\ a # p
    BY <1>0, <1>2, <2>2 DEF Shape, Free
  <2>8. /\ lev1 \in [Frame -> -4 .. 2] /\ lev1[p] = Held /\ lev1[a] = l
        /\ \A q \in Frame : q # p => lev1[q] = lev[q]
    <3>1. lev[a] = l /\ a \in Frame
      OBVIOUS
    <3> QED
      BY ONLY <2>2, <2>3, <2>7, <3>1 DEF Held, Set
  <2>9. t1[p] = Empty /\ t1[a] = t[a] /\ t \in [Frame -> [Entry -> EntryType]]
    BY <1>2, <2>2, <2>4, <2>7 DEF Shape, Set
  <2>10. a = KRoot => \A q \in Frame : lev1[q] = 2 => q = KRoot
    BY <2>8 DEF Alone, Held
  <2>11. Shape(m1.free, t2, lev2, home2) /\ Same(t1, t2, lev1)
    <3>1. PICK f : f = m1.free
      OBVIOUS
    <3>2. Shape(f, t1, lev1, home) /\ lev1[a] \in 1 .. 2 /\ t1[a][e] = None /\ a \in Frame /\ e \in Entry
      BY <1>0, <1>1, <1>7, <2>3, <2>4, <2>8, <2>9, <3>1 DEF Sound
    <3>3. Shape(f, t2, lev2, home2) /\ Same(t1, t2, lev1)
      BY ONLY <2>2, <2>4, <2>8, <2>9, <2>10, <3>2, TableShape
    <3> QED
      BY <3>1, <3>3
  <2>12. Sound(m2, lev2, home2)
    BY <2>6, <2>11 DEF Sound
  <2>13. Same(t, t2, lev)
    <3>1. \A r \in Frame : lev[r] = 2 => lev1[r] = 2
      BY <2>7, <2>8
    <3>2. Same(t, t1, lev) /\ Same(t1, t2, lev1)
      BY <2>3, <2>4, <2>11
    <3> QED
      BY ONLY <3>1, <3>2 DEF Same
  <2>14. lev2 \in [Frame -> Int] /\ lev2[p] = l - 1 /\ \A q \in Frame : q # p => lev2[q] = lev[q]
    <3>1. l - 1 \in Int /\ lev1 \in [Frame -> Int] /\ p \in Frame
      BY <1>0, <2>2, <2>8
    <3> QED
      BY ONLY <2>4, <2>8, <3>1 DEF Set
  <2>17. Kept(t, t2, lev)
    <3>1. ASSUME NEW q \in Frame, NEW k \in Entry, lev[q] \in 0 .. 2, t[q][k] # None
          PROVE  t2[q][k] = t[q][k]
      <4>1. q # p /\ t1[q] = t[q]
        BY <2>2, <2>4, <2>7, <2>9, <3>1 DEF Set
      <4>2. t1 \in [Frame -> [Entry -> EntryType]]
        BY <2>2, <2>4, <2>9, EmptyTyped DEF Set
      <4>3. ~ (q = a /\ k = e)
        BY <1>7, <3>1
      <4> QED
        BY <2>4, <4>1, <4>2, <4>3 DEF Put
    <3> QED
      BY <3>1 DEF Kept
  <2>15. Grown(lev, lev2)
    BY <1>0, <2>2, <2>14 DEF Grown
  <2>16. Step(t2, a, e) = p
    <3>1. t2[a][e] = Table(p)
      BY <1>1, <2>4, <2>9, <1>7, <2>2 DEF Set, Put
    <3> QED
      BY <1>2, <3>1, LevelsDiffer DEF Step, Table
  <2> QED
    BY <1>1, <2>2, <2>6, <2>12, <2>13, <2>14, <2>15, <2>16, <2>17 DEF Extends, Lands
<1> QED
  BY <1>4, <1>5, <1>6, <1>7

\* walk with alloc: it ends at a last table, the one a walk now finds, or runs out of pages.
\* walk with alloc: it ends at a last table, the one a walk now finds, or runs out of pages.
LEMMA WalkGood ==
    ASSUME NEW m, NEW lev, NEW home, Sound(m, lev, home),
           NEW r, r \in Frame, lev[r] = 2, Alone(r, lev), NEW v, v \in Va,
           NEW w, w = walk(m, r, v, TRUE)
    PROVE  \E lev2, home2 : /\ Extends(m, lev, w, lev2, home2)
                            /\ Lands(w, lev2, 1, Reach(w.table, r, v))
<1>1. PICK m0, m1, l : m0 = Placed(m, r) /\ l = 2 /\ m1 = Filled(m0, l, v)
  OBVIOUS
<1>2. Sound(m0, lev, home) /\ m0.at = r /\ m0.table = m.table /\ m0.result = m.result
  BY <1>1, PlacedIs DEF Sound
<1>3. w = Filled(m1, 1, v)
  BY <1>1 DEF walk, Placed, Filled
<1>4. PICK lev1, home1 : /\ Extends(m, lev, m1, lev1, home1)
                         /\ Lands(m1, lev1, 2, Step(m1.table, r, PX(2, v)))
  <2>1. r \in Frame /\ lev[r] = l /\ Upper(l) /\ v \in Va /\ Alone(r, lev)
    BY <1>1 DEF Upper
  <2>2. \E lev2, home2 : /\ Extends(m0, lev, m1, lev2, home2)
                         /\ Lands(m1, lev2, l, Step(m1.table, r, PX(l, v)))
    BY ONLY <1>1, <1>2, <2>1, DescendGood
  <2> QED
    BY <1>1, <1>2, <2>2 DEF Extends
<1>5. CASE m1.at = NoFrame
  <2>1. w = m1
    BY <1>3, <1>5 DEF Filled, Descend
  <2> QED
    BY <1>4, <1>5, <2>1 DEF Lands
<1>6. CASE m1.at # NoFrame
  <2>1. PICK a, k : a = m1.at /\ k = 1 /\ a \in Frame /\ lev1[a] = k
                    /\ a = Step(m1.table, r, PX(2, v))
    BY <1>4, <1>6 DEF Lands
  <2>2. Sound(m1, lev1, home1) /\ Grown(lev, lev1)
    BY <1>4 DEF Extends
  <2>3. lev[a] # 2 /\ lev1[r] = 2
    BY <2>1, <2>2 DEF Grown, Free
  <2>4. Alone(a, lev1)
    <3>1. lev[KRoot] = 2
      BY DEF Sound, Shape
    <3> QED
      BY <2>3, <3>1 DEF Alone
  <2>5. a \in Frame /\ lev1[a] = k /\ Upper(k) /\ v \in Va /\ m1.at = a /\ w = Filled(m1, k, v)
    <3>1. k \in 1 .. 2 /\ a \in Frame /\ lev1[a] = k /\ m1.at = a
      BY <2>1
    <3>2. w = Filled(m1, k, v)
      BY <1>3, <2>1
    <3> QED
      BY <3>1, <3>2 DEF Upper
  <2>6. PICK lev2, home2 : /\ Extends(m1, lev1, w, lev2, home2)
                           /\ Lands(w, lev2, k, Step(w.table, a, PX(k, v)))
    BY ONLY <2>2, <2>4, <2>5, DescendGood
  <2>7. Step(w.table, r, PX(2, v)) = a
    <3>1. PICK i : i = PX(2, v) /\ i \in Entry
      BY PXDigits
    <3>2. m1.table[r][i] # None /\ m1.table[r][i].to = a /\ r # NoFrame
      BY <2>1, <3>1, PageTyped DEF Step
    <3>3. w.table[r][i] = m1.table[r][i]
      <4>1. PICK t1, t2 : t1 = m1.table /\ t2 = w.table
        OBVIOUS
      <4>2. Kept(t1, t2, lev1) /\ lev1[r] \in 0 .. 2 /\ t1[r][i] # None
        <5>1. Kept(t1, t2, lev1)
          BY <2>6, <4>1 DEF Extends
        <5>2. lev1[r] \in 0 .. 2
          BY ONLY <2>3
        <5> QED
          BY <3>2, <4>1, <5>1, <5>2
      <4>3. r \in Frame
        OBVIOUS
      <4> QED
        BY ONLY <3>1, <4>1, <4>2, <4>3 DEF Kept
    <3> QED
      BY <3>1, <3>2, <3>3 DEF Step
  <2>8. Reach(w.table, r, v) = Step(w.table, a, PX(k, v))
    BY <2>1, <2>7 DEF Reach
  <2>9. Extends(m, lev, w, lev2, home2)
    <3>1. Same(m.table, w.table, lev) /\ Grown(lev, lev2)
      BY <1>4, <2>6, SameGrows, GrownGrows DEF Extends
    <3>2. Kept(m.table, w.table, lev)
      <4>1. \A q \in Frame : lev[q] \in 0 .. 2 => lev1[q] = lev[q]
        BY <2>2 DEF Grown, Free
      <4>2. PICK t, t1, t2 : t = m.table /\ t1 = m1.table /\ t2 = w.table
        OBVIOUS
      <4>3. Kept(t, t1, lev) /\ Kept(t1, t2, lev1)
        BY <1>4, <2>6, <4>2 DEF Extends
      <4>4. Kept(t, t2, lev)
        BY ONLY <4>1, <4>3 DEF Kept
      <4> QED
        BY <4>2, <4>4
    <3> QED
      BY <1>4, <2>6, <3>1, <3>2 DEF Extends
  <2> QED
    BY <2>1, <2>6, <2>8, <2>9
<1> QED
  BY <1>5, <1>6

\* Pages that were free are tables or user memory now, and nothing else has changed its use.
Uses(lev, lev2) == \A q \in Frame : lev2[q] = lev[q] \/ (lev[q] = Free /\ lev2[q] \in -1 .. 1)

\* A page that was held is what n says.
Gets(lev, p, n, lev2) ==
    \A q \in Frame : IF q = p THEN lev2[q] = n ELSE lev2[q] = lev[q] \/ (lev[q] = Free /\ lev2[q] \in 0 .. 1)

\* Only v is translated to something else, by root r at least and where nothing was.
Enters(t, t2, lev, r, v, x) ==
    /\ Tr(t, r, v) = None /\ Tr(t2, r, v) = x
    /\ \A p \in Frame, u \in Va : lev[p] = 2 =>
          \/ Tr(t2, p, u) = Tr(t, p, u)
          \/ u = v /\ Tr(t, p, u) = None /\ Tr(t2, p, u) = x

\* The part of vmmap behind its walk.
Behind(w, v, x, m2) ==
    \/ w.at = NoFrame /\ IsMem(m2) /\ m2.free = w.free /\ m2.table = w.table
       /\ m2.result = "failed"
    \/ w.at # NoFrame /\ m2.result = "panic" /\ IsMem(m2)
    \/ /\ w.at # NoFrame /\ IsMem(m2) /\ m2.free = w.free /\ m2.result = w.result
       /\ w.table[w.at][PX(0, v)] = None
       /\ m2.table = Put(w.table, w.at, PX(0, v), x)

LEMMA VmmapIs ==
    ASSUME NEW m, NEW r, NEW v, NEW x, NEW w, w = walk(m, r, v, TRUE), IsMem(w),
           NEW m2, m2 = vmmap(m, r, v, x)
    PROVE  Behind(w, v, x, m2)
<1>1. CASE w.at = NoFrame
  BY <1>1 DEF Behind, vmmap, IsMem
<1>2. CASE w.at # NoFrame /\ w.table[w.at][PX(0, v)] # None
  BY <1>2 DEF Behind, vmmap, IsMem
<1>3. CASE w.at # NoFrame /\ w.table[w.at][PX(0, v)] = None
  BY <1>3 DEF Behind, vmmap, IsMem, Put
<1> QED
  BY <1>1, <1>2, <1>3

\* The translations when slot v of the last table that r's walk reaches gets entry x.
LEMMA EntersTr ==
    ASSUME NEW f, NEW t, NEW lev, NEW home, Shape(f, t, lev, home),
           NEW r, r \in Frame, lev[r] = 2, NEW v, v \in Va,
           NEW a, a \in Frame, a = Reach(t, r, v), lev[a] = 0, NEW e, e = PX(0, v), t[a][e] = None,
           NEW x, NEW t2, t2 = Put(t, a, e, x)
    PROVE  Enters(t, t2, lev, r, v, x)
<1>1. a # NoFrame /\ e \in Entry
  BY PageTyped, PXDigits
<1>2. ASSUME NEW p \in Frame, NEW u \in Va, lev[p] = 2
      PROVE  Tr(t2, p, u) = IF Reach(t, p, u) = a /\ PX(0, u) = e THEN x ELSE Tr(t, p, u)
  <2>1. Shape(f, t, lev, home)
    OBVIOUS
  <2> QED
    BY <1>1, <1>2, <2>1, LeafTr
<1>3. Tr(t, r, v) = None /\ Tr(t2, r, v) = x
  BY <1>1, <1>2 DEF Tr
<1>4. ASSUME NEW p \in Frame, NEW u \in Va, lev[p] = 2
      PROVE  \/ Tr(t2, p, u) = Tr(t, p, u)
             \/ u = v /\ Tr(t, p, u) = None /\ Tr(t2, p, u) = x
  <2>1. CASE Reach(t, p, u) = a /\ PX(0, u) = e
    <3>1. u = v
      BY <1>1, <1>4, <2>1, SlotUnique
    <3>2. Tr(t, p, u) = None
      BY <1>1, <2>1 DEF Tr
    <3> QED
      BY <1>2, <1>4, <2>1, <3>1, <3>2
  <2>2. CASE ~ (Reach(t, p, u) = a /\ PX(0, u) = e)
    BY <1>2, <1>4, <2>2
  <2> QED
    BY <2>1, <2>2
<1> QED
  BY <1>3, <1>4 DEF Enters

\* The outcomes of vmmap besides a panic: no page for a table, or the slot for v, in table
\* a of t, gets entry x.
FailsTo(m, lev, m2, lev2, home2) ==
    /\ m2.result = "failed" /\ Sound(m2, lev2, home2)
    /\ Same(m.table, m2.table, lev) /\ Grown(lev, lev2)

EntersTo(m, lev, r, v, x, m2, t, lev2, home2, a) ==
    /\ m2.result = m.result /\ IsMem(m2) /\ Shape(m2.free, t, lev2, home2) /\ Grown(lev, lev2)
    /\ a \in Frame /\ lev2[a] = 0 /\ t[a][PX(0, v)] = None
    /\ m2.table = Put(t, a, PX(0, v), x) /\ Enters(m.table, m2.table, lev, r, v, x)

LEMMA VmmapGood ==
    ASSUME NEW m, NEW lev, NEW home, Sound(m, lev, home),
           NEW r, r \in Frame, lev[r] = 2, Alone(r, lev), NEW v, v \in Va,
           NEW x, NEW m2, m2 = vmmap(m, r, v, x)
    PROVE  \/ m2.result = "panic" /\ IsMem(m2)
           \/ \E lev2, home2 : FailsTo(m, lev, m2, lev2, home2)
           \/ \E t, lev2, home2, a : EntersTo(m, lev, r, v, x, m2, t, lev2, home2, a)
<1>1. PICK w : w = walk(m, r, v, TRUE)
  OBVIOUS
<1>2. PICK lev2, home2 : /\ Extends(m, lev, w, lev2, home2)
                         /\ Lands(w, lev2, 1, Reach(w.table, r, v))
  <2>1. Sound(m, lev, home) /\ r \in Frame /\ lev[r] = 2 /\ Alone(r, lev) /\ v \in Va
    OBVIOUS
  <2> QED
    BY ONLY <1>1, <2>1, WalkGood
<1>3. /\ Sound(w, lev2, home2) /\ Same(m.table, w.table, lev) /\ Grown(lev, lev2)
      /\ w.result = m.result /\ IsMem(w) /\ Shape(w.free, w.table, lev2, home2)
  BY <1>2 DEF Extends, Sound
<1>4. Behind(w, v, x, m2)
  <2>1. IsMem(w) /\ w = walk(m, r, v, TRUE) /\ m2 = vmmap(m, r, v, x)
    BY <1>1, <1>3
  <2> QED
    BY ONLY <2>1, VmmapIs
<1>5. CASE w.at = NoFrame /\ IsMem(m2) /\ m2.free = w.free /\ m2.table = w.table
           /\ m2.result = "failed"
  <2>1. FailsTo(m, lev, m2, lev2, home2)
    BY <1>3, <1>5 DEF FailsTo, Sound
  <2> QED
    BY <2>1
<1>6. CASE /\ w.at # NoFrame /\ IsMem(m2) /\ m2.free = w.free /\ m2.result = w.result
           /\ w.table[w.at][PX(0, v)] = None
           /\ m2.table = Put(w.table, w.at, PX(0, v), x)
  <2>1. PICK f, t, t2, a, e : /\ f = w.free /\ t = w.table /\ t2 = m2.table /\ a = w.at
                              /\ e = PX(0, v)
    OBVIOUS
  <2>2. a \in Frame /\ lev2[a] = 0 /\ a = Reach(t, r, v)
    BY <1>2, <1>6, <2>1 DEF Lands
  <2>3. lev2[r] = 2
    BY <1>3 DEF Grown, Free
  <2>4. /\ Shape(f, t, lev2, home2) /\ r \in Frame /\ v \in Va /\ t[a][e] = None
        /\ t2 = Put(t, a, e, x)
    BY <1>3, <1>6, <2>1
  <2>5. Enters(t, t2, lev2, r, v, x)
    BY ONLY <2>1, <2>2, <2>3, <2>4, EntersTr
  <2>6. Enters(m.table, t2, lev, r, v, x)
    <3>1. PICK t0 : t0 = m.table
      OBVIOUS
    <3>2. \A q \in Frame : lev[q] = 2 => lev2[q] = 2
      BY <1>3 DEF Grown, Free
    <3>3. Same(t0, t, lev) /\ r \in Frame /\ v \in Va /\ lev[r] = 2
      BY <1>3, <2>1, <3>1
    <3>4. Enters(t0, t2, lev, r, v, x)
      BY ONLY <2>5, <3>2, <3>3 DEF Same, Enters
    <3> QED
      BY <3>1, <3>4
  <2>7. EntersTo(m, lev, r, v, x, m2, t, lev2, home2, a)
    BY <1>3, <1>6, <2>1, <2>2, <2>6 DEF EntersTo
  <2> QED
    BY <2>7
<1> QED
  BY <1>4, <1>5, <1>6 DEF Behind

\* vmmap of a page that is held, as user memory.
MapsTo(m, lev, r, v, p, m2, lev2, home2) ==
    /\ m2.result = m.result /\ Sound(m2, lev2, home2) /\ Gets(lev, p, Users, lev2)
    /\ Enters(m.table, m2.table, lev, r, v, User(p))

LEMMA MapsUser ==
    ASSUME NEW m, NEW lev, NEW home, Sound(m, lev, home),
           NEW r, r \in Frame, lev[r] = 2, Alone(r, lev), NEW v, v \in Va,
           NEW p, p \in Frame, lev[p] = Held, NEW m2, m2 = vmmap(m, r, v, User(p))
    PROVE  \/ m2.result = "panic" /\ IsMem(m2)
           \/ \E lev2, home2 : FailsTo(m, lev, m2, lev2, home2)
           \/ \E lev2, home2 : MapsTo(m, lev, r, v, p, m2, lev2, home2)
<1>1. PICK x : x = User(p)
  OBVIOUS
<1>2. \/ m2.result = "panic" /\ IsMem(m2)
      \/ \E lev2, home2 : FailsTo(m, lev, m2, lev2, home2)
      \/ \E t, lev2, home2, a : EntersTo(m, lev, r, v, x, m2, t, lev2, home2, a)
  <2>1. /\ Sound(m, lev, home) /\ r \in Frame /\ lev[r] = 2 /\ Alone(r, lev) /\ v \in Va
        /\ m2 = vmmap(m, r, v, x)
    BY <1>1
  <2> QED
    BY ONLY <2>1, VmmapGood
<1>3. ASSUME NEW t, NEW lev1, NEW home1, NEW a,
             EntersTo(m, lev, r, v, x, m2, t, lev1, home1, a)
      PROVE  \E lev2, home2 : MapsTo(m, lev, r, v, p, m2, lev2, home2)
  <2>1. /\ m2.result = m.result /\ IsMem(m2) /\ Shape(m2.free, t, lev1, home1) /\ Grown(lev, lev1)
        /\ a \in Frame /\ lev1[a] = 0 /\ t[a][PX(0, v)] = None
        /\ m2.table = Put(t, a, PX(0, v), x) /\ Enters(m.table, m2.table, lev, r, v, x)
    BY <1>3 DEF EntersTo
  <2>2. PICK f, t2, e, lev2, home2 :
           /\ f = m2.free /\ t2 = m2.table /\ e = PX(0, v)
           /\ lev2 = Set(lev1, p, Users) /\ home2 = Set(home1, p, <<a, e>>)
    OBVIOUS
  <2>3. lev1[p] = Held /\ lev1 \in [Frame -> -4 .. 2]
    <3>1. lev1 \in [Frame -> -4 .. 2]
      BY <2>1 DEF Shape
    <3> QED
      BY <2>1, <3>1 DEF Grown, Free, Held
  <2>4. e \in Entry /\ p \in Frame /\ t2 = Put(t, a, e, User(p)) /\ t[a][e] = None
        /\ Shape(f, t, lev1, home1) /\ a \in Frame /\ lev1[a] = 0
    BY <1>1, <2>1, <2>2, PXDigits
  <2>5. Shape(f, t2, lev2, home2)
    BY ONLY <2>2, <2>3, <2>4, UserShape
  <2>6. Gets(lev, p, Users, lev2)
    <3>1. \A q \in Frame : q # p => lev2[q] = lev1[q]
      BY <2>2, <2>3 DEF Set
    <3>2. lev2[p] = Users
      BY <2>2, <2>3 DEF Set
    <3> QED
      BY ONLY <2>1, <3>1, <3>2 DEF Gets, Grown
  <2>7. MapsTo(m, lev, r, v, p, m2, lev2, home2)
    BY <1>1, <2>1, <2>2, <2>5, <2>6 DEF MapsTo, Sound
  <2> QED
    BY <2>7
<1> QED
  BY <1>2, <1>3

\* vmmap of a page of the kernel's identity mapping.
MapsKernel(m, lev, v, m2, lev2, home2) ==
    /\ m2.result = m.result /\ Sound(m2, lev2, home2) /\ Grown(lev, lev2)
    /\ Enters(m.table, m2.table, lev, KRoot, v, Kernel(v))

LEMMA MapsKernelGood ==
    ASSUME NEW m, NEW lev, NEW home, Sound(m, lev, home), Alone(KRoot, lev), NEW v, v \in Va,
           NEW m2, m2 = vmmap(m, KRoot, v, Kernel(v)), m2.result = "ok"
    PROVE  \E lev2, home2 : MapsKernel(m, lev, v, m2, lev2, home2)
<1>1. PICK x, r : x = Kernel(v) /\ r = KRoot
  OBVIOUS
<1>2. \/ m2.result = "panic" /\ IsMem(m2)
      \/ \E lev2, home2 : FailsTo(m, lev, m2, lev2, home2)
      \/ \E t, lev2, home2, a : EntersTo(m, lev, r, v, x, m2, t, lev2, home2, a)
  <2>1. /\ Sound(m, lev, home) /\ r \in Frame /\ lev[r] = 2 /\ Alone(r, lev) /\ v \in Va
        /\ m2 = vmmap(m, r, v, x)
    BY <1>1 DEF Sound, Shape
  <2> QED
    BY ONLY <2>1, VmmapGood
<1>3. PICK t, lev2, home2, a : EntersTo(m, lev, r, v, x, m2, t, lev2, home2, a)
  BY <1>2 DEF FailsTo
<1>4. /\ m2.result = m.result /\ IsMem(m2) /\ Shape(m2.free, t, lev2, home2) /\ Grown(lev, lev2)
      /\ a \in Frame /\ lev2[a] = 0 /\ t[a][PX(0, v)] = None
      /\ m2.table = Put(t, a, PX(0, v), x) /\ Enters(m.table, m2.table, lev, r, v, x)
  BY <1>3 DEF EntersTo
<1>5. PICK f, t2, e : f = m2.free /\ t2 = m2.table /\ e = PX(0, v)
  OBVIOUS
<1>6. e \in Entry /\ v \in Va /\ t2 = Put(t, a, e, Kernel(v)) /\ t[a][e] = None
      /\ Shape(f, t, lev2, home2) /\ a \in Frame /\ lev2[a] = 0
  BY <1>1, <1>4, <1>5, PXDigits
<1>7. Shape(f, t2, lev2, home2)
  BY ONLY <1>6, KernelShape
<1>8. MapsKernel(m, lev, v, m2, lev2, home2)
  BY <1>1, <1>4, <1>5, <1>7 DEF MapsKernel, Sound
<1> QED
  BY <1>8

-----------------------------------------------------------------------------
(***************************************************************************)
(* The kernel's memory: kvmmake, step by step.                             *)
(***************************************************************************)
LEMMA LeastNumber ==
    ASSUME NEW S \in SUBSET Nat, S # {}
    PROVE  \E n \in S : \A k \in S : n <= k
<1> DEFINE R == OpToRel(<, Nat)
<1>1. IsWellFoundedOn(R, Nat)
  BY NatLessThanWellFounded
<1>2. \A x, y \in Nat : <<x, y>> \in R <=> x < y
  BY DEF OpToRel
<1> HIDE DEF R
<1>3. \E n \in S : \A k \in S : ~ (<<k, n>> \in R)
  BY <1>1, WFMin
<1>4. PICK n \in S : \A k \in S : ~ (<<k, n>> \in R)
  BY <1>3
<1>5. ASSUME NEW k \in S
      PROVE  n <= k
  <2>1. k \in Nat /\ n \in Nat
    OBVIOUS
  <2>2. ~ (k < n)
    BY <1>2, <1>4, <2>1
  <2> QED
    BY <2>1, <2>2
<1> QED
  BY <1>5

\* A set of numbers up to n with 0 and every successor of one of its members is all of them.
LEMMA Climb ==
    ASSUME NEW n \in Nat, NEW S, 0 \in S, \A i \in 1 .. n : i - 1 \in S => i \in S
    PROVE  \A i \in 0 .. n : i \in S
<1> DEFINE B == {i \in 0 .. n : i \notin S}
<1>1. CASE B = {}
  BY <1>1
<1>2. CASE B # {}
  <2>1. B \in SUBSET Nat
    OBVIOUS
  <2>2. PICK i \in B : \A k \in B : i <= k
    BY <1>2, <2>1, LeastNumber
  <2>3. i \in 0 .. n /\ i \notin S /\ i # 0
    BY <2>2
  <2>4. i \in 1 .. n /\ i - 1 \in 0 .. n /\ ~ (i <= i - 1)
    BY <2>3
  <2>5. i - 1 \in S
    BY <2>2, <2>4
  <2> QED
    BY <2>3, <2>4, <2>5
<1> QED
  BY <1>1, <1>2

BootMem == [free |-> Frame \ {1}, table |-> [p \in Frame |-> Empty], at |-> NoFrame, result |-> "ok"]
BuildStep(g, j) == vmmap(g, 1, KernelVa[j], Kernel(KernelVa[j]))
Building(g, i) == g = [j \in 0 .. i |-> IF j = 0 THEN BootMem ELSE BuildStep(g[j - 1], j)]
Builds == CHOOSE g : Building(g, Len(KernelVa))

LEMMA KernelMemoryIs == KernelMemory = Builds[Len(KernelVa)]
BY DEF KernelMemory, Builds, Building, BuildStep, BootMem

LEMMA BuildingFrom0 == \E g : Building(g, 0)
<1>1. PICK g : g = [j \in 0 .. 0 |-> BootMem]
  OBVIOUS
<1>2. \A j \in 0 .. 0 : j = 0
  OBVIOUS
<1>3. g = [j \in 0 .. 0 |-> IF j = 0 THEN BootMem ELSE BuildStep(g[j - 1], j)]
  BY <1>1, <1>2
<1> QED
  BY <1>3 DEF Building

LEMMA BuildingOn ==
    ASSUME NEW i \in Nat \ {0}, NEW g, Building(g, i - 1)
    PROVE  \E h : Building(h, i)
<1>1. PICK h : h = [j \in 0 .. i |-> IF j = i THEN BuildStep(g[i - 1], i) ELSE g[j]]
  OBVIOUS
<1>2. g = [j \in 0 .. (i - 1) |-> IF j = 0 THEN BootMem ELSE BuildStep(g[j - 1], j)]
  BY DEF Building
<1>3. \A j \in 0 .. (i - 1) : g[j] = IF j = 0 THEN BootMem ELSE BuildStep(g[j - 1], j)
  BY <1>2
<1>4. \A j \in 0 .. i : h[j] = IF j = 0 THEN BootMem ELSE BuildStep(h[j - 1], j)
  <2>1. SUFFICES ASSUME NEW j \in 0 .. i
                 PROVE  h[j] = IF j = 0 THEN BootMem ELSE BuildStep(h[j - 1], j)
    OBVIOUS
  <2>2. \A k \in 0 .. (i - 1) : k \in 0 .. i /\ k # i /\ h[k] = g[k]
    BY <1>1
  <2>3. CASE j = 0
    <3>1. 0 \in 0 .. (i - 1)
      OBVIOUS
    <3> QED
      BY <1>3, <2>2, <2>3, <3>1
  <2>4. CASE j = i
    <3>1. i - 1 \in 0 .. (i - 1) /\ i # 0
      OBVIOUS
    <3>2. h[i - 1] = g[i - 1] /\ h[i] = BuildStep(g[i - 1], i)
      BY <1>1, <2>2, <3>1
    <3> QED
      BY <2>4, <3>1, <3>2
  <2>5. CASE j # 0 /\ j # i
    <3>1. j \in 0 .. (i - 1) /\ j - 1 \in 0 .. (i - 1)
      BY <2>5
    <3> QED
      BY <1>3, <2>2, <2>5, <3>1
  <2> QED
    BY <2>3, <2>4, <2>5
<1>5. h = [j \in 0 .. i |-> IF j = 0 THEN BootMem ELSE BuildStep(h[j - 1], j)]
  BY <1>1, <1>4
<1> QED
  BY <1>5 DEF Building

LEMMA BuildsIs ==
    /\ Builds[0] = BootMem
    /\ \A j \in 1 .. Len(KernelVa) : Builds[j] = BuildStep(Builds[j - 1], j)
<1>1. PICK n : n = Len(KernelVa) /\ n \in Nat
  BY KernelVaAssumption
<1> DEFINE S == {i \in 0 .. n : \E g : Building(g, i)}
<1>2. 0 \in S
  BY <1>1, BuildingFrom0
<1>3. \A i \in 1 .. n : i - 1 \in S => i \in S
  <2>1. SUFFICES ASSUME NEW i \in 1 .. n, i - 1 \in S
                 PROVE  i \in S
    OBVIOUS
  <2>2. PICK g : Building(g, i - 1)
    BY <2>1
  <2>3. i \in Nat \ {0} /\ i \in 0 .. n
    BY <1>1
  <2>4. \E h : Building(h, i)
    BY ONLY <2>2, <2>3, BuildingOn
  <2> QED
    BY <2>3, <2>4
<1>4. \A i \in 0 .. n : i \in S
  <2> HIDE DEF S
  <2> QED
    BY ONLY <1>1, <1>2, <1>3, Climb
<1>5. \E g : Building(g, n)
  BY <1>1, <1>4
<1>6. Building(Builds, n)
  BY <1>1, <1>5 DEF Builds
<1>7. Builds = [j \in 0 .. n |-> IF j = 0 THEN BootMem ELSE BuildStep(Builds[j - 1], j)]
  BY <1>6 DEF Building
<1>8. \A j \in 0 .. n : Builds[j] = IF j = 0 THEN BootMem ELSE BuildStep(Builds[j - 1], j)
  BY <1>7
<1> QED
  BY <1>1, <1>8

\* A call cannot succeed where an earlier one failed.
LEMMA DescendKeeps ==
    ASSUME NEW m, IsMem(m), NEW l, NEW v, NEW m2, m2 = Filled(m, l, v)
    PROVE  IsMem(m2) /\ m2.result = m.result
BY DEF Filled, IsMem, Descend, kallocPage

LEMMA VmmapKeeps ==
    ASSUME NEW m, IsMem(m), NEW r, NEW v, NEW x, NEW m2, m2 = vmmap(m, r, v, x)
    PROVE  IsMem(m2) /\ (m2.result = "ok" => m.result = "ok")
<1>1. PICK m0, m1, w : /\ m0 = [m EXCEPT !.at = r] /\ m1 = Filled(m0, 2, v)
                       /\ w = Filled(m1, 1, v)
  OBVIOUS
<1>2. IsMem(m0) /\ m0.result = m.result
  BY <1>1 DEF IsMem
<1>3. IsMem(m1) /\ m1.result = m.result
  <2>1. m1 = Filled(m0, 2, v)
    BY <1>1
  <2>2. IsMem(m1) /\ m1.result = m0.result
    BY ONLY <1>2, <2>1, DescendKeeps
  <2> QED
    BY <1>2, <2>2
<1>4. IsMem(w) /\ w.result = m.result
  BY <1>1, <1>3, DescendKeeps
<1>5. w = walk(m, r, v, TRUE)
  BY <1>1 DEF walk, Filled
<1>6. Behind(w, v, x, m2)
  <2>1. IsMem(w) /\ w = walk(m, r, v, TRUE) /\ m2 = vmmap(m, r, v, x)
    BY <1>4, <1>5
  <2> QED
    BY ONLY <2>1, VmmapIs
<1> QED
  BY <1>4, <1>6 DEF Behind

\* While the kernel boots there is one top-level table, and no memory of users.
Fresh(lev) == \A p \in Frame : lev[p] \in {Free, 0, 1, 2} /\ (lev[p] = 2 => p = KRoot)

Built(m, i, lev, home) ==
    /\ Sound(m, lev, home) /\ Fresh(lev)
    /\ \A j \in 1 .. i : Tr(m.table, KRoot, KernelVa[j]) = Kernel(KernelVa[j])

LEMMA BootBuilt == IsMem(BootMem) /\ \E lev, home : Built(BootMem, 0, lev, home)
<1>1. PICK f, t : f = Frame \ {1} /\ t = [p \in Frame |-> Empty]
  OBVIOUS
<1>2. BootMem.free = f /\ BootMem.table = t /\ IsMem(BootMem)
  BY <1>1 DEF BootMem, IsMem
<1>3. PICK lev, home : /\ lev = [p \in Frame |-> IF p = KRoot THEN 2 ELSE Free]
                       /\ home = [p \in Frame |-> <<KRoot, 0>>]
  OBVIOUS
<1>4. 0 \in Entry /\ KRoot = 1 /\ KRoot \in Frame /\ Free = -2
  BY KAssumption, PageTyped DEF Entry, KRoot, Free
<1>5. /\ lev \in [Frame -> -4 .. 2] /\ home \in [Frame -> Slot] /\ lev[KRoot] = 2
      /\ t \in [Frame -> [Entry -> EntryType]]
  <2>1. lev \in [Frame -> -4 .. 2] /\ lev[KRoot] = 2
    BY <1>3, <1>4
  <2>2. home \in [Frame -> Slot]
    BY <1>3, <1>4 DEF Slot
  <2>3. t \in [Frame -> [Entry -> EntryType]]
    BY <1>1, EmptyTyped
  <2> QED
    BY <2>1, <2>2, <2>3
<1>6. f = {p \in Frame : lev[p] = Free}
  BY <1>1, <1>3, <1>4
<1>7. \A p \in Frame, e \in Entry : t[p][e] = None
  BY <1>1 DEF Empty
<1>8. \A p \in Frame, e \in Entry : lev[p] \in 0 .. 2 => Fits(t, lev, home, p, e)
  BY <1>7 DEF Fits
<1>9. \A q \in Frame : lev[q] \notin -1 .. 1
  BY <1>3, <1>4
<1>10. ASSUME NEW q \in Frame, lev[q] \in -1 .. 1
       PROVE  /\ lev[home[q][1]] = lev[q] + 1
              /\ t[home[q][1]][home[q][2]] = Points(lev[q] + 1, q)
  BY <1>9, <1>10
<1>11. ASSUME NEW p \in Frame, NEW e \in Entry, lev[p] = 2, t[KRoot][e] # None
       PROVE  t[p][e] = t[KRoot][e]
  BY <1>4, <1>7, <1>11
<1>12. Shape(f, t, lev, home)
  BY ONLY <1>5, <1>6, <1>8, <1>10, <1>11, PageTyped DEF Shape
<1>13. Fresh(lev)
  BY <1>3, <1>4 DEF Fresh
<1>14. \A j \in 1 .. 0 : FALSE
  OBVIOUS
<1> QED
  BY <1>2, <1>12, <1>13, <1>14 DEF Built, Sound

LEMMA BuildGood ==
    ASSUME NEW i, i \in 1 .. Len(KernelVa), NEW m, NEW lev, NEW home, Built(m, i - 1, lev, home),
           NEW m2, m2 = BuildStep(m, i), m2.result = "ok"
    PROVE  \E lev2, home2 : Built(m2, i, lev2, home2)
<1>1. PICK v : v = KernelVa[i] /\ v \in Va /\ i \in Nat
  BY KernelVaAssumption
<1>2. Sound(m, lev, home) /\ Fresh(lev) /\ lev[KRoot] = 2
  BY DEF Built, Sound, Shape
<1>3. Alone(KRoot, lev)
  BY <1>2 DEF Fresh, Alone
<1>4. PICK lev2, home2 : MapsKernel(m, lev, v, m2, lev2, home2)
  <2>1. m2 = vmmap(m, KRoot, v, Kernel(v)) /\ v \in Va /\ m2.result = "ok"
    BY <1>1 DEF BuildStep, KRoot
  <2> QED
    BY ONLY <1>2, <1>3, <2>1, MapsKernelGood
<1>5. /\ Sound(m2, lev2, home2) /\ Grown(lev, lev2)
      /\ Enters(m.table, m2.table, lev, KRoot, v, Kernel(v))
  BY <1>4 DEF MapsKernel
<1>6. Fresh(lev2)
  BY <1>2, <1>5 DEF Fresh, Grown, Free
<1>7. ASSUME NEW j \in 1 .. i
      PROVE  Tr(m2.table, KRoot, KernelVa[j]) = Kernel(KernelVa[j])
  <2>1. CASE j = i
    BY <1>1, <1>5, <2>1 DEF Enters
  <2>2. CASE j # i
    <3>1. j \in 1 .. (i - 1) /\ j \in 1 .. Len(KernelVa)
      BY <1>1, <2>2
    <3>2. Tr(m.table, KRoot, KernelVa[j]) = Kernel(KernelVa[j])
      BY <3>1 DEF Built
    <3>3. Kernel(KernelVa[j]) # None /\ KernelVa[j] \in Va
      BY <3>1, KernelVaAssumption, LevelsDiffer
    <3> QED
      BY <1>2, <1>5, <3>2, <3>3, PageTyped DEF Enters
  <2> QED
    BY <2>1, <2>2
<1> QED
  BY <1>5, <1>6, <1>7 DEF Built

LEMMA KernelBuilt ==
    /\ IsMem(KernelMemory)
    /\ \E lev, home : Built(KernelMemory, Len(KernelVa), lev, home)
<1>1. PICK n : n = Len(KernelVa) /\ n \in Nat
  BY KernelVaAssumption
<1> DEFINE S == {i \in 0 .. n : /\ IsMem(Builds[i])
                                /\ Builds[i].result = "ok" =>
                                      \E lev, home : Built(Builds[i], i, lev, home)}
<1>2. 0 \in S
  BY <1>1, BootBuilt, BuildsIs
<1>3. \A i \in 1 .. n : i - 1 \in S => i \in S
  <2>1. SUFFICES ASSUME NEW i \in 1 .. n, i - 1 \in S
                 PROVE  i \in S
    OBVIOUS
  <2>2. PICK m, m2 : m = Builds[i - 1] /\ m2 = Builds[i]
    OBVIOUS
  <2>3. i \in 1 .. Len(KernelVa) /\ i \in 0 .. n /\ m2 = BuildStep(m, i)
    BY <1>1, <2>2, BuildsIs
  <2>4. IsMem(m) /\ (m.result = "ok" => \E lev, home : Built(m, i - 1, lev, home))
    BY <2>1, <2>2
  <2>5. IsMem(m2) /\ (m2.result = "ok" => m.result = "ok")
    BY <2>3, <2>4, VmmapKeeps DEF BuildStep
  <2>6. ASSUME m2.result = "ok"
        PROVE  \E lev, home : Built(m2, i, lev, home)
    <3>1. PICK lev, home : Built(m, i - 1, lev, home)
      BY <2>4, <2>5, <2>6
    <3> QED
      BY ONLY <2>3, <2>6, <3>1, BuildGood
  <2> QED
    BY <2>2, <2>3, <2>5, <2>6
<1>4. \A i \in 0 .. n : i \in S
  <2> HIDE DEF S
  <2> QED
    BY ONLY <1>1, <1>2, <1>3, Climb
<1>5. n \in S
  BY <1>1, <1>4
<1> QED
  BY <1>1, <1>5, KernelMemoryIs, KernelAssumption

\* Memory as it is when the machine starts satisfies the invariant.
LEMMA StartGood ==
    /\ KernelMemory.result = "ok"
    /\ \E lev, home :
          /\ Shape(KernelMemory.free, KernelMemory.table, lev, home)
          /\ KernelThere(KernelMemory.table, lev)
          /\ Fresh(lev) /\ lev[KRoot] = 2
<1>1. PICK lev, home : Built(KernelMemory, Len(KernelVa), lev, home)
  BY KernelBuilt
<1>2. /\ Shape(KernelMemory.free, KernelMemory.table, lev, home) /\ Fresh(lev) /\ lev[KRoot] = 2
  BY <1>1 DEF Built, Sound, Shape
<1>3. KernelThere(KernelMemory.table, lev)
  BY <1>1 DEF Built, KernelThere, Fresh
<1> QED
  BY <1>2, <1>3, KernelAssumption

-----------------------------------------------------------------------------
(***************************************************************************)
(* uvmalloc, page by page.                                                 *)
(***************************************************************************)
Undo(u, r, old, s) == [Rollback(u, r, old, s - 1) EXCEPT !.result = "failed"]

GrowStep(g, r, old, s) ==
    LET p == Lowest(g.free)
        v == vmmap(kallocPage(g), r, s - 1, User(p))
    IN  IF g.result # "ok" THEN g
        ELSE IF g.free = {} THEN Undo(g, r, old, s)
        ELSE IF v.result = "failed"
        THEN Undo([v EXCEPT !.free = @ \cup {p}, !.result = "ok"], r, old, s)
        ELSE v

Growing(g, m, r, old, k) ==
    g = [s \in old .. k |-> IF s = old THEN m ELSE GrowStep(g[s - 1], r, old, s)]
Grows(m, r, old, new) == CHOOSE g : Growing(g, m, r, old, new)

LEMMA UvmallocIs ==
    ASSUME NEW m, NEW r, NEW old, NEW new
    PROVE  uvmalloc(m, r, old, new) = Grows(m, r, old, new)[new]
BY DEF uvmalloc, Grows, Growing, GrowStep, Undo

LEMMA GrowingFromOld ==
    ASSUME NEW m, NEW r, NEW old \in Nat
    PROVE  \E g : Growing(g, m, r, old, old)
<1>1. PICK g : g = [s \in old .. old |-> m]
  OBVIOUS
<1>2. \A s \in old .. old : s = old
  OBVIOUS
<1>3. g = [s \in old .. old |-> IF s = old THEN m ELSE GrowStep(g[s - 1], r, old, s)]
  BY <1>1, <1>2
<1> QED
  BY <1>3 DEF Growing

LEMMA GrowingOn ==
    ASSUME NEW m, NEW r, NEW old \in Nat, NEW i \in Nat, old < i, NEW g,
           Growing(g, m, r, old, i - 1)
    PROVE  \E h : Growing(h, m, r, old, i)
<1>1. PICK h : h = [s \in old .. i |-> IF s = i THEN GrowStep(g[i - 1], r, old, i) ELSE g[s]]
  OBVIOUS
<1>2. g = [s \in old .. (i - 1) |-> IF s = old THEN m ELSE GrowStep(g[s - 1], r, old, s)]
  BY DEF Growing
<1>3. \A s \in old .. (i - 1) : g[s] = IF s = old THEN m ELSE GrowStep(g[s - 1], r, old, s)
  BY <1>2
<1>4. \A s \in old .. i : h[s] = IF s = old THEN m ELSE GrowStep(h[s - 1], r, old, s)
  <2>1. SUFFICES ASSUME NEW s \in old .. i
                 PROVE  h[s] = IF s = old THEN m ELSE GrowStep(h[s - 1], r, old, s)
    OBVIOUS
  <2>2. \A k \in old .. (i - 1) : k \in old .. i /\ k # i /\ h[k] = g[k]
    BY <1>1
  <2>3. CASE s = old
    <3>1. old \in old .. (i - 1)
      OBVIOUS
    <3> QED
      BY <1>3, <2>2, <2>3, <3>1
  <2>4. CASE s = i
    <3>1. i - 1 \in old .. (i - 1) /\ i # old
      OBVIOUS
    <3>2. h[i - 1] = g[i - 1] /\ h[i] = GrowStep(g[i - 1], r, old, i)
      BY <1>1, <2>2, <3>1
    <3> QED
      BY <2>4, <3>1, <3>2
  <2>5. CASE s # old /\ s # i
    <3>1. s \in old .. (i - 1) /\ s - 1 \in old .. (i - 1)
      BY <2>5
    <3> QED
      BY <1>3, <2>2, <2>5, <3>1
  <2> QED
    BY <2>3, <2>4, <2>5
<1>5. h = [s \in old .. i |-> IF s = old THEN m ELSE GrowStep(h[s - 1], r, old, s)]
  BY <1>1, <1>4
<1> QED
  BY <1>5 DEF Growing

\* Climb, from old on.
LEMMA ClimbFrom ==
    ASSUME NEW old \in Nat, NEW new \in Nat, old <= new, NEW S, old \in S,
           \A i \in (old + 1) .. new : i - 1 \in S => i \in S
    PROVE  \A i \in old .. new : i \in S
<1> DEFINE B == {i \in old .. new : i \notin S}
<1>1. CASE B = {}
  BY <1>1
<1>2. CASE B # {}
  <2>1. B \in SUBSET Nat
    OBVIOUS
  <2>2. PICK i \in B : \A k \in B : i <= k
    BY <1>2, <2>1, LeastNumber
  <2>3. i \in old .. new /\ i \notin S /\ i # old
    BY <2>2
  <2>4. i \in (old + 1) .. new /\ i - 1 \in old .. new /\ ~ (i <= i - 1)
    BY <2>3
  <2>5. i - 1 \in S
    BY <2>2, <2>4
  <2> QED
    BY <2>3, <2>4, <2>5
<1> QED
  BY <1>1, <1>2

LEMMA GrowsIs ==
    ASSUME NEW m, NEW r, NEW old \in Nat, NEW new \in Nat, old <= new,
           NEW g, g = Grows(m, r, old, new)
    PROVE  g[old] = m /\ \A s \in (old + 1) .. new : g[s] = GrowStep(g[s - 1], r, old, s)
<1> DEFINE S == {i \in old .. new : \E h : Growing(h, m, r, old, i)}
<1>1. old \in Nat /\ new \in Nat /\ old <= new
  OBVIOUS
<1>2. old \in S
  BY GrowingFromOld
<1>3. \A i \in (old + 1) .. new : i - 1 \in S => i \in S
  <2>1. SUFFICES ASSUME NEW i \in (old + 1) .. new, i - 1 \in S
                 PROVE  i \in S
    OBVIOUS
  <2>2. PICK h : Growing(h, m, r, old, i - 1)
    BY <2>1
  <2>3. i \in Nat /\ old < i /\ i \in old .. new /\ old \in Nat
    OBVIOUS
  <2>4. \E k : Growing(k, m, r, old, i)
    BY ONLY <2>2, <2>3, GrowingOn
  <2> QED
    BY <2>3, <2>4
<1>4. \A i \in old .. new : i \in S
  <2> HIDE DEF S
  <2> QED
    BY ONLY <1>1, <1>2, <1>3, ClimbFrom
<1>5. \E h : Growing(h, m, r, old, new)
  BY <1>4
<1>6. Growing(g, m, r, old, new)
  BY <1>5 DEF Grows
<1>7. g = [s \in old .. new |-> IF s = old THEN m ELSE GrowStep(g[s - 1], r, old, s)]
  BY <1>6 DEF Growing
<1>8. \A s \in old .. new : g[s] = IF s = old THEN m ELSE GrowStep(g[s - 1], r, old, s)
  BY <1>7
<1> QED
  BY <1>8

\* Of all translations only those of lo .. hi - 1 differ between t and t2, and under every
\* root where they do, they are root r's, of pages that were free; there was none before.
Spans(t, t2, lev, r, lo, hi) ==
    /\ \A u \in lo .. (hi - 1) :
          Tr(t, r, u) = None /\ \E p \in Frame : Tr(t2, r, u) = User(p) /\ lev[p] = Free
    /\ \A p \in Frame, u \in Va : lev[p] = 2 =>
          \/ Tr(t2, p, u) = Tr(t, p, u)
          \/ u \in lo .. (hi - 1) /\ Tr(t, p, u) = None /\ Tr(t2, p, u) = Tr(t2, r, u)

Allocated(m, lev, r, lo, hi, m2, lev2, home2) ==
    Sound(m2, lev2, home2) /\ Uses(lev, lev2) /\ Spans(m.table, m2.table, lev, r, lo, hi)

\* One more page.
LEMMA SpansEnters ==
    ASSUME NEW t, NEW t1, NEW t2, NEW t3, NEW lev, NEW lev1, NEW r, NEW lo, NEW hi,
           r \in Frame, lev[r] = 2, lo \in Nat, hi \in Va, lo <= hi,
           Spans(t, t1, lev, r, lo, hi), Same(t1, t2, lev1),
           \A q \in Frame : lev[q] = 2 => lev1[q] = 2, NEW lev2, \A q \in Frame : lev[q] = 2 => lev2[q] = 2,
           NEW p, p \in Frame, lev[p] = Free, Enters(t2, t3, lev2, r, hi, User(p))
    PROVE  Spans(t, t3, lev, r, lo, hi + 1)
<1>1. hi \in Nat /\ lo .. hi \subseteq Va
  BY KAssumption DEF Va
<1>2. \A q \in Frame, u \in Va : lev[q] = 2 => Tr(t2, q, u) = Tr(t1, q, u)
  BY DEF Same
<1>3. Tr(t2, r, hi) = None /\ Tr(t3, r, hi) = User(p)
      /\ \A q \in Frame, u \in Va : lev[q] = 2 =>
            \/ Tr(t3, q, u) = Tr(t2, q, u)
            \/ u = hi /\ Tr(t2, q, u) = None /\ Tr(t3, q, u) = User(p)
  BY DEF Enters
<1>4. /\ \A u \in lo .. (hi - 1) :
            Tr(t, r, u) = None /\ \E q \in Frame : Tr(t1, r, u) = User(q) /\ lev[q] = Free
      /\ \A q \in Frame, u \in Va : lev[q] = 2 =>
            \/ Tr(t1, q, u) = Tr(t, q, u)
            \/ u \in lo .. (hi - 1) /\ Tr(t, q, u) = None /\ Tr(t1, q, u) = Tr(t1, r, u)
  BY DEF Spans
<1>5. ASSUME NEW u \in lo .. hi
      PROVE  Tr(t, r, u) = None /\ \E q \in Frame : Tr(t3, r, u) = User(q) /\ lev[q] = Free
  <2>1. CASE u = hi
    BY <1>2, <1>3, <1>4, <2>1
  <2>2. CASE u # hi
    <3>1. u \in lo .. (hi - 1) /\ u \in Va
      BY <1>1, <2>2
    <3>2. Tr(t3, r, u) = Tr(t1, r, u)
      BY <1>2, <1>3, <2>2, <3>1
    <3> QED
      BY <1>4, <3>1, <3>2
  <2> QED
    BY <2>1, <2>2
<1>6. ASSUME NEW q \in Frame, NEW u \in Va, lev[q] = 2
      PROVE  \/ Tr(t3, q, u) = Tr(t, q, u)
             \/ u \in lo .. hi /\ Tr(t, q, u) = None /\ Tr(t3, q, u) = Tr(t3, r, u)
  <2>1. CASE u = hi
    <3>1. u \in lo .. hi /\ u \notin lo .. (hi - 1)
      BY <1>1, <2>1
    <3>2. Tr(t1, q, u) = Tr(t, q, u)
      BY <1>4, <1>6, <3>1
    <3> QED
      BY <1>2, <1>3, <1>6, <2>1, <3>1, <3>2
  <2>2. CASE u # hi
    <3>1. Tr(t3, q, u) = Tr(t1, q, u) /\ Tr(t3, r, u) = Tr(t1, r, u)
      BY <1>2, <1>3, <1>6, <2>2
    <3>2. u \in lo .. (hi - 1) => u \in lo .. hi
      BY <1>1
    <3> QED
      BY <1>4, <1>6, <3>1, <3>2
  <2> QED
    BY <2>1, <2>2
<1>7. PICK k : k = hi + 1 /\ k - 1 = hi
  BY <1>1
<1>8. Spans(t, t3, lev, r, lo, k)
  BY ONLY <1>5, <1>6, <1>7 DEF Spans
<1> QED
  BY <1>7, <1>8

\* Tables that translate alike.
LEMMA SpansSame ==
    ASSUME NEW t, NEW t1, NEW t2, NEW lev, NEW r, NEW lo, NEW hi, r \in Frame, lev[r] = 2,
           lo \in Nat, hi \in Nat, hi <= K * K * K,
           Spans(t, t1, lev, r, lo, hi),
           \A q \in Frame, u \in Va : lev[q] = 2 => Tr(t2, q, u) = Tr(t1, q, u)
    PROVE  Spans(t, t2, lev, r, lo, hi)
<1>1. lo .. (hi - 1) \subseteq Va
  <2>1. K * K * K \in Nat
    BY KAssumption
  <2> QED
    BY <2>1 DEF Va
<1> QED
  BY <1>1 DEF Spans

\* The slots of addresses S under root r, and their pages taken away.
SlotsOf(t, r, S) == {<<Reach(t, r, v), PX(0, v)>> : v \in S}

LEMMA UnmapIs ==
    ASSUME NEW m, IsMem(m), NEW r, NEW S \in SUBSET Va, NEW m2, m2 = Unmap(m, r, S)
    PROVE  /\ IsMem(m2) /\ m2.result = m.result
           /\ m2.free = Gone(m.free, m.table, SlotsOf(m.table, r, S))
           /\ m2.table = Cut(m.table, SlotsOf(m.table, r, S))
<1>1. ASSUME NEW v
      PROVE  walk(m, r, v, FALSE).at = Reach(m.table, r, v)
  <2>1. walk(m, r, v, FALSE) = Placed(m, Reach(m.table, r, v))
    BY WalkFinds
  <2>2. Placed(m, Reach(m.table, r, v)).at = Reach(m.table, r, v)
    BY PlacedIs
  <2> QED
    BY <2>1, <2>2
<1>2. {<<walk(m, r, v, FALSE).at, PX(0, v)>> : v \in S} = SlotsOf(m.table, r, S)
  <2>1. ASSUME NEW v \in S
        PROVE  <<walk(m, r, v, FALSE).at, PX(0, v)>> = <<Reach(m.table, r, v), PX(0, v)>>
    BY <1>1
  <2> DEFINE A == {<<walk(m, r, v, FALSE).at, PX(0, v)>> : v \in S}
  <2>2. \A x : x \in A => x \in SlotsOf(m.table, r, S)
    BY <2>1 DEF SlotsOf
  <2>3. \A x : x \in SlotsOf(m.table, r, S) => x \in A
    BY <2>1 DEF SlotsOf
  <2> QED
    BY <2>2, <2>3
<1>3. m2 = [m EXCEPT !.free = @ \cup {m.table[s[1]][s[2]].to : s \in SlotsOf(m.table, r, S)},
                     !.table = [p \in Frame |-> [e \in Entry |->
                                 IF <<p, e>> \in SlotsOf(m.table, r, S) THEN None ELSE @[p][e]]]]
  BY <1>2 DEF Unmap
<1>4. IsMem(m2) /\ m2.result = m.result
  BY <1>3 DEF IsMem
<1>5. m2.free = m.free \cup {m.table[s[1]][s[2]].to : s \in SlotsOf(m.table, r, S)}
  BY <1>3 DEF IsMem
<1>6. m2.table = [p \in Frame |-> [e \in Entry |->
                    IF <<p, e>> \in SlotsOf(m.table, r, S) THEN None ELSE m.table[p][e]]]
  BY <1>3 DEF IsMem
<1> QED
  BY <1>4, <1>5, <1>6 DEF Gone, Cut

\* A translation is an entry of a last table: the kernel's, or the one slot of a user page.
LEMMA TrFits ==
    ASSUME NEW f, NEW t, NEW lev, NEW home, Shape(f, t, lev, home),
           NEW r, r \in Frame, lev[r] = 2, NEW v, v \in Va, Tr(t, r, v) # None
    PROVE  /\ Reach(t, r, v) \in Frame /\ lev[Reach(t, r, v)] = 0
           /\ Tr(t, r, v) = t[Reach(t, r, v)][PX(0, v)]
           /\ \/ Tr(t, r, v).kind = "kernel"
              \/ \E q \in Frame : /\ Tr(t, r, v) = User(q) /\ Tr(t, r, v).kind = "user"
                                  /\ lev[q] = Users /\ home[q] = <<Reach(t, r, v), PX(0, v)>>
<1>1. Reach(t, r, v) # NoFrame
  BY DEF Tr
<1>2. PICK a \in Frame : a = Reach(t, r, v) /\ lev[a] = 0
  BY <1>1, ReachDown
<1>3. PICK e \in Entry : e = PX(0, v)
  BY PXDigits
<1>4. Tr(t, r, v) = t[a][e]
  BY <1>1, <1>2, <1>3 DEF Tr
<1>5. Fits(t, lev, home, a, e)
  BY <1>2 DEF Shape
<1>6. CASE t[a][e].kind = "kernel"
  BY <1>2, <1>3, <1>4, <1>6
<1>7. CASE t[a][e].kind # "kernel"
  <2>1. PICK q \in Frame : /\ t[a][e] = Points(lev[a], q) /\ lev[q] = lev[a] - 1
                           /\ home[q] = <<a, e>>
    BY <1>2, <1>4, <1>5, <1>7 DEF Fits
  <2>2. t[a][e] = User(q) /\ User(q).kind = "user" /\ lev[q] = Users
    BY <1>2, <2>1 DEF Points, User, Users
  <2> QED
    BY <1>2, <1>3, <1>4, <2>1, <2>2
<1> QED
  BY <1>6, <1>7

\* Two roots that translate an address to the same user page share the kernel's table.
LEMMA SharedTop ==
    ASSUME NEW f, NEW t, NEW lev, NEW home, Shape(f, t, lev, home),
           NEW p, p \in Frame, lev[p] = 2, NEW r, r \in Frame, lev[r] = 2, p # r, NEW v, v \in Va,
           NEW x, Tr(t, p, v) = User(x), Tr(t, r, v) = User(x)
    PROVE  t[KRoot][PX(2, v)] # None
<1>1. PICK i : i = PX(2, v)
  OBVIOUS
<1>2. ASSUME NEW s \in Frame, lev[s] = 2, Tr(t, s, v) = User(x)
      PROVE  \E q, a \in Frame :
                /\ lev[q] = 1 /\ lev[a] = 0 /\ home[x] = <<a, PX(0, v)>>
                /\ home[a] = <<q, PX(1, v)>> /\ (home[q] = <<s, i>> \/ home[q] = <<KRoot, i>>)
  <2>1. Tr(t, s, v) # None /\ User(x).kind = "user" /\ User(x).to = x
    BY <1>2 DEF User, None
  <2>2. s \in Frame /\ lev[s] = 2 /\ v \in Va /\ Shape(f, t, lev, home)
    BY <1>2
  <2>3. PICK a : a = Reach(t, s, v)
    OBVIOUS
  <2>4. /\ a \in Frame /\ \/ Tr(t, s, v).kind = "kernel"
                          \/ \E y \in Frame : Tr(t, s, v) = User(y) /\ home[y] = <<a, PX(0, v)>>
    BY ONLY <2>1, <2>2, <2>3, TrFits
  <2>5. home[x] = <<a, PX(0, v)>>
    <3>1. Tr(t, s, v).kind # "kernel"
      BY <1>2, <2>1
    <3>2. PICK y \in Frame : Tr(t, s, v) = User(y) /\ home[y] = <<a, PX(0, v)>>
      BY <2>4, <3>1
    <3>3. User(y) = User(x)
      BY <1>2, <3>2
    <3>4. y = x
      BY ONLY <3>3, LevelsDiffer
    <3> QED
      BY <3>2, <3>4
  <2>6. a # NoFrame
    BY <2>4, PageTyped
  <2>7. PICK q \in Frame :
              /\ t[s][i] = Table(q) /\ lev[q] = 1 /\ lev[a] = 0 /\ home[a] = <<q, PX(1, v)>>
    <3>1. Reach(t, s, v) # NoFrame
      BY <2>3, <2>6
    <3> QED
      BY <1>1, <2>2, <2>3, <3>1, ReachDown
  <2>8. i \in Entry /\ lev[s] \in 0 .. 2
    BY <1>1, <1>2, PXDigits
  <2>9. Fits(t, lev, home, s, i)
    BY <2>2, <2>8 DEF Shape
  <2>10. t[s][i] # None /\ lev[s] # 0
    BY <1>2, <2>7, LevelsDiffer
  <2>11. PICK y \in Frame : t[s][i].to = y /\ (home[y] = <<s, i>> \/ home[y] = <<KRoot, i>>)
    BY <2>9, <2>10, EntryFits
  <2>12. y = q
    <3>1. Table(q).to = q
      BY DEF Table
    <3> QED
      BY <2>7, <2>11, <3>1
  <2> QED
    BY <2>4, <2>5, <2>7, <2>11, <2>12
<1>3. PICK q, a \in Frame :
              /\ lev[q] = 1 /\ home[x] = <<a, PX(0, v)>>
              /\ home[a] = <<q, PX(1, v)>> /\ (home[q] = <<p, i>> \/ home[q] = <<KRoot, i>>)
  BY <1>2
<1>4. PICK b, c \in Frame :
              /\ lev[b] = 1 /\ home[x] = <<c, PX(0, v)>>
              /\ home[c] = <<b, PX(1, v)>> /\ (home[b] = <<r, i>> \/ home[b] = <<KRoot, i>>)
  BY <1>2
<1>5. q = b
  <2>1. a = c
    BY <1>3, <1>4
  <2> QED
    BY <1>3, <1>4, <2>1
<1>6. home[q] = <<KRoot, i>>
  BY <1>3, <1>4, <1>5
<1>7. t[KRoot][i] = Points(lev[q] + 1, q)
  <2>1. lev[q] \in -1 .. 1
    BY <1>3
  <2>2. t[home[q][1]][home[q][2]] = Points(lev[q] + 1, q)
    BY <1>3, <2>1 DEF Shape
  <2> QED
    BY <1>6, <2>2
<1> QED
  BY <1>1, <1>3, <1>7, PointsAre

LEMMA UnmapGood ==
    ASSUME NEW m, NEW lev, NEW home, Sound(m, lev, home),
           NEW r, r \in Frame, lev[r] = 2, NEW S, S \in SUBSET Va,
           \A v \in S : Tr(m.table, r, v) # None /\ Tr(m.table, r, v).kind # "kernel",
           NEW X, X = SlotsOf(m.table, r, S), NEW m2, m2 = Unmap(m, r, S)
    PROVE  /\ Sound(m2, Loose(lev, home, X), home) /\ m2.result = m.result
           /\ X \in SUBSET Slot /\ \A x \in X : lev[x[1]] = 0
           /\ m2.table = Cut(m.table, X)
<1>1. PICK t, f : t = m.table /\ f = m.free
  OBVIOUS
<1>2. Shape(f, t, lev, home) /\ IsMem(m)
  BY <1>1 DEF Sound
<1>3. \A x \in X : x \in Slot /\ lev[x[1]] = 0 /\ t[x[1]][x[2]].kind = "user"
  <2>1. SUFFICES ASSUME NEW v \in S
                 PROVE  PX(0, v) \in Entry /\ Reach(t, r, v) \in Frame /\ lev[Reach(t, r, v)] = 0
                        /\ t[Reach(t, r, v)][PX(0, v)].kind = "user"
    BY <1>1 DEF SlotsOf, Slot
  <2>2. v \in Va /\ Tr(t, r, v) # None /\ Tr(t, r, v).kind # "kernel"
    BY <1>1, <2>1
  <2>3. r \in Frame /\ lev[r] = 2
    OBVIOUS
  <2>4. /\ Reach(t, r, v) \in Frame /\ lev[Reach(t, r, v)] = 0
        /\ Tr(t, r, v) = t[Reach(t, r, v)][PX(0, v)]
    BY ONLY <1>2, <2>2, <2>3, TrFits
  <2>5. Tr(t, r, v).kind = "user"
    BY ONLY <1>2, <2>2, <2>3, TrFits
  <2> QED
    BY <2>2, <2>4, <2>5, PXDigits
<1>4. X \in SUBSET Slot
  BY <1>3
<1>5. Shape(Gone(f, t, X), Cut(t, X), Loose(lev, home, X), home)
  BY ONLY <1>2, <1>3, <1>4, CutShape
<1>6. IsMem(m2) /\ m2.result = m.result /\ m2.free = Gone(f, t, X) /\ m2.table = Cut(t, X)
  BY <1>1, <1>2, UnmapIs
<1> QED
  BY <1>1, <1>3, <1>4, <1>5, <1>6 DEF Sound

\* uvmunmap of pages that are mapped, none of them the kernel's.
LEMMA UvmunmapIs ==
    ASSUME NEW m, NEW r, NEW S,
           \A v \in S : Tr(m.table, r, v) # None /\ Tr(m.table, r, v).kind # "kernel"
    PROVE  uvmunmap(m, r, S) = Unmap(m, r, S)
<1>1. \A v \in S : Translate(m.table, r, v) # None /\ Translate(m.table, r, v).kind # "kernel"
  BY TranslateFinds
<1>2. {v \in S : Translate(m.table, r, v) # None} = S
  BY <1>1
<1> QED
  BY <1>1, <1>2 DEF uvmunmap

\* The way back of uvmalloc takes away what it has added, and no more.
LEMMA RollbackGood ==
    ASSUME NEW m, NEW lev, NEW home, Sound(m, lev, home), NEW r, r \in Frame, lev[r] = 2,
           NEW lo, NEW hi, lo \in Nat, hi \in Nat, lo .. (hi - 1) \subseteq Va,
           NEW m2, NEW lev2, NEW home2, Allocated(m, lev, r, lo, hi, m2, lev2, home2),
           NEW m3, m3 = Rollback(m2, r, lo, hi)
    PROVE  (\E lev3, home3 : Allocated(m, lev, r, lo, lo, m3, lev3, home3)) /\ m3.result = m2.result
<1>1. PICK t, t2, f2, S, X : t = m.table /\ t2 = m2.table /\ f2 = m2.free /\ S = lo .. (hi - 1)
                             /\ X = SlotsOf(t2, r, S)
  OBVIOUS
<1>2. /\ Sound(m2, lev2, home2) /\ Shape(f2, t2, lev2, home2) /\ Uses(lev, lev2)
      /\ Spans(t, t2, lev, r, lo, hi) /\ S \in SUBSET Va /\ Shape(m.free, t, lev, home)
  BY <1>1 DEF Allocated, Sound
<1>3. /\ \A u \in S : Tr(t, r, u) = None /\ \E p \in Frame : Tr(t2, r, u) = User(p) /\ lev[p] = Free
      /\ \A p \in Frame, u \in Va : lev[p] = 2 =>
            \/ Tr(t2, p, u) = Tr(t, p, u)
            \/ u \in S /\ Tr(t, p, u) = None /\ Tr(t2, p, u) = Tr(t2, r, u)
  BY <1>1, <1>2 DEF Spans
<1>4. \A p \in Frame : lev[p] = 2 => lev2[p] = 2
  BY <1>2 DEF Uses, Free
<1>5. \A v \in S : Tr(t2, r, v) # None /\ Tr(t2, r, v).kind # "kernel"
  BY <1>3 DEF User, None
<1>6. m3 = Unmap(m2, r, S)
  <2>1. uvmunmap(m2, r, S) = Unmap(m2, r, S)
    BY <1>1, <1>5, UvmunmapIs
  <2> QED
    BY <1>1, <2>1 DEF Rollback
<1>7. /\ Sound(m3, Loose(lev2, home2, X), home2) /\ m3.result = m2.result
      /\ X \in SUBSET Slot /\ \A x \in X : lev2[x[1]] = 0
      /\ m3.table = Cut(t2, X)
  <2>1. \A v \in S : Tr(m2.table, r, v) # None /\ Tr(m2.table, r, v).kind # "kernel"
    BY <1>1, <1>5
  <2>2. X = SlotsOf(m2.table, r, S) /\ r \in Frame /\ lev2[r] = 2
    BY <1>1, <1>4
  <2>3. /\ Sound(m3, Loose(lev2, home2, X), home2) /\ m3.result = m2.result
        /\ X \in SUBSET Slot /\ \A x \in X : lev2[x[1]] = 0
        /\ m3.table = Cut(m2.table, X)
    BY ONLY <1>2, <1>6, <2>1, <2>2, UnmapGood
  <2> QED
    BY <1>1, <2>3
<1>8. PICK t3, lev3 : t3 = m3.table /\ lev3 = Loose(lev2, home2, X)
  OBVIOUS
<1>9. Uses(lev, lev3)
  <2>1. SUFFICES ASSUME NEW q \in Frame
                 PROVE  lev3[q] = lev[q] \/ (lev[q] = Free /\ lev3[q] \in -1 .. 1)
    BY DEF Uses
  <2>2. CASE lev2[q] = Users /\ home2[q] \in X
    <3>1. PICK u \in S : home2[q] = <<Reach(t2, r, u), PX(0, u)>>
      BY <1>1, <2>2 DEF SlotsOf
    <3>2. PICK p \in Frame : Tr(t2, r, u) = User(p) /\ lev[p] = Free
      BY <1>3
    <3>3. t2[home2[q][1]][home2[q][2]] = Points(0, q)
      BY <1>2, <2>2 DEF Shape, Users
    <3>4. Tr(t2, r, u) = User(q)
      <4>1. Tr(t2, r, u) = t2[Reach(t2, r, u)][PX(0, u)]
        BY <3>2, LevelsDiffer DEF Tr
      <4> QED
        BY <3>1, <3>3, <4>1 DEF Points
    <3>5. p = q
      BY <3>2, <3>4, LevelsDiffer
    <3> QED
      BY <1>8, <2>2, <3>2, <3>5 DEF Loose
  <2>3. CASE ~ (lev2[q] = Users /\ home2[q] \in X)
    BY <1>2, <1>8, <2>3 DEF Loose, Uses
  <2> QED
    BY <2>2, <2>3
<1>10. ASSUME NEW p \in Frame, NEW u \in Va, lev[p] = 2
       PROVE  Tr(t3, p, u) = Tr(t, p, u)
  <2>1. Tr(t3, p, u) = IF <<Reach(t2, p, u), PX(0, u)>> \in X THEN None ELSE Tr(t2, p, u)
    BY <1>2, <1>4, <1>7, <1>8, <1>10, CutTr
  <2>2. PICK a, e : a = Reach(t2, p, u) /\ e = PX(0, u)
    OBVIOUS
  <2>3. CASE <<a, e>> \in X
    <3>1. PICK w \in S : a = Reach(t2, r, w) /\ e = PX(0, w)
      BY <1>1, <2>3 DEF SlotsOf
    <3>2. PICK q \in Frame : Tr(t2, r, w) = User(q) /\ lev[q] = Free
      BY <1>3
    <3>3. a # NoFrame
      BY <3>1, <3>2, LevelsDiffer DEF Tr
    <3>4. Tr(t2, p, u) = User(q)
      BY <2>2, <3>1, <3>2, <3>3 DEF Tr
    <3>5. Tr(t, p, u) # User(q)
      <4>1. SUFFICES ASSUME Tr(t, p, u) = User(q)
                     PROVE  FALSE
        OBVIOUS
      <4>2. User(q) # None /\ User(q).kind # "kernel"
        BY DEF User, None
      <4>3. PICK x \in Frame : Tr(t, p, u) = User(x) /\ lev[x] = Users
        <5>1. Tr(t, p, u) # None /\ Tr(t, p, u).kind # "kernel"
          BY <4>1, <4>2
        <5>2. Shape(m.free, t, lev, home) /\ p \in Frame /\ lev[p] = 2 /\ u \in Va
          BY <1>2, <1>10
        <5> QED
          BY ONLY <5>1, <5>2, TrFits
      <4> QED
        <5>1. User(x) = User(q) /\ lev[x] = Users /\ lev[q] = Free
          BY <3>2, <4>1, <4>3
        <5>2. x = q
          BY ONLY <5>1, LevelsDiffer
        <5> QED
          BY ONLY <5>1, <5>2 DEF Users, Free
    <3> QED
      BY <1>3, <1>10, <2>1, <2>2, <2>3, <3>4, <3>5
  <2>4. CASE <<a, e>> \notin X
    <3>1. SUFFICES ASSUME Tr(t2, p, u) # Tr(t, p, u)
                   PROVE  FALSE
      BY <2>1, <2>2, <2>4
    <3>2. u \in S /\ Tr(t2, p, u) = Tr(t2, r, u) /\ Tr(t2, r, u) # None /\ Tr(t2, r, u).kind # "kernel"
      BY <1>3, <1>5, <1>10, <3>1
    <3>3. PICK q \in Frame : Tr(t2, p, u) = User(q) /\ home2[q] = <<a, e>>
      <4>1. Shape(f2, t2, lev2, home2) /\ p \in Frame /\ lev2[p] = 2 /\ u \in Va
        BY <1>2, <1>4, <1>10
      <4>2. Tr(t2, p, u) # None /\ Tr(t2, p, u).kind # "kernel"
        BY <3>2
      <4> QED
        BY ONLY <2>2, <4>1, <4>2, TrFits
    <3>4. PICK x \in Frame : Tr(t2, r, u) = User(x) /\ home2[x] = <<Reach(t2, r, u), PX(0, u)>>
      <4>1. Shape(f2, t2, lev2, home2) /\ r \in Frame /\ lev2[r] = 2 /\ u \in Va
        BY <1>2, <1>4, <1>10
      <4>2. Tr(t2, r, u) # None /\ Tr(t2, r, u).kind # "kernel"
        BY <3>2
      <4> QED
        BY ONLY <4>1, <4>2, TrFits
    <3>5. q = x
      BY <3>2, <3>3, <3>4, LevelsDiffer
    <3>6. <<Reach(t2, r, u), PX(0, u)>> \in X
      BY <1>1, <3>2 DEF SlotsOf
    <3> QED
      BY <2>4, <3>3, <3>4, <3>5, <3>6
  <2> QED
    BY <2>3, <2>4
<1>11. \A u \in lo .. (lo - 1) : FALSE
  OBVIOUS
<1>12. Spans(t, t3, lev, r, lo, lo)
  BY <1>10, <1>11 DEF Spans
<1>13. Allocated(m, lev, r, lo, lo, m3, lev3, home2)
  BY <1>1, <1>7, <1>8, <1>9, <1>12 DEF Allocated
<1> QED
  BY <1>7, <1>13

Undone(m, lev, r, lo, m2) ==
    m2.result = "failed" /\ \E lev2, home2 : Allocated(m, lev, r, lo, lo, m2, lev2, home2)

LEMMA UndoGood ==
    ASSUME NEW m, NEW lev, NEW home, Sound(m, lev, home), NEW r, r \in Frame, lev[r] = 2,
           NEW lo, NEW hi, lo \in Nat, hi \in Nat, lo .. (hi - 1) \subseteq Va,
           NEW m2, NEW lev2, NEW home2, Allocated(m, lev, r, lo, hi, m2, lev2, home2),
           NEW s, s - 1 = hi, NEW m3, m3 = Undo(m2, r, lo, s)
    PROVE  Undone(m, lev, r, lo, m3)
<1>1. PICK u : u = Rollback(m2, r, lo, hi)
  OBVIOUS
<1>2. \E lev3, home3 : Allocated(m, lev, r, lo, lo, u, lev3, home3)
  <2>1. /\ Sound(m, lev, home) /\ r \in Frame /\ lev[r] = 2
        /\ lo \in Nat /\ hi \in Nat /\ lo .. (hi - 1) \subseteq Va
        /\ Allocated(m, lev, r, lo, hi, m2, lev2, home2)
    OBVIOUS
  <2> QED
    BY ONLY <1>1, <2>1, RollbackGood
<1>3. PICK lev3, home3 : Allocated(m, lev, r, lo, lo, u, lev3, home3)
  BY <1>2
<1>4. m3 = [u EXCEPT !.result = "failed"]
  BY <1>1 DEF Undo
<1>5. IsMem(u)
  BY <1>3 DEF Allocated, Sound
<1>6. IsMem(m3) /\ m3.free = u.free /\ m3.table = u.table /\ m3.result = "failed"
  BY <1>4, <1>5 DEF IsMem
<1>7. Allocated(m, lev, r, lo, lo, m3, lev3, home3)
  BY <1>3, <1>6 DEF Allocated, Sound
<1> QED
  BY <1>6, <1>7 DEF Undone

\* What uvmalloc has done after the pages up to s.
Growth(m, lev, r, lo, s, g) ==
    \/ g.result = "ok" /\ \E lev2, home2 : Allocated(m, lev, r, lo, s, g, lev2, home2)
    \/ Undone(m, lev, r, lo, g)
    \/ g.result = "panic"

\* A page that vmmap could not map is given back.
LEMMA GivenBack ==
    ASSUME NEW m, NEW lev, NEW r, r \in Frame, lev[r] = 2, NEW lo, NEW hi, lo \in Nat, hi \in Va,
           NEW g, NEW lev1, NEW home1, Allocated(m, lev, r, lo, hi, g, lev1, home1),
           NEW p, p \in Frame, lev1[p] = Free, NEW k, Same(g.table, k.table, lev1),
           NEW v, NEW lev2, NEW home2, FailsTo(k, Set(lev1, p, Held), v, lev2, home2),
           NEW u, u = [v EXCEPT !.free = @ \cup {p}, !.result = "ok"]
    PROVE  \E lev3, home3 : Allocated(m, lev, r, lo, hi, u, lev3, home3)
<1>1. /\ Sound(v, lev2, home2) /\ Same(k.table, v.table, Set(lev1, p, Held))
      /\ Grown(Set(lev1, p, Held), lev2)
  BY DEF FailsTo
<1>2. /\ Sound(g, lev1, home1) /\ Uses(lev, lev1) /\ Spans(m.table, g.table, lev, r, lo, hi)
  BY DEF Allocated
<1>3. lev1 \in [Frame -> -4 .. 2] /\ lev2 \in [Frame -> -4 .. 2]
  BY <1>1, <1>2 DEF Sound, Shape
<1>4. PICK l : l = Set(lev1, p, Held) /\ l[p] = Held /\ \A q \in Frame : q # p => l[q] = lev1[q]
  BY <1>3, SetIs
<1>5. lev2[p] = Held
  BY <1>1, <1>4 DEF Grown, Held, Free
<1>6. PICK lev3 : lev3 = Set(lev2, p, Free) /\ lev3[p] = Free /\ \A q \in Frame : q # p => lev3[q] = lev2[q]
  BY <1>3, SetIs
<1>7. IsMem(u) /\ u.free = v.free \cup {p} /\ u.table = v.table
  BY <1>1 DEF Sound, IsMem
<1>8. Sound(u, lev3, home2)
  <2>1. PICK f, t, n, f2 : f = v.free /\ t = v.table /\ n = Free /\ f2 = u.free
    OBVIOUS
  <2>2. Shape(f, t, lev2, home2) /\ p \in Frame /\ n \in {Free, Lost} /\ lev3 = Set(lev2, p, n)
        /\ f2 = IF n = Free THEN f \cup {p} ELSE f
    BY <1>1, <1>6, <1>7, <2>1 DEF Sound
  <2>3. Shape(f2, t, lev3, home2)
    BY ONLY <1>5, <2>2, ReleaseShape
  <2> QED
    BY <1>7, <2>1, <2>3 DEF Sound
<1>9. Uses(lev, lev3)
  <2>1. ASSUME NEW q \in Frame
        PROVE  lev3[q] = lev[q] \/ (lev[q] = Free /\ lev3[q] \in -1 .. 1)
    <3>1. CASE q = p
      BY <1>2, <1>6, <3>1 DEF Uses
    <3>2. CASE q # p
      <4>1. lev3[q] = lev1[q] \/ (lev1[q] = Free /\ lev3[q] \in 0 .. 1)
        BY <1>1, <1>4, <1>6, <3>2 DEF Grown
      <4> QED
        BY <1>2, <4>1 DEF Uses
    <3> QED
      BY <3>1, <3>2
  <2> QED
    BY <2>1 DEF Uses
<1>10. \A q \in Frame : lev[q] = 2 => lev1[q] = 2 /\ l[q] = 2
  BY <1>2, <1>4 DEF Uses, Free
<1>11. \A q \in Frame, x \in Va : lev[q] = 2 => Tr(u.table, q, x) = Tr(g.table, q, x)
  BY <1>1, <1>4, <1>7, <1>10 DEF Same
<1>12. Spans(m.table, u.table, lev, r, lo, hi)
  <2>1. PICK t, t1, t2 : t = m.table /\ t1 = g.table /\ t2 = u.table
    OBVIOUS
  <2>2. hi \in Nat /\ hi <= K * K * K
    BY KAssumption DEF Va
  <2>3. r \in Frame /\ lev[r] = 2 /\ lo \in Nat
    OBVIOUS
  <2>4. Spans(t, t1, lev, r, lo, hi)
        /\ \A q \in Frame, x \in Va : lev[q] = 2 => Tr(t2, q, x) = Tr(t1, q, x)
    BY <1>2, <1>11, <2>1
  <2>5. Spans(t, t2, lev, r, lo, hi)
    BY ONLY <2>2, <2>3, <2>4, SpansSame
  <2> QED
    BY <2>1, <2>5
<1> QED
  BY <1>8, <1>9, <1>12 DEF Allocated

\* A page that vmmap has mapped extends the span.
LEMMA MappedOn ==
    ASSUME NEW m, NEW lev, NEW r, r \in Frame, lev[r] = 2, NEW lo, NEW hi, lo \in Nat, hi \in Va,
           lo <= hi,
           NEW g, NEW lev1, NEW home1, Allocated(m, lev, r, lo, hi, g, lev1, home1),
           NEW p, p \in Frame, lev1[p] = Free, NEW k, Same(g.table, k.table, lev1),
           NEW v, NEW lev2, NEW home2,
           MapsTo(k, Set(lev1, p, Held), r, hi, p, v, lev2, home2)
    PROVE  Allocated(m, lev, r, lo, hi + 1, v, lev2, home2)
<1>1. /\ Sound(v, lev2, home2) /\ Gets(Set(lev1, p, Held), p, Users, lev2)
      /\ Enters(k.table, v.table, Set(lev1, p, Held), r, hi, User(p))
  BY DEF MapsTo
<1>2. /\ Sound(g, lev1, home1) /\ Uses(lev, lev1) /\ Spans(m.table, g.table, lev, r, lo, hi)
  BY DEF Allocated
<1>3. lev1 \in [Frame -> -4 .. 2]
  BY <1>2 DEF Sound, Shape
<1>4. PICK l : l = Set(lev1, p, Held) /\ l[p] = Held /\ \A q \in Frame : q # p => l[q] = lev1[q]
  BY <1>3, SetIs
<1>5. lev[p] = Free
  BY <1>2 DEF Uses
<1>6. Uses(lev, lev2)
  <2>1. ASSUME NEW q \in Frame
        PROVE  lev2[q] = lev[q] \/ (lev[q] = Free /\ lev2[q] \in -1 .. 1)
    <3>1. CASE q = p
      BY <1>1, <1>5, <3>1 DEF Gets, Users
    <3>2. CASE q # p
      <4>1. lev2[q] = lev1[q] \/ (lev1[q] = Free /\ lev2[q] \in 0 .. 1)
        BY <1>1, <1>4, <3>2 DEF Gets
      <4> QED
        BY <1>2, <4>1 DEF Uses
    <3> QED
      BY <3>1, <3>2
  <2> QED
    BY <2>1 DEF Uses
<1>7. \A q \in Frame : lev[q] = 2 => lev1[q] = 2
  BY <1>2 DEF Uses, Free
<1>8. \A q \in Frame : lev[q] = 2 => l[q] = 2
  BY <1>4, <1>5, <1>7 DEF Free
<1>9. Spans(m.table, v.table, lev, r, lo, hi + 1)
  <2>1. PICK t, t1, t2, t3 : t = m.table /\ t1 = g.table /\ t2 = k.table /\ t3 = v.table
    OBVIOUS
  <2>2. r \in Frame /\ lev[r] = 2 /\ lo \in Nat /\ hi \in Va /\ lo <= hi /\ p \in Frame
    OBVIOUS
  <2>3. Spans(t, t1, lev, r, lo, hi) /\ Same(t1, t2, lev1) /\ Enters(t2, t3, l, r, hi, User(p))
    BY <1>1, <1>2, <1>4, <2>1
  <2>4. Spans(t, t3, lev, r, lo, hi + 1)
    BY ONLY <1>5, <1>7, <1>8, <2>2, <2>3, SpansEnters
  <2> QED
    BY <2>1, <2>4
<1> QED
  BY <1>1, <1>6, <1>9 DEF Allocated

LEMMA GrowGood ==
    ASSUME NEW m, NEW lev, NEW home, Sound(m, lev, home),
           NEW r, r \in Frame, lev[r] = 2, r # KRoot,
           NEW lo, NEW s, NEW hi, lo \in Nat, s \in Nat, hi = s - 1, hi \in Va, lo <= hi,
           NEW g, Growth(m, lev, r, lo, hi, g), NEW g2, g2 = GrowStep(g, r, lo, s)
    PROVE  Growth(m, lev, r, lo, s, g2)
<1>1. lo .. (hi - 1) \subseteq Va /\ hi \in Nat /\ hi + 1 = s /\ s - 1 = hi
  BY KAssumption DEF Va
<1>2. Sound(m, lev, home) /\ r \in Frame /\ lev[r] = 2 /\ r # KRoot /\ lo \in Nat /\ hi \in Va /\ lo <= hi
  OBVIOUS
<1>3. CASE g.result # "ok"
  <2>1. g2 = g
    BY <1>3 DEF GrowStep
  <2> QED
    BY <1>3, <2>1 DEF Growth
<1>4. ASSUME g.result = "ok", g.free = {}
      PROVE  Undone(m, lev, r, lo, g2)
  <2>1. g2 = Undo(g, r, lo, s)
    BY <1>4 DEF GrowStep
  <2>2. PICK lev2, home2 : Allocated(m, lev, r, lo, hi, g, lev2, home2)
    BY <1>4 DEF Growth, Undone
  <2> QED
    BY ONLY <1>1, <1>2, <2>1, <2>2, UndoGood
<1>5. ASSUME g.result = "ok", g.free # {}
      PROVE  Growth(m, lev, r, lo, s, g2)
  <2>1. PICK lev1, home1 : Allocated(m, lev, r, lo, hi, g, lev1, home1)
    BY <1>5 DEF Growth, Undone
  <2>2. Sound(g, lev1, home1) /\ Uses(lev, lev1) /\ g.free # {}
    BY <1>5, <2>1 DEF Allocated
  <2>3. PICK p, k, v : p = Lowest(g.free) /\ k = kallocPage(g) /\ v = vmmap(k, r, hi, User(p))
    OBVIOUS
  <2>4. g2 = IF v.result = "failed"
             THEN Undo([v EXCEPT !.free = @ \cup {p}, !.result = "ok"], r, lo, s)
             ELSE v
    BY <1>1, <1>5, <2>3 DEF GrowStep
  <2>5. p \in Frame /\ lev1[p] = Free /\ k.result = g.result
    BY ONLY <2>2, <2>3, KallocIs
  <2>6. Sound(k, Set(lev1, p, Held), home1) /\ Same(g.table, k.table, lev1)
    BY ONLY <2>2, <2>3, KallocSound
  <2>7. PICK l : l = Set(lev1, p, Held)
    OBVIOUS
  <2>8. l[p] = Held /\ l[r] = 2
    <3>1. DOMAIN lev1 = Frame
      BY <2>2 DEF Sound, Shape
    <3>2. lev1[r] = 2 /\ r # p
      BY <1>2, <2>2, <2>5 DEF Uses, Free
    <3> QED
      BY <1>2, <2>5, <2>7, <3>1, <3>2, SetIs
  <2>9. Alone(r, l)
    BY DEF Alone
  <2>10. \/ v.result = "panic" /\ IsMem(v)
         \/ \E lev2, home2 : FailsTo(k, l, v, lev2, home2)
         \/ \E lev2, home2 : MapsTo(k, l, r, hi, p, v, lev2, home2)
    <3>1. Sound(k, l, home1) /\ r \in Frame /\ hi \in Va
      BY <2>6, <2>7
    <3> QED
      BY ONLY <2>3, <2>5, <2>8, <2>9, <3>1, MapsUser
  <2>11. CASE v.result = "panic"
    <3>1. g2 = v
      BY <2>4, <2>11
    <3> QED
      BY <2>11, <3>1 DEF Growth
  <2>12. ASSUME NEW lev2, NEW home2, FailsTo(k, l, v, lev2, home2)
         PROVE  Undone(m, lev, r, lo, g2)
    <3>1. PICK u : u = [v EXCEPT !.free = @ \cup {p}, !.result = "ok"]
      OBVIOUS
    <3>2. g2 = Undo(u, r, lo, s)
      BY <2>4, <2>12, <3>1 DEF FailsTo
    <3>3. FailsTo(k, Set(lev1, p, Held), v, lev2, home2)
      BY <2>7, <2>12
    <3>4. PICK lev3, home3 : Allocated(m, lev, r, lo, hi, u, lev3, home3)
      BY ONLY <1>2, <2>1, <2>5, <2>6, <3>1, <3>3, GivenBack
    <3> QED
      BY ONLY <1>1, <1>2, <3>2, <3>4, UndoGood
  <2>13. ASSUME NEW lev2, NEW home2, MapsTo(k, l, r, hi, p, v, lev2, home2)
         PROVE  Growth(m, lev, r, lo, s, g2)
    <3>1. v.result = "ok"
      BY <1>5, <2>5, <2>13 DEF MapsTo
    <3>2. g2 = v
      BY <2>4, <3>1
    <3>3. MapsTo(k, Set(lev1, p, Held), r, hi, p, v, lev2, home2)
      BY <2>7, <2>13
    <3>4. Allocated(m, lev, r, lo, hi + 1, v, lev2, home2)
      BY ONLY <1>2, <2>1, <2>5, <2>6, <3>3, MappedOn
    <3> QED
      BY <1>1, <3>1, <3>2, <3>4 DEF Growth
  <2> QED
    BY <2>10, <2>11, <2>12, <2>13 DEF Growth
<1> QED
  BY <1>3, <1>4, <1>5 DEF Growth

LEMMA UvmallocGood ==
    ASSUME NEW m, NEW lev, NEW home, Sound(m, lev, home), m.result = "ok",
           NEW r, r \in Frame, lev[r] = 2, r # KRoot,
           NEW old, NEW new, old \in Nat, new \in Nat, old <= new, new - 1 \in Va,
           NEW m2, m2 = uvmalloc(m, r, old, new)
    PROVE  Growth(m, lev, r, old, new, m2)
<1>1. PICK g : g = Grows(m, r, old, new)
  OBVIOUS
<1>2. old \in Nat /\ new \in Nat /\ old <= new
  OBVIOUS
<1>3. g[old] = m /\ \A s \in (old + 1) .. new : g[s] = GrowStep(g[s - 1], r, old, s)
  BY ONLY <1>1, <1>2, GrowsIs
<1>4. m2 = g[new]
  BY <1>1, UvmallocIs
<1> DEFINE S == {s \in old .. new : Growth(m, lev, r, old, s, g[s])}
<1>5. old \in S
  <2>1. Uses(lev, lev)
    BY DEF Uses
  <2>2. \A u \in old .. (old - 1) : FALSE
    OBVIOUS
  <2>3. Spans(m.table, m.table, lev, r, old, old)
    BY <2>2 DEF Spans
  <2>4. Allocated(m, lev, r, old, old, m, lev, home)
    BY <2>1, <2>3 DEF Allocated
  <2> QED
    BY <1>2, <1>3, <2>4 DEF Growth
<1>6. \A s \in (old + 1) .. new : s - 1 \in S => s \in S
  <2>1. SUFFICES ASSUME NEW s \in (old + 1) .. new, s - 1 \in S
                 PROVE  s \in S
    OBVIOUS
  <2>2. PICK hi, a, b : hi = s - 1 /\ a = g[hi] /\ b = g[s]
    OBVIOUS
  <2>3. s \in Nat /\ hi \in Va /\ old <= hi /\ s \in old .. new
    BY <1>2, <2>2, KAssumption DEF Va
  <2>4. Growth(m, lev, r, old, hi, a) /\ b = GrowStep(a, r, old, s)
    BY <1>3, <2>1, <2>2
  <2>5. Sound(m, lev, home) /\ r \in Frame /\ lev[r] = 2 /\ r # KRoot /\ old \in Nat
    OBVIOUS
  <2>6. hi = s - 1
    BY <2>2
  <2>7. Growth(m, lev, r, old, s, b)
    BY ONLY <2>3, <2>4, <2>5, <2>6, GrowGood
  <2> QED
    BY <2>2, <2>3, <2>7
<1>7. \A s \in old .. new : s \in S
  <2> HIDE DEF S
  <2> QED
    BY ONLY <1>2, <1>5, <1>6, ClimbFrom
<1> QED
  BY <1>2, <1>4, <1>7

-----------------------------------------------------------------------------
(***************************************************************************)
(* The actions preserve the invariant, and change no other translations    *)
(* than those of pages that somebody maps.                                 *)
(***************************************************************************)
Changes(lev) ==
    \A p \in Frame, v \in Va : lev[p] = 2 =>
        \/ Tr(table', p, v) = Tr(table, p, v)
        \/ \E r \in Space : /\ v \in owned'[r] \ owned[r]
                            /\ p = root[r] \/ table'[KRoot][PX(2, v)] # None

LEMMA MemIs ==
    ASSUME NEW lev, NEW home, Good(lev, home)
    PROVE  /\ Sound(Mem, lev, home) /\ Mem.free = free /\ Mem.table = table
           /\ Mem.result = "ok" /\ IsMem(Mem)
BY DEF Mem, Sound, IsMem, Good

LEMMA Unchanging ==
    ASSUME NEW lev, table' = table
    PROVE  Changes(lev)
BY DEF Changes

\* A call that panics leaves memory as it was.
LEMMA PanicGood ==
    ASSUME NEW lev, NEW home, Good(lev, home), outcome' = "panic",
           free' = free, table' = table, kvmroot' = kvmroot,
           root' \in [Space -> Frame \cup {NoFrame}], sz' \in [Space -> Va],
           owned' \in [Space -> SUBSET Va], lost' \subseteq Frame,
           \A r \in Space : root'[r] # NoFrame => root'[r] = root[r]
    PROVE  Good(lev, home)'
BY DEF Good

LEMMA FailGood ==
    ASSUME NEW lev, NEW home, Good(lev, home), outcome # "panic", outcome' = "failed",
           UNCHANGED <<free, table, kvmroot, root, sz, owned, lost>>
    PROVE  Good(lev, home)'
BY DEF Good

LEMMA MapprocGood ==
    ASSUME NEW lev, NEW home, Good(lev, home), NEW r \in Space, Mapproc(r)
    PROVE  (\E lev2, home2 : Good(lev2, home2)') /\ Changes(lev)
<1>1. CASE free = {}
  <2>1. Ends([Mem EXCEPT !.result = "failed"]) /\ UNCHANGED <<root, sz, owned, lost>> /\ outcome # "panic"
    BY <1>1 DEF Mapproc
  <2>2. outcome' = "failed" /\ UNCHANGED <<free, table, kvmroot>>
    BY <2>1 DEF Ends, Mem
  <2> QED
    BY <2>1, <2>2, FailGood, Unchanging
<1>2. CASE free # {}
  <2>1. PICK p, k, m : /\ p = Lowest(free) /\ k = kallocPage(Mem)
                       /\ m = [k EXCEPT !.table[p] =
                                 [i \in Entry |-> IF Copied(i) THEN table[kvmroot][i] ELSE None]]
    OBVIOUS
  <2>2. Ends(m) /\ root' = [root EXCEPT ![r] = p] /\ UNCHANGED <<sz, owned, lost>>
        /\ outcome # "panic" /\ root[r] = NoFrame
    BY <1>2, <2>1 DEF Mapproc
  <2>3. Sound(Mem, lev, home) /\ Mem.free # {} /\ p = Lowest(Mem.free)
    BY <1>2, <2>1, MemIs
  <2>4. k = kallocPage(Mem)
    BY <2>1
  <2>5. /\ p \in Frame /\ lev[p] = Free /\ IsMem(k) /\ k.table = Set(Mem.table, p, Empty)
        /\ k.result = Mem.result
    BY ONLY <2>3, <2>4, KallocIs
  <2>6. Sound(k, Set(lev, p, Held), home) /\ Same(Mem.table, k.table, lev)
    BY ONLY <2>3, <2>4, KallocSound
  <2>7. lev \in [Frame -> -4 .. 2] /\ table \in [Frame -> [Entry -> EntryType]] /\ lev[KRoot] = 2
        /\ kvmroot = KRoot /\ KRoot \in Frame
    BY DEF Good, Shape
  <2>8. p # KRoot
    BY <2>5, <2>7 DEF Free
  <2>9. PICK l, t1, t2, lev2, f : /\ l = Set(lev, p, Held) /\ t1 = k.table /\ t2 = m.table
                                  /\ lev2 = Set(l, p, 2) /\ f = k.free
    OBVIOUS
  <2>10. l[p] = Held /\ DOMAIN l = Frame /\ \A q \in Frame : q # p => l[q] = lev[q]
    BY <2>5, <2>7, <2>9 DEF Set
  <2>11. lev2[p] = 2 /\ \A q \in Frame : q # p => lev2[q] = lev[q]
    BY <2>5, <2>9, <2>10, SetIs
  <2>12. t1[KRoot] = table[KRoot]
    BY <2>5, <2>7, <2>8, <2>9, MemIs, SetIs
  <2>13. [i \in Entry |-> IF Copied(i) THEN table[kvmroot][i] ELSE None] = t1[KRoot]
    <3>1. table[KRoot] \in [Entry -> EntryType]
      BY <2>7
    <3>2. \A i \in Entry : (IF Copied(i) THEN table[kvmroot][i] ELSE None) = table[KRoot][i]
      BY <2>7 DEF Copied
    <3> QED
      BY <2>12, <3>1, <3>2
  <2>14. m = [k EXCEPT !.table[p] = t1[KRoot]]
    BY <2>1, <2>13
  <2>15. /\ IsMem(m) /\ t2 = Set(t1, p, t1[KRoot]) /\ m.free = f /\ m.result = "ok"
    BY <2>5, <2>9, <2>14, MemIs DEF IsMem, Set
  <2>16. Shape(f, t1, l, home) /\ l[p] = Held /\ p \in Frame
    BY <2>5, <2>6, <2>9, <2>10 DEF Sound
  <2>17. lev2 = Set(l, p, 2) /\ t2 = Set(t1, p, t1[KRoot])
    BY <2>9, <2>15
  <2>18. /\ Shape(f, t2, lev2, home) /\ Same(t1, t2, l)
         /\ \A v \in Va : Tr(t2, p, v) = Tr(t1, KRoot, v)
    BY ONLY <2>16, <2>17, RootShape
  <2>19. free' = f /\ table' = t2 /\ outcome' = "ok" /\ kvmroot' = kvmroot
    BY <2>2, <2>9, <2>15 DEF Ends
  <2>20. \A q \in Frame, v \in Va : lev[q] = 2 => Tr(t2, q, v) = Tr(table, q, v)
    <3>1. Same(table, t1, lev)
      BY <2>6, <2>9, MemIs
    <3>2. \A q \in Frame : lev[q] = 2 => l[q] = 2
      BY <2>5, <2>10 DEF Free
    <3> QED
      BY <2>18, <3>1, <3>2 DEF Same
  <2>21. \A v \in Va : Tr(t2, p, v) = Tr(table, KRoot, v)
    <3>1. Same(table, t1, lev)
      BY <2>6, <2>9, MemIs
    <3> QED
      BY <2>7, <2>18, <3>1 DEF Same
  <2>22. KernelThere(t2, lev2)
    <3>1. SUFFICES ASSUME NEW q \in Frame, NEW i \in 1 .. Len(KernelVa), lev2[q] = 2
                   PROVE  Tr(t2, q, KernelVa[i]) = Kernel(KernelVa[i])
      BY DEF KernelThere
    <3>2. KernelVa[i] \in Va
      BY KernelVaAssumption
    <3>3. KernelThere(table, lev)
      BY DEF Good
    <3>4. CASE q = p
      BY <2>7, <2>21, <3>2, <3>3, <3>4 DEF KernelThere
    <3>5. CASE q # p
      BY <2>11, <2>20, <3>1, <3>2, <3>3, <3>5 DEF KernelThere
    <3> QED
      BY <3>4, <3>5
  <2>23. root \in [Space -> Frame \cup {NoFrame}] /\ root' \in [Space -> Frame \cup {NoFrame}]
         /\ root'[r] = p /\ \A x \in Space : x # r => root'[x] = root[x]
    BY <2>2, <2>5 DEF Good
  <2>24. Running(root, lost, lev) /\ Mapped(table, root, owned)
    BY <2>2 DEF Good
  <2>25. Running(root', lost, lev2)
    <3>1. ASSUME NEW q \in Frame, lev2[q] = 2
          PROVE  q \in ({KRoot} \cup {root'[x] : x \in Space}) \ {NoFrame}
      <4>1. CASE q = p
        BY <2>23, <4>1, PageTyped
      <4>2. CASE q # p
        <5>1. q \in ({KRoot} \cup {root[x] : x \in Space}) \ {NoFrame}
          BY <2>11, <2>24, <3>1, <4>2 DEF Running
        <5>2. \A x \in Space : root[x] = q => x # r
          BY <2>2, <3>1, PageTyped
        <5> QED
          BY <2>23, <5>1, <5>2
      <4> QED
        BY <4>1, <4>2
    <3>2. ASSUME NEW q, q \in ({KRoot} \cup {root'[x] : x \in Space}) \ {NoFrame}
          PROVE  q \in Frame /\ lev2[q] = 2
      <4>1. CASE q = KRoot
        BY <2>7, <2>8, <2>11, <4>1
      <4>2. ASSUME NEW x \in Space, q = root'[x], q # NoFrame
            PROVE  q \in Frame /\ lev2[q] = 2
        <5>1. CASE x = r
          BY <2>5, <2>11, <2>23, <4>2, <5>1
        <5>2. CASE x # r
          <6>1. q \in Frame /\ q \in ({KRoot} \cup {root[y] : y \in Space}) \ {NoFrame}
            BY <2>23, <4>2, <5>2
          <6>2. lev[q] = 2
            BY <2>24, <6>1 DEF Running
          <6> QED
            BY <2>5, <2>11, <6>1, <6>2 DEF Free
        <5> QED
          BY <5>1, <5>2
      <4> QED
        BY <3>2, <4>1, <4>2
    <3>3. {q \in Frame : lev2[q] = 2} = ({KRoot} \cup {root'[x] : x \in Space}) \ {NoFrame}
      BY <3>1, <3>2
    <3>4. lost = {q \in Frame : lev2[q] = Lost} /\ \A q \in Frame : lev2[q] # Held
      BY <2>5, <2>11, <2>24 DEF Running, Lost, Free, Held
    <3> QED
      BY <3>3, <3>4 DEF Running
  <2>26. Mapped(t2, root', owned)
    <3>1. SUFFICES ASSUME NEW x \in Space
                   PROVE  /\ root'[x] = NoFrame => owned[x] = {}
                          /\ \A v \in owned[x] : root'[x] # NoFrame => Tr(t2, root'[x], v) # None
      BY DEF Mapped
    <3>2. CASE x = r
      BY <2>2, <2>24, <3>2 DEF Mapped
    <3>3. CASE x # r
      <4>1. owned[x] \subseteq Va /\ (root[x] # NoFrame => root[x] \in Frame /\ lev[root[x]] = 2)
        BY DEF Good
      <4> QED
        BY <2>20, <2>23, <2>24, <3>3, <4>1 DEF Mapped
    <3> QED
      BY <3>2, <3>3
  <2>27. Good(lev2, home)'
    <3>1. /\ sz' \in [Space -> Va] /\ owned' \in [Space -> SUBSET Va] /\ lost' \subseteq Frame
          /\ Running(root', lost', lev2) /\ Mapped(t2, root', owned')
      BY <2>2, <2>25, <2>26 DEF Good
    <3>2. \A x \in Space : root'[x] # NoFrame => lev2[root'[x]] = 2 /\ root'[x] # KRoot
      <4>1. SUFFICES ASSUME NEW x \in Space, root'[x] # NoFrame
                     PROVE  lev2[root'[x]] = 2 /\ root'[x] # KRoot
        OBVIOUS
      <4>2. CASE x = r
        BY <2>8, <2>11, <2>23, <4>2
      <4>3. CASE x # r
        <5>1. root[x] \in Frame /\ lev[root[x]] = 2 /\ root[x] # KRoot
          BY <2>23, <4>1, <4>3 DEF Good
        <5> QED
          BY <2>5, <2>11, <2>23, <4>3, <5>1 DEF Free
      <4> QED
        BY <4>2, <4>3
    <3> QED
      BY <2>7, <2>18, <2>19, <2>22, <2>23, <3>1, <3>2 DEF Good
  <2>28. Changes(lev)
    BY <2>19, <2>20 DEF Changes
  <2> QED
    BY <2>27, <2>28
<1> QED
  BY <1>1, <1>2

\* A call that maps pages lo .. hi - 1 for r, or none.
LEMMA SpanGood ==
    ASSUME NEW lev, NEW home, Good(lev, home), outcome # "panic", outcome' \in {"ok", "failed"},
           NEW r, r \in Space, NEW p, p = root[r], p # NoFrame,
           NEW lo, NEW hi, lo \in Nat, hi \in Nat, lo .. (hi - 1) \subseteq Va,
           NEW lev2, NEW home2, Shape(free', table', lev2, home2),
           Spans(table, table', lev, p, lo, hi),
           \A q \in Frame : lev2[q] = 2 <=> lev[q] = 2,
           lost' = {q \in Frame : lev2[q] = Lost}, \A q \in Frame : lev2[q] # Held,
           root' = root, kvmroot' = kvmroot, sz' \in [Space -> Va],
           owned' = [owned EXCEPT ![r] = @ \cup lo .. (hi - 1)]
    PROVE  Good(lev2, home2)' /\ Changes(lev)
<1>1. /\ Shape(free, table, lev, home) /\ KernelThere(table, lev)
      /\ Running(root, lost, lev) /\ Mapped(table, root, owned)
      /\ owned \in [Space -> SUBSET Va] /\ root \in [Space -> Frame \cup {NoFrame}]
      /\ \A x \in Space : root[x] # NoFrame => lev[root[x]] = 2 /\ root[x] # KRoot
      /\ kvmroot = KRoot
  BY DEF Good
<1>2. PICK t, t2, N : t = table /\ t2 = table' /\ N = lo .. (hi - 1)
  OBVIOUS
<1>3. N \in SUBSET Va /\ p \in Frame /\ lev[p] = 2
  BY <1>1, <1>2
<1>4. /\ \A u \in N :
            Tr(t, p, u) = None /\ \E q \in Frame : Tr(t2, p, u) = User(q) /\ lev[q] = Free
      /\ \A q \in Frame, u \in Va : lev[q] = 2 =>
            \/ Tr(t2, q, u) = Tr(t, q, u)
            \/ u \in N /\ Tr(t, q, u) = None /\ Tr(t2, q, u) = Tr(t2, p, u)
  BY <1>2 DEF Spans
<1>5. owned' \in [Space -> SUBSET Va] /\ owned'[r] = owned[r] \cup N
      /\ \A x \in Space : x # r => owned'[x] = owned[x]
  BY <1>1, <1>2, <1>3
<1>6. \A u \in N : u \in owned'[r] /\ u \notin owned[r]
  BY <1>1, <1>2, <1>4, <1>5 DEF Mapped
<1>7. Changes(lev)
  <2>1. SUFFICES ASSUME NEW q \in Frame, NEW u \in Va, lev[q] = 2, Tr(t2, q, u) # Tr(t, q, u)
                 PROVE  u \in owned'[r] \ owned[r] /\ (q = root[r] \/ t2[KRoot][PX(2, u)] # None)
    BY <1>2 DEF Changes
  <2>2. u \in N /\ Tr(t2, q, u) = Tr(t2, p, u)
    BY <1>4, <2>1
  <2>3. PICK x \in Frame : Tr(t2, p, u) = User(x)
    BY <1>4, <2>2
  <2>4. CASE q # p
    <3>1. /\ Shape(free', t2, lev2, home2) /\ lev2[q] = 2 /\ lev2[p] = 2 /\ q \in Frame /\ p \in Frame
          /\ u \in Va /\ Tr(t2, q, u) = User(x) /\ Tr(t2, p, u) = User(x)
      BY <1>2, <1>3, <2>1, <2>2, <2>3
    <3>2. t2[KRoot][PX(2, u)] # None
      BY ONLY <2>4, <3>1, SharedTop
    <3> QED
      BY <1>6, <2>2, <3>2
  <2>5. CASE q = p
    BY <1>6, <2>2, <2>5
  <2> QED
    BY <2>4, <2>5
<1>8. KernelThere(t2, lev2)
  <2>1. SUFFICES ASSUME NEW q \in Frame, NEW i \in 1 .. Len(KernelVa), lev2[q] = 2
                 PROVE  Tr(t2, q, KernelVa[i]) = Kernel(KernelVa[i])
    BY DEF KernelThere
  <2>2. KernelVa[i] \in Va /\ lev[q] = 2
    BY <2>1, KernelVaAssumption
  <2>3. Tr(t, q, KernelVa[i]) = Kernel(KernelVa[i])
    BY <1>1, <1>2, <2>2 DEF KernelThere
  <2> QED
    BY <1>4, <2>2, <2>3, LevelsDiffer
<1>9. Mapped(t2, root, owned')
  <2>1. SUFFICES ASSUME NEW x \in Space
                 PROVE  /\ root[x] = NoFrame => owned'[x] = {}
                        /\ \A v \in owned'[x] : root[x] # NoFrame => Tr(t2, root[x], v) # None
    BY DEF Mapped
  <2>2. root[x] = NoFrame => owned'[x] = {}
    BY <1>1, <1>5 DEF Mapped
  <2>3. ASSUME NEW v \in owned'[x], root[x] # NoFrame
        PROVE  Tr(t2, root[x], v) # None
    <3>1. v \in Va /\ root[x] \in Frame /\ lev[root[x]] = 2
      BY <1>1, <1>5, <2>3
    <3>2. CASE v \in owned[x]
      <4>1. Tr(t, root[x], v) # None
        BY <1>1, <1>2, <2>3, <3>2 DEF Mapped
      <4> QED
        BY <1>4, <3>1, <4>1
    <3>3. CASE v \notin owned[x]
      <4>1. x = r /\ v \in N
        BY <1>5, <2>3, <3>3
      <4>2. Tr(t2, p, v) # None
        BY <1>4, <4>1, LevelsDiffer
      <4> QED
        BY <4>1, <4>2
    <3> QED
      BY <3>2, <3>3
  <2> QED
    BY <2>2, <2>3
<1>10. Running(root, lost', lev2)
  BY <1>1 DEF Running
<1>11. /\ lost' \subseteq Frame /\ \A x \in Space : root[x] # NoFrame => lev2[root[x]] = 2 /\ root[x] # KRoot
       /\ outcome' \in {"ok", "failed", "panic"}
  BY <1>1
<1>12. Good(lev2, home2)'
  BY <1>1, <1>2, <1>5, <1>8, <1>9, <1>10, <1>11 DEF Good
<1> QED
  BY <1>7, <1>12

\* A call that maps nothing, and loses page p.
LEMMA NothingMapped ==
    ASSUME NEW t, NEW t2, NEW lev, NEW r, NEW lo \in Nat,
           \A q \in Frame, u \in Va : lev[q] = 2 => Tr(t2, q, u) = Tr(t, q, u)
    PROVE  Spans(t, t2, lev, r, lo, lo)
<1>1. \A u \in lo .. (lo - 1) : FALSE
  OBVIOUS
<1> QED
  BY <1>1 DEF Spans

LEMMA MapUserGood ==
    ASSUME NEW lev, NEW home, Good(lev, home), NEW r \in Space, NEW va \in UserVa, MapUser(r, va)
    PROVE  (\E lev2, home2 : Good(lev2, home2)') /\ Changes(lev)
<1>1. /\ outcome # "panic" /\ root[r] # NoFrame /\ va \in Va /\ va \in Nat /\ r \in Space
      /\ Running(root, lost, lev) /\ owned \in [Space -> SUBSET Va] /\ sz \in [Space -> Va]
      /\ root \in [Space -> Frame \cup {NoFrame}]
  BY UserVaAssumption, KAssumption DEF MapUser, Good, Va
<1>2. PICK d : d = root[r] /\ d \in Frame /\ lev[d] = 2 /\ d # KRoot
  BY <1>1 DEF Good
<1>3. CASE free = {}
  <2>1. Ends([Mem EXCEPT !.result = "failed"])
    BY <1>3 DEF MapUser
  <2>2. [Mem EXCEPT !.result = "failed"].result = "failed"
    BY DEF Mem
  <2>3. UNCHANGED <<root, sz, owned, lost>>
    BY <1>3, <2>2 DEF MapUser
  <2>4. outcome' = "failed" /\ UNCHANGED <<free, table, kvmroot>>
    BY <2>1 DEF Ends, Mem
  <2> QED
    BY <1>1, <2>3, <2>4, FailGood, Unchanging
<1>4. CASE free # {}
  <2>1. PICK p, k, v : p = Lowest(free) /\ k = kallocPage(Mem) /\ v = vmmap(k, d, va, User(p))
    OBVIOUS
  <2>2. /\ Ends(v) /\ root' = root
        /\ owned' = IF v.result = "ok" THEN [owned EXCEPT ![r] = @ \cup {va}] ELSE owned
        /\ sz' = sz
        /\ lost' = IF v.result = "failed" THEN lost \cup {p} ELSE lost
    BY <1>2, <1>4, <2>1 DEF MapUser
  <2>3. Sound(Mem, lev, home) /\ Mem.free # {} /\ p = Lowest(Mem.free) /\ k = kallocPage(Mem)
    BY <1>4, <2>1, MemIs
  <2>4. /\ p \in Frame /\ lev[p] = Free /\ k.result = Mem.result
    BY ONLY <2>3, KallocIs
  <2>5. Sound(k, Set(lev, p, Held), home) /\ Same(Mem.table, k.table, lev)
    BY ONLY <2>3, KallocSound
  <2>6. DOMAIN lev = Frame /\ lev \in [Frame -> Int]
    BY DEF Good, Shape
  <2>7. PICK l : l = Set(lev, p, Held) /\ l[p] = Held /\ \A q \in Frame : q # p => l[q] = lev[q]
    BY <2>4, <2>6, SetIs
  <2>8. l[d] = 2
    BY <1>2, <2>4, <2>7 DEF Free
  <2>9. Alone(d, l)
    BY <1>2 DEF Alone
  <2>10. \/ v.result = "panic" /\ IsMem(v)
         \/ \E lev2, home2 : FailsTo(k, l, v, lev2, home2)
         \/ \E lev2, home2 : MapsTo(k, l, d, va, p, v, lev2, home2)
    <3>1. Sound(k, l, home) /\ d \in Frame /\ va \in Va /\ l[p] = Held
      BY <1>1, <1>2, <2>5, <2>7
    <3> QED
      BY ONLY <2>1, <2>4, <2>8, <2>9, <3>1, MapsUser
  <2>11. CASE v.result = "panic"
    <3>1. /\ outcome' = "panic" /\ UNCHANGED <<free, table, kvmroot, root, owned, sz, lost>>
      BY <2>2, <2>11 DEF Ends
    <3>2. Good(lev, home)'
      BY <3>1, PanicGood DEF Good
    <3> QED
      BY <3>1, <3>2, Unchanging
  <2>12. ASSUME NEW lev2, NEW home2, FailsTo(k, l, v, lev2, home2)
         PROVE  (\E lev3, home3 : Good(lev3, home3)') /\ Changes(lev)
    <3>1. /\ v.result = "failed" /\ Sound(v, lev2, home2)
          /\ Same(k.table, v.table, l) /\ Grown(l, lev2)
      BY <2>12 DEF FailsTo
    <3>2. /\ outcome' = "failed" /\ free' = v.free /\ table' = v.table /\ kvmroot' = kvmroot
          /\ root' = root /\ owned' = owned /\ sz' = sz /\ lost' = lost \cup {p}
      BY <2>2, <3>1 DEF Ends
    <3>3. DOMAIN lev2 = Frame /\ lev2[p] = Held
      BY <2>4, <2>7, <3>1 DEF Sound, Shape, Grown, Held, Free
    <3>4. PICK lev3, n, f, t : /\ n = Lost /\ f = v.free /\ t = v.table /\ lev3 = Set(lev2, p, n)
                               /\ lev3[p] = Lost /\ \A q \in Frame : q # p => lev3[q] = lev2[q]
      BY <2>4, <3>3, SetIs
    <3>5. Shape(f, t, lev3, home2)
      <4>1. Shape(f, t, lev2, home2) /\ p \in Frame /\ n \in {Free, Lost}
            /\ f = IF n = Free THEN f \cup {p} ELSE f
        BY <2>4, <3>1, <3>4 DEF Sound, Free, Lost
      <4>2. lev3 = Set(lev2, p, n) /\ lev2[p] = Held
        BY <3>3, <3>4
      <4> QED
        BY ONLY <4>1, <4>2, ReleaseShape
    <3>6. \A q \in Frame, u \in Va : lev[q] = 2 => Tr(v.table, q, u) = Tr(table, q, u)
      <4>1. Same(table, k.table, lev)
        BY <2>5, MemIs
      <4>2. \A q \in Frame : lev[q] = 2 => l[q] = 2
        BY <2>4, <2>7 DEF Free
      <4> QED
        BY <3>1, <4>1, <4>2 DEF Same
    <3>7. Spans(table, table', lev, d, va, va)
      BY <1>1, <3>2, <3>6, NothingMapped
    <3>8. \A q \in Frame : q # p => lev3[q] = lev[q] \/ (lev[q] = Free /\ lev3[q] \in 0 .. 1)
      BY <2>7, <3>1, <3>4 DEF Grown
    <3>9. \A q \in Frame : lev3[q] = 2 <=> lev[q] = 2
      BY <2>4, <3>4, <3>8 DEF Free, Lost
    <3>10. lost' = {q \in Frame : lev3[q] = Lost} /\ \A q \in Frame : lev3[q] # Held
      BY <1>1, <2>4, <3>2, <3>4, <3>8 DEF Running, Free, Lost, Held
    <3>11. va .. (va - 1) = {}
      BY <1>1
    <3>12. owned' = [owned EXCEPT ![r] = @ \cup va .. (va - 1)]
      BY <1>1, <3>2, <3>11
    <3>13. Shape(free', table', lev3, home2)
      BY <3>2, <3>4, <3>5
    <3>14. va .. (va - 1) \subseteq Va /\ d # NoFrame /\ outcome' \in {"ok", "failed"} /\ sz' \in [Space -> Va]
           /\ root' = root /\ kvmroot' = kvmroot /\ Good(lev, home) /\ d = root[r]
      BY <1>1, <1>2, <3>2, <3>11
    <3> QED
      BY ONLY <1>1, <3>7, <3>9, <3>10, <3>12, <3>13, <3>14, SpanGood
  <2>13. ASSUME NEW lev2, NEW home2, MapsTo(k, l, d, va, p, v, lev2, home2)
         PROVE  (\E lev3, home3 : Good(lev3, home3)') /\ Changes(lev)
    <3>1. /\ v.result = "ok" /\ Sound(v, lev2, home2)
      BY <2>4, <2>13, MemIs DEF MapsTo
    <3>2. /\ outcome' = "ok" /\ free' = v.free /\ table' = v.table /\ kvmroot' = kvmroot
          /\ root' = root /\ owned' = [owned EXCEPT ![r] = @ \cup {va}] /\ lost' = lost
          /\ sz' = sz
      BY <2>2, <3>1 DEF Ends
    <3>3. Allocated(Mem, lev, d, va, va, Mem, lev, home)
      <4>1. Uses(lev, lev) /\ Spans(Mem.table, Mem.table, lev, d, va, va)
        BY <1>1, NothingMapped DEF Uses
      <4> QED
        BY <2>3, <4>1 DEF Allocated
    <3>4. MapsTo(k, Set(lev, p, Held), d, va, p, v, lev2, home2)
      BY <2>7, <2>13
    <3>5. Allocated(Mem, lev, d, va, va + 1, v, lev2, home2)
      <4>1. d \in Frame /\ lev[d] = 2 /\ va \in Nat /\ va \in Va /\ va <= va
        BY <1>1, <1>2
      <4> QED
        BY ONLY <2>4, <2>5, <3>3, <3>4, <4>1, MappedOn
    <3>6. PICK hi : hi = va + 1 /\ hi \in Nat /\ va .. (hi - 1) = {va}
      BY <1>1
    <3>7. Uses(lev, lev2) /\ Spans(table, table', lev, d, va, hi) /\ Shape(free', table', lev2, home2)
      BY <3>1, <3>2, <3>5, <3>6, MemIs DEF Allocated, Sound
    <3>8. \A q \in Frame : lev2[q] = 2 <=> lev[q] = 2
      BY <3>7 DEF Uses, Free
    <3>9. lost' = {q \in Frame : lev2[q] = Lost} /\ \A q \in Frame : lev2[q] # Held
      BY <1>1, <3>2, <3>7 DEF Running, Uses, Free, Lost, Held
    <3>10. owned' = [owned EXCEPT ![r] = @ \cup va .. (hi - 1)]
      BY <3>2, <3>6
    <3>11. sz' \in [Space -> Va]
      BY <1>1, <3>2
    <3>12. va .. (hi - 1) \subseteq Va /\ d # NoFrame /\ outcome' \in {"ok", "failed"} /\ hi \in Nat
           /\ root' = root /\ kvmroot' = kvmroot /\ Good(lev, home) /\ d = root[r]
      BY <1>1, <1>2, <3>2, <3>6
    <3> QED
      BY ONLY <1>1, <3>7, <3>8, <3>9, <3>10, <3>11, <3>12, SpanGood
  <2> QED
    BY <2>10, <2>11, <2>12, <2>13
<1> QED
  BY <1>3, <1>4

\* kexec sets the size: neither pages nor tables change.
LEMMA SetSizeGood ==
    ASSUME NEW lev, NEW home, Good(lev, home), NEW r \in Space, SetSize(r)
    PROVE  Good(lev, home)' /\ Changes(lev)
<1>1. PICK last \in owned[r] : last < KERNBASE - 2 /\ sz' = [sz EXCEPT ![r] = last + 1]
  BY DEF SetSize
<1>2. last \in Va /\ KERNBASE \in Va /\ K * K * K \in Nat
  BY <1>1, KernelVaAssumption, KAssumption DEF Good
<1>3. last + 1 \in Va
  BY <1>1, <1>2 DEF Va
<1>4. sz' \in [Space -> Va]
  BY <1>1, <1>3 DEF Good
<1>5. /\ outcome # "panic" /\ outcome' = "ok" /\ free' = free /\ table' = table /\ kvmroot' = kvmroot
      /\ root' = root /\ owned' = owned /\ lost' = lost
  BY DEF SetSize
<1>6. Good(lev, home)'
  BY <1>4, <1>5 DEF Good
<1> QED
  BY <1>5, <1>6, Unchanging

LEMMA UvmallocPreserves ==
    ASSUME NEW lev, NEW home, Good(lev, home), NEW r \in Space, NEW new \in 1 .. (K + 1),
           Uvmalloc(r, new)
    PROVE  (\E lev2, home2 : Good(lev2, home2)') /\ Changes(lev)
<1>1. /\ outcome # "panic" /\ root[r] # NoFrame /\ new > sz[r] /\ r \in Space
      /\ Running(root, lost, lev) /\ owned \in [Space -> SUBSET Va] /\ sz \in [Space -> Va]
      /\ root \in [Space -> Frame \cup {NoFrame}]
  BY DEF Uvmalloc, Good
<1>2. PICK d, old : d = root[r] /\ d \in Frame /\ lev[d] = 2 /\ d # KRoot /\ old = sz[r]
  BY <1>1 DEF Good
<1>3. new \in Va /\ new - 1 \in Va /\ old .. (new - 1) \subseteq Va /\ old \in Nat /\ new \in Nat
      /\ old <= new
  <2>1. K \in Nat /\ K > 1 /\ K * K \in Nat /\ K * K * K \in Nat
    BY KAssumption
  <2>2. K + 1 < K * K * K
    <3>1. K * K >= K + K
      <4>1. PICK n \in Nat : K = n + 2
        <5>1. K - 2 \in Nat /\ K = (K - 2) + 2
          BY <2>1
        <5> QED
          BY <5>1
      <4>2. K * K = n * K + 2 * K /\ n * K \in Nat
        BY <2>1, <4>1
      <4> QED
        BY <2>1, <4>2
    <3>2. K * K * K >= K * K + K * K
      <4>1. PICK n \in Nat : K = n + 2
        <5>1. K - 2 \in Nat /\ K = (K - 2) + 2
          BY <2>1
        <5> QED
          BY <5>1
      <4>2. PICK y : y = K * K /\ y \in Nat /\ y * K = K * K * K
        BY <2>1
      <4>3. y * K = y * n + y + y /\ y * n \in Nat
        BY <2>1, <4>1, <4>2
      <4> QED
        BY <2>1, <4>2, <4>3
    <3> QED
      BY <2>1, <3>1, <3>2
  <2>3. old \in Nat /\ new \in Nat /\ new <= K + 1 /\ old < new /\ 1 <= new
    BY <1>1, <1>2, <2>1 DEF Va
  <2> QED
    BY <2>1, <2>2, <2>3 DEF Va
<1>4. PICK m : m = uvmalloc(Mem, d, old, new)
  OBVIOUS
<1>5. /\ Ends(m) /\ root' = root /\ lost' = lost
      /\ IF m.result = "ok"
         THEN owned' = [owned EXCEPT ![r] = @ \cup old .. (new - 1)] /\ sz' = [sz EXCEPT ![r] = new]
         ELSE owned' = owned /\ sz' = sz
  BY <1>2, <1>4 DEF Uvmalloc
<1>6. Growth(Mem, lev, d, old, new, m)
  <2>1. Sound(Mem, lev, home) /\ Mem.result = "ok"
    BY MemIs
  <2> QED
    BY ONLY <1>2, <1>3, <1>4, <2>1, UvmallocGood
<1>7. ASSUME NEW lev2, NEW home2, NEW hi, hi \in {old, new},
             Allocated(Mem, lev, d, old, hi, m, lev2, home2), m.result \in {"ok", "failed"},
             owned' = [owned EXCEPT ![r] = @ \cup old .. (hi - 1)], sz' \in [Space -> Va]
      PROVE  (\E lev3, home3 : Good(lev3, home3)') /\ Changes(lev)
  <2>1. /\ outcome' = m.result /\ free' = m.free /\ table' = m.table /\ kvmroot' = kvmroot
    BY <1>5, <1>7 DEF Ends
  <2>2. Uses(lev, lev2) /\ Spans(table, table', lev, d, old, hi) /\ Shape(free', table', lev2, home2)
    BY <1>7, <2>1, MemIs DEF Allocated, Sound
  <2>3. \A q \in Frame : lev2[q] = 2 <=> lev[q] = 2
    BY <2>2 DEF Uses, Free
  <2>4. lost' = {q \in Frame : lev2[q] = Lost} /\ \A q \in Frame : lev2[q] # Held
    BY <1>1, <1>5, <2>2 DEF Running, Uses, Free, Lost, Held
  <2>5. hi \in Nat /\ old .. (hi - 1) \subseteq Va
    BY <1>3, <1>7
  <2>6. d # NoFrame /\ outcome' \in {"ok", "failed"} /\ root' = root /\ kvmroot' = kvmroot /\ d = root[r]
        /\ owned' = [owned EXCEPT ![r] = @ \cup old .. (hi - 1)] /\ sz' \in [Space -> Va]
        /\ Good(lev, home)
    BY <1>1, <1>2, <1>5, <1>7, <2>1
  <2> QED
    BY ONLY <1>1, <1>3, <2>2, <2>3, <2>4, <2>5, <2>6, SpanGood
<1>8. CASE m.result = "panic"
  <2>1. outcome' = "panic" /\ UNCHANGED <<free, table, kvmroot, root, owned, sz, lost>>
    BY <1>5, <1>8 DEF Ends
  <2>2. Good(lev, home)'
    BY <2>1, PanicGood DEF Good
  <2> QED
    BY <2>1, <2>2, Unchanging
<1>9. CASE m.result = "ok" /\ \E lev2, home2 : Allocated(Mem, lev, d, old, new, m, lev2, home2)
  <2>1. sz' \in [Space -> Va]
    BY <1>1, <1>3, <1>5, <1>9
  <2> QED
    BY <1>5, <1>7, <1>9, <2>1
<1>10. CASE Undone(Mem, lev, d, old, m)
  <2>1. PICK lev2, home2 : Allocated(Mem, lev, d, old, old, m, lev2, home2)
    BY <1>10 DEF Undone
  <2>2. m.result = "failed"
    BY <1>10 DEF Undone
  <2>3. old .. (old - 1) = {}
    BY <1>3
  <2>4. owned' = [owned EXCEPT ![r] = @ \cup old .. (old - 1)] /\ sz' \in [Space -> Va]
    BY <1>1, <1>5, <2>2, <2>3
  <2> QED
    BY <1>7, <2>1, <2>2, <2>4
<1> QED
  BY <1>6, <1>8, <1>9, <1>10 DEF Growth

\* uvmfree meets a device of the kernel below KERNBASE: it unmaps the page, or finds it
\* mapped when it frees the tables. It panics in either case.
LEMMA UvmfreePanics ==
    ASSUME NEW lev, NEW home, Good(lev, home), NEW r \in Space, Uvmfree(r)
    PROVE  outcome' = "panic"
<1>1. PICK d : d = root[r] /\ d \in Frame /\ lev[d] = 2
  BY DEF Uvmfree, Good
<1>2. PICK S, t, f : /\ S = (0 .. (sz[r] - 1)) \cup {KERNBASE - 2, KERNBASE - 1}
                     /\ t = table /\ f = free
  OBVIOUS
<1>3. PICK i \in 1 .. Len(KernelVa) : PX(2, KernelVa[i]) < PX(2, KERNBASE)
  BY KernelAssumption
<1>4. PICK w : w = KernelVa[i] /\ w \in Va
  BY KernelVaAssumption
<1>5. S \in SUBSET Va
  <2>1. K \in Nat /\ K > 1 /\ K * K \in Nat /\ K * K * K \in Nat /\ K * K >= 2
    <3>1. K \in Nat /\ K > 1
      BY KAssumption
    <3>2. PICK n \in Nat : K = n + 2
      <4>1. K - 2 \in Nat /\ K = (K - 2) + 2
        BY <3>1
      <4> QED
        BY <4>1
    <3>3. K * K = n * K + 2 * K /\ n * K \in Nat
      BY <3>1, <3>2
    <3> QED
      BY <3>1, <3>3
  <2>2. sz[r] \in Va
    BY DEF Good
  <2>3. PICK x, y, z : /\ x = PX(2, KERNBASE) /\ y = PX(1, KERNBASE) /\ z = PX(0, KERNBASE)
                       /\ x \in Entry /\ y \in Entry /\ z \in Entry
                       /\ KERNBASE = (x * K + y) * K + z
    BY PXDigits, KernelVaAssumption
  <2>4. x \in Nat \ {0} /\ y \in Nat /\ z \in Nat
    <3>1. PX(2, w) \in Entry
      BY <1>4, PXDigits
    <3>2. PX(2, w) < x
      BY <1>3, <1>4, <2>3
    <3> QED
      BY <2>1, <2>3, <3>1, <3>2 DEF Entry
  <2>5. KERNBASE >= K * K
    <3>1. PICK n \in Nat : x = n + 1
      <4>1. x - 1 \in Nat /\ x = (x - 1) + 1
        BY <2>4
      <4> QED
        BY <4>1
    <3>2. x * K = n * K + K /\ n * K \in Nat
      BY <2>1, <3>1
    <3>3. PICK c : c = n * K + y /\ c \in Nat /\ x * K + y = c + K
      BY <2>1, <2>4, <3>2
    <3>4. (x * K + y) * K = c * K + K * K /\ c * K \in Nat /\ K * K \in Nat
      BY <2>1, <3>3
    <3>5. PICK u, v, e : u = (x * K + y) * K /\ v = c * K /\ e = K * K
      OBVIOUS
    <3>6. u = v + e /\ v \in Nat /\ e \in Nat /\ z \in Nat /\ KERNBASE = u + z
      BY <2>3, <2>4, <3>4, <3>5
    <3>7. KERNBASE >= e
      BY ONLY <3>6
    <3> QED
      BY ONLY <3>5, <3>7
  <2>6. KERNBASE - 2 \in Va /\ KERNBASE - 1 \in Va
    BY <2>1, <2>5, KernelVaAssumption DEF Va
  <2>7. \A u \in 0 .. (sz[r] - 1) : u \in Va
    BY <2>1, <2>2 DEF Va
  <2> QED
    BY <1>2, <2>6, <2>7
<1>6. PICK M : M = {v \in S : Tr(t, d, v) # None}
  OBVIOUS
<1>7. {v \in S : Translate(Mem.table, d, v) # None} = M
  BY <1>2, <1>6, MemIs, TranslateFinds
<1>8. PICK m : m = uvmunmap(Mem, d, S)
  OBVIOUS
<1>9. Ends(IF m.result = "panic" THEN m ELSE uvmfreewalk(m, d))
  BY <1>1, <1>2, <1>8 DEF Uvmfree
<1>10. CASE m.result = "panic"
  BY <1>9, <1>10 DEF Ends
<1>11. CASE m.result # "panic"
  <2>1. ~ (\E v \in M : Translate(Mem.table, d, v).kind = "kernel")
    <3>1. SUFFICES ASSUME \E v \in M : Translate(Mem.table, d, v).kind = "kernel"
                   PROVE  m.result = "panic"
      BY <1>11
    <3>2. m = [Mem EXCEPT !.result = "panic"]
      BY <1>7, <1>8, <3>1 DEF uvmunmap
    <3> QED
      BY <3>2 DEF Mem
  <2>2. m = Unmap(Mem, d, M)
    BY <1>7, <1>8, <2>1 DEF uvmunmap
  <2>3. \A v \in M : Tr(t, d, v) # None /\ Tr(t, d, v).kind # "kernel"
    BY <1>2, <1>6, <2>1, MemIs, TranslateFinds
  <2>4. PICK X : X = SlotsOf(t, d, M)
    OBVIOUS
  <2>5. M \in SUBSET Va /\ Mem.table = t /\ Mem.free = f /\ Sound(Mem, lev, home)
    BY <1>2, <1>5, <1>6, MemIs
  <2>6. PICK lev2 : /\ Sound(m, lev2, home) /\ lev2 = Loose(lev, home, X)
                    /\ X \in SUBSET Slot /\ \A x \in X : lev[x[1]] = 0
                    /\ m.table = Cut(t, X)
    <3>1. \A v \in M : Tr(Mem.table, d, v) # None /\ Tr(Mem.table, d, v).kind # "kernel"
      BY <2>3, <2>5
    <3>2. X = SlotsOf(Mem.table, d, M)
      BY <2>4, <2>5
    <3>3. /\ Sound(m, Loose(lev, home, X), home)
          /\ X \in SUBSET Slot /\ \A x \in X : lev[x[1]] = 0
          /\ m.table = Cut(Mem.table, X)
      BY ONLY <1>1, <2>2, <2>5, <3>1, <3>2, UnmapGood
    <3> QED
      BY <2>5, <3>3
  <2>7. PICK t2 : t2 = m.table /\ t2 = Cut(t, X)
    BY <2>6
  <2>8. lev2[d] = 2 /\ Shape(m.free, t2, lev2, home) /\ Shape(f, t, lev, home)
    BY <1>1, <1>2, <2>6, <2>7 DEF Loose, Users, Sound, Good
  <2>9. Tr(t, d, w) = Kernel(w)
    BY <1>1, <1>2, <1>4 DEF Good, KernelThere
  <2>10. <<Reach(t, d, w), PX(0, w)>> \notin X
    <3>1. SUFFICES ASSUME <<Reach(t, d, w), PX(0, w)>> \in X
                   PROVE  FALSE
      OBVIOUS
    <3>2. PICK u \in M : Reach(t, d, w) = Reach(t, d, u) /\ PX(0, w) = PX(0, u)
      BY <2>4, <3>1 DEF SlotsOf
    <3>3. Tr(t, d, u) = Kernel(w)
      BY <2>9, <3>2 DEF Tr
    <3> QED
      BY <1>4, <2>3, <3>3, KernelTyped
  <2>11. Tr(t2, d, w) = Kernel(w)
    <3>1. d \in Frame /\ lev[d] = 2 /\ w \in Va /\ X \in SUBSET Slot /\ \A x \in X : lev[x[1]] = 0
      BY <1>1, <1>4, <2>6
    <3>2. Tr(Cut(t, X), d, w) = IF <<Reach(t, d, w), PX(0, w)>> \in X THEN None ELSE Tr(t, d, w)
      BY ONLY <2>8, <3>1, CutTr
    <3> QED
      BY <2>7, <2>9, <2>10, <3>2
  <2>12. Reach(t2, d, w) # NoFrame
    BY <2>11, LevelsDiffer DEF Tr
  <2>13. PICK q \in Frame, a \in Frame : /\ Reach(t2, d, w) = a
                                         /\ t2[d][PX(2, w)] = Table(q) /\ t2[q][PX(1, w)] = Table(a)
    <3>1. d \in Frame /\ lev2[d] = 2 /\ w \in Va
      BY <1>1, <1>4, <2>8
    <3> QED
      BY ONLY <2>8, <2>12, <3>1, ReachDown
  <2>14. t2[a][PX(0, w)].kind = "kernel"
    BY <1>4, <2>11, <2>12, <2>13, KernelTyped DEF Tr
  <2>15. PICK T, T2 : /\ T = {t2[d][k].to : k \in {j \in Entry : j < PX(2, KERNBASE)
                                                             /\ t2[d][j].kind = "table"}}
                      /\ T2 = T \cup Below(t2, T)
    OBVIOUS
  <2>16. PX(2, w) \in Entry /\ PX(1, w) \in Entry /\ PX(0, w) \in Entry
    BY <1>4, PXDigits
  <2>17. q \in T
    <3>1. Table(q).to = q /\ Table(q).kind = "table"
      BY DEF Table
    <3>2. PX(2, w) \in {j \in Entry : j < PX(2, KERNBASE) /\ t2[d][j].kind = "table"}
      BY <1>3, <1>4, <2>13, <2>16, <3>1
    <3>3. t2[d][PX(2, w)].to = q
      BY <2>13, <3>1
    <3> QED
      BY <2>15, <3>2, <3>3
  <2>18. a \in T2
    <3>1. Table(a).to = a /\ Table(a).kind = "table"
      BY DEF Table
    <3>2. PICK x, j : x = <<q, j>> /\ j = PX(1, w)
      OBVIOUS
    <3>4. x \in T \X Entry
      BY <2>16, <2>17, <3>2
    <3>3. x \in Inner(t2, T) /\ t2[x[1]][x[2]] = Table(a)
      BY <2>13, <3>1, <3>2, <3>4 DEF Inner
    <3> QED
      BY <2>15, <3>1, <3>2, <3>3 DEF Below
  <2>19. Leaves(t2, T2) # {}
    <3>1. PICK x, j : x = <<a, j>> /\ j = PX(0, w)
      OBVIOUS
    <3>2. x \in T2 \X Entry
      BY <2>16, <2>18, <3>1
    <3> QED
      BY <2>14, <3>1, <3>2 DEF Leaves
  <2>20. uvmfreewalk(m, d) = [m EXCEPT !.result = "panic"]
    BY <2>7, <2>15, <2>19 DEF uvmfreewalk
  <2>21. uvmfreewalk(m, d).result = "panic"
    BY <2>6, <2>20 DEF Sound, IsMem
  <2> QED
    BY <1>9, <1>11, <2>21 DEF Ends
<1> QED
  BY <1>10, <1>11

\* The machine starts: the kernel's table is the only one.
LEMMA StartIs ==
    \E lev, home :
        /\ Shape(KernelMemory.free, KernelMemory.table, lev, home)
        /\ KernelThere(KernelMemory.table, lev)
        /\ \A rt : (rt = [r \in Space |-> NoFrame]) => Running(rt, {}, lev)
<1>1. PICK lev, home : /\ Shape(KernelMemory.free, KernelMemory.table, lev, home)
                       /\ KernelThere(KernelMemory.table, lev)
                       /\ Fresh(lev) /\ lev[KRoot] = 2
  BY StartGood
<1>2. ASSUME NEW rt, rt = [r \in Space |-> NoFrame]
      PROVE  Running(rt, {}, lev)
  <2>1. ({KRoot} \cup {rt[r] : r \in Space}) \ {NoFrame} = {KRoot}
    BY <1>2, PageTyped
  <2>2. {p \in Frame : lev[p] = 2} = {KRoot}
    BY <1>1, PageTyped DEF Fresh
  <2>3. {} = {p \in Frame : lev[p] = Lost} /\ \A p \in Frame : lev[p] # Held
    BY <1>1 DEF Fresh, Free, Lost, Held
  <2> QED
    BY <2>1, <2>2, <2>3 DEF Running
<1> QED
  BY <1>1, <1>2

LEMMA ZeroVa == 0 \in Va
<1>1. K * K * K > 0 /\ K * K * K \in Nat
  <2>1. K \in Nat /\ K > 1 /\ K * K \in Nat /\ K * K > 0
    BY KAssumption
  <2> QED
    BY <2>1
<1> QED
  BY <1>1 DEF Va

LEMMA InitGood ==
    ASSUME VmInit
    PROVE  IInv
<1>1. PICK lev, home : /\ Shape(KernelMemory.free, KernelMemory.table, lev, home)
                       /\ KernelThere(KernelMemory.table, lev)
                       /\ \A rt : (rt = [r \in Space |-> NoFrame]) => Running(rt, {}, lev)
  BY StartIs
<1>2. /\ kvmroot = KRoot /\ free = KernelMemory.free /\ table = KernelMemory.table
      /\ root = [r \in Space |-> NoFrame] /\ sz = [r \in Space |-> 0] /\ owned = [r \in Space |-> {}]
      /\ lost = {} /\ outcome = "ok"
  BY StartGood DEF VmInit, KRoot
<1>3. Running(root, lost, lev) /\ Mapped(table, root, owned)
  BY <1>1, <1>2 DEF Mapped
<1>4. \A r \in Space : root[r] = NoFrame /\ owned[r] = {}
  BY <1>2
<1>5. /\ root \in [Space -> Frame \cup {NoFrame}] /\ sz \in [Space -> Va]
      /\ owned \in [Space -> SUBSET Va] /\ lost \subseteq Frame
  BY <1>2, ZeroVa
<1> QED
  BY <1>1, <1>2, <1>3, <1>4, <1>5 DEF IInv, Good

LEMMA BootGood ==
    ASSUME NEW lev0, NEW home0, Good(lev0, home0), VmBoot
    PROVE  \E lev, home : Good(lev, home)'
<1>1. PICK lev, home : /\ Shape(KernelMemory.free, KernelMemory.table, lev, home)
                       /\ KernelThere(KernelMemory.table, lev)
                       /\ \A rt : (rt = [r \in Space |-> NoFrame]) => Running(rt, {}, lev)
  BY StartIs
<1>2. /\ kvmroot' = KRoot /\ free' = KernelMemory.free /\ table' = KernelMemory.table
      /\ root' = [r \in Space |-> NoFrame] /\ sz' = [r \in Space |-> 0] /\ owned' = [r \in Space |-> {}]
      /\ lost' = {} /\ outcome' = "ok"
  BY StartGood DEF VmBoot, Good
<1>3. Running(root', lost', lev) /\ Mapped(table', root', owned')
  BY <1>1, <1>2 DEF Mapped
<1>4. \A r \in Space : root'[r] = NoFrame /\ owned'[r] = {}
  BY <1>2
<1>5. /\ root' \in [Space -> Frame \cup {NoFrame}] /\ sz' \in [Space -> Va]
      /\ owned' \in [Space -> SUBSET Va] /\ lost' \subseteq Frame
  BY <1>2, ZeroVa
<1>6. Good(lev, home)'
  BY <1>1, <1>2, <1>3, <1>4, <1>5 DEF Good
<1> QED
  BY <1>6

LEMMA UvmfreeGood ==
    ASSUME NEW lev, NEW home, Good(lev, home), NEW r \in Space, Uvmfree(r)
    PROVE  (\E lev2, home2 : Good(lev2, home2)') /\ Changes(lev)
<1>1. PICK m : Ends(m) /\ root' = [root EXCEPT ![r] = NoFrame] /\ sz' = [sz EXCEPT ![r] = 0]
               /\ owned' = [owned EXCEPT ![r] = {}] /\ lost' = lost
  BY DEF Uvmfree
<1>2. outcome' = "panic"
  BY UvmfreePanics
<1>3. UNCHANGED <<free, table, kvmroot>>
  BY <1>1, <1>2 DEF Ends
<1>4. /\ root' \in [Space -> Frame \cup {NoFrame}] /\ sz' \in [Space -> Va]
      /\ owned' \in [Space -> SUBSET Va] /\ lost' \subseteq Frame
      /\ \A x \in Space : root'[x] # NoFrame => root'[x] = root[x]
  BY <1>1, ZeroVa DEF Good
<1>5. Good(lev, home)'
  BY <1>2, <1>3, <1>4, PanicGood
<1> QED
  BY <1>3, <1>5, Unchanging

\* What one step does from a state that satisfies the invariant.
LEMMA NextGood ==
    ASSUME NEW lev, NEW home, Good(lev, home), VmNext
    PROVE  IInv' /\ (outcome = "panic" \/ Changes(lev))
<1>1. ASSUME NEW r \in Space, Mapproc(r)
      PROVE  IInv' /\ (outcome = "panic" \/ Changes(lev))
  BY <1>1, MapprocGood DEF IInv
<1>2. ASSUME NEW r \in Space, NEW va \in UserVa, MapUser(r, va)
      PROVE  IInv' /\ (outcome = "panic" \/ Changes(lev))
  BY <1>2, MapUserGood DEF IInv
<1>3. ASSUME NEW r \in Space, NEW new \in 1 .. (K + 1), Uvmalloc(r, new)
      PROVE  IInv' /\ (outcome = "panic" \/ Changes(lev))
  BY <1>3, UvmallocPreserves DEF IInv
<1>4. ASSUME NEW r \in Space, Uvmfree(r)
      PROVE  IInv' /\ (outcome = "panic" \/ Changes(lev))
  BY <1>4, UvmfreeGood DEF IInv
<1>6. ASSUME NEW r \in Space, SetSize(r)
      PROVE  IInv' /\ (outcome = "panic" \/ Changes(lev))
  BY <1>6, SetSizeGood DEF IInv
<1>5. ASSUME VmBoot
      PROVE  IInv' /\ (outcome = "panic" \/ Changes(lev))
  <2>1. outcome = "panic"
    BY <1>5 DEF VmBoot
  <2>2. \E lev2, home2 : Good(lev2, home2)'
    BY <1>5, BootGood
  <2> QED
    BY <2>1, <2>2 DEF IInv
<1> QED
  BY <1>1, <1>2, <1>3, <1>4, <1>5, <1>6 DEF VmNext

-----------------------------------------------------------------------------
\* The invariant holds in every state: every page has one use, tables form a tree of three
\* levels that only the kernel's lower tables are shared in, and every process maps what it
\* is said to own (mm/vm.c, all calls).
THEOREM Inductive == VmSpec => []IInv
<1>1. VmInit => IInv
  BY InitGood
<1>2. IInv /\ [VmNext]_vmVars => IInv'
  <2>1. SUFFICES ASSUME IInv, [VmNext]_vmVars
                 PROVE  IInv'
    OBVIOUS
  <2>2. PICK lev, home : Good(lev, home)
    BY <2>1 DEF IInv
  <2>3. CASE VmNext
    BY <2>2, <2>3, NextGood
  <2>4. CASE UNCHANGED vmVars
    <3>1. Good(lev, home)'
      BY <2>2, <2>4 DEF vmVars, Good
    <3> QED
      BY <3>1 DEF IInv
  <2> QED
    BY <2>1, <2>3, <2>4
<1> QED
  BY <1>1, <1>2, PTL DEF VmSpec

LEMMA GoodTyped == IInv => VmTypeOK
<1>1. SUFFICES ASSUME NEW lev, NEW home, Good(lev, home)
               PROVE  VmTypeOK
  BY DEF IInv
<1>2. /\ table \in [Frame -> [Entry -> EntryType]] /\ free \subseteq Frame /\ kvmroot \in Frame
  BY <1>1 DEF Good, Shape
<1>3. table \in [Frame -> [Entry -> [kind : {"none", "table", "user", "kernel"}, to : Nat]]]
  BY <1>2 DEF EntryType
<1>4. \A p \in Frame, e \in Entry :
          table[p][e].kind \in {"table", "user"} => table[p][e].to \in Frame
  BY <1>2 DEF EntryType
<1> QED
  BY <1>1, <1>2, <1>3, <1>4 DEF VmTypeOK, Good

\* Every variable of the page tables and address spaces has its type.
THEOREM TypeCorrect == VmSpec => []VmTypeOK
BY Inductive, GoodTyped, PTL

LEMMA RootsAre ==
    ASSUME NEW lev, NEW home, Good(lev, home)
    PROVE  \A p \in Roots : p \in Frame /\ lev[p] = 2
BY PageTyped DEF Roots, Good, Shape

LEMMA GoodKernel == IInv => KernelMapped
<1>1. SUFFICES ASSUME NEW lev, NEW home, Good(lev, home), NEW p \in Roots,
                      NEW i \in 1 .. Len(KernelVa)
               PROVE  Translate(table, p, KernelVa[i]) = Kernel(KernelVa[i])
  BY DEF IInv, KernelMapped
<1>2. p \in Frame /\ lev[p] = 2
  BY <1>1, RootsAre
<1> QED
  BY <1>1, <1>2, TranslateFinds DEF Good, KernelThere

\* Whatever the processes map, and whatever fails half way, every table in use translates
\* the kernel's addresses as kvmmake did, without access for users (vm.c: kvmmake,
\* uvmmapkernel, vmmap, uvmalloc).
THEOREM KernelStays == VmSpec => []KernelMapped
BY Inductive, GoodKernel, PTL

\* A call changes no translations but those of pages that a process maps with it, in its own
\* address space or in the tables uvmmapkernel shares: uvmalloc that runs out of pages half
\* way leaves all of them as they were (vm.c: uvmalloc, vmmap, uvmmapkernel).
THEOREM OthersKeepTheirPages == VmSpec => OnlyMappedPagesChange
<1>1. IInv /\ [VmNext]_vmVars =>
        [\A p \in Roots \cap Roots', v \in Va :
            Translate(table', p, v) # Translate(table, p, v) =>
                \/ outcome = "panic"
                \/ \E r \in Space : v \in owned'[r] \ owned[r] /\ (p = root[r] \/ Shared(v)')]_vmVars
  <2>1. SUFFICES ASSUME IInv, VmNext, NEW p \in Roots \cap Roots', NEW v \in Va,
                        Translate(table', p, v) # Translate(table, p, v), outcome # "panic"
                 PROVE  \E r \in Space : v \in owned'[r] \ owned[r] /\ (p = root[r] \/ Shared(v)')
    OBVIOUS
  <2>2. PICK lev, home : Good(lev, home)
    BY <2>1 DEF IInv
  <2>3. Changes(lev)
    BY <2>1, <2>2, NextGood
  <2>4. p \in Frame /\ lev[p] = 2
    BY <2>1, <2>2, RootsAre
  <2>5. Tr(table', p, v) # Tr(table, p, v)
    BY <2>1, TranslateFinds
  <2>6. kvmroot' = KRoot
    BY <2>1, <2>2, NextGood DEF IInv, Good
  <2> QED
    BY <2>1, <2>3, <2>4, <2>5, <2>6 DEF Changes, Shared
<1> QED
  BY <1>1, Inductive, PTL DEF VmSpec, OnlyMappedPagesChange

\* No address space can be freed: the devices mapped below KERNBASE make uvmfree panic,
\* whoever calls it and when (vm.c: uvmfree, uvmfreewalk, freewalk).
THEOREM FreeingPanics == VmSpec => [][\A r \in Space : Uvmfree(r) => outcome' = "panic"]_vmVars
<1>1. IInv /\ [VmNext]_vmVars => [\A r \in Space : Uvmfree(r) => outcome' = "panic"]_vmVars
  <2>1. SUFFICES ASSUME IInv, NEW r \in Space, Uvmfree(r)
                 PROVE  outcome' = "panic"
    OBVIOUS
  <2> QED
    BY <2>1, UvmfreePanics DEF IInv
<1> QED
  BY <1>1, Inductive, PTL DEF VmSpec

\* The pages of one level, as the model finds them by walking from the roots.
LEMMA LevelsAre ==
    ASSUME NEW lev, NEW home, Good(lev, home), outcome # "panic"
    PROVE  /\ Roots = {p \in Frame : lev[p] = 2}
           /\ Level1 = {p \in Frame : lev[p] = 1} /\ Level0 = {p \in Frame : lev[p] = 0}
<1>1. /\ Shape(free, table, lev, home) /\ Running(root, lost, lev) /\ kvmroot = KRoot
      /\ lev \in [Frame -> -4 .. 2] /\ home \in [Frame -> Slot]
  BY DEF Good, Shape
<1>2. Roots = {p \in Frame : lev[p] = 2}
  BY <1>1 DEF Running, Roots
<1>3. ASSUME NEW l \in 0 .. 1, NEW S, S = {p \in Frame : lev[p] = l + 1}
      PROVE  Below(table, S) = {p \in Frame : lev[p] = l}
  <2>1. ASSUME NEW q \in Below(table, S)
        PROVE  q \in Frame /\ lev[q] = l
    <3>1. PICK p \in S, e \in Entry : table[p][e].kind = "table" /\ q = table[p][e].to
      BY <2>1 DEF Below, Inner
    <3>2. p \in Frame /\ lev[p] = l + 1 /\ lev[p] \in 0 .. 2 /\ lev[p] # 0
      BY <1>3, <3>1
    <3>3. Fits(table, lev, home, p, e)
      BY <1>1, <3>2 DEF Shape
    <3>4. table[p][e] # None
      BY <3>1 DEF None
    <3>5. PICK x \in Frame : table[p][e].to = x /\ lev[x] = lev[p] - 1
      BY <3>2, <3>3, <3>4, EntryFits
    <3> QED
      BY <1>3, <3>1, <3>2, <3>5
  <2>2. ASSUME NEW q \in Frame, lev[q] = l
        PROVE  q \in Below(table, S)
    <3>1. PICK p, e : p = home[q][1] /\ e = home[q][2] /\ p \in Frame /\ e \in Entry
      BY <1>1 DEF Slot
    <3>2. lev[p] = l + 1 /\ table[p][e] = Points(l + 1, q)
      BY <1>1, <1>3, <2>2, <3>1 DEF Shape
    <3>3. table[p][e].to = q /\ table[p][e].kind = "table"
      BY <1>3, <3>2 DEF Points, Table
    <3>4. PICK x : x = <<p, e>>
      OBVIOUS
    <3>5. x \in S \X Entry
      BY <1>3, <3>1, <3>2, <3>4
    <3>6. x \in Inner(table, S)
      BY <3>3, <3>4, <3>5 DEF Inner
    <3> QED
      BY <3>3, <3>4, <3>6 DEF Below
  <2> QED
    BY <2>1, <2>2
<1>4. Level1 = {p \in Frame : lev[p] = 1}
  <2>1. PICK l, S : l = 1 /\ S = Roots
    OBVIOUS
  <2>2. l \in 0 .. 1 /\ S = {p \in Frame : lev[p] = l + 1}
    BY <1>2, <2>1
  <2>3. Below(table, S) = {p \in Frame : lev[p] = l}
    BY <1>3, <2>2
  <2> QED
    BY <2>1, <2>3 DEF Level1
<1>5. Level0 = {p \in Frame : lev[p] = 0}
  <2>1. PICK l, S : l = 0 /\ S = Level1
    OBVIOUS
  <2>2. l \in 0 .. 1 /\ S = {p \in Frame : lev[p] = l + 1}
    BY <1>4, <2>1
  <2>3. Below(table, S) = {p \in Frame : lev[p] = l}
    BY <1>3, <2>2
  <2> QED
    BY <2>1, <2>3 DEF Level0
<1> QED
  BY <1>2, <1>4, <1>5

\* Every page of user memory is in one slot of one last table.
LEMMA UserPagesAre ==
    ASSUME NEW lev, NEW home, Good(lev, home), outcome # "panic"
    PROVE  /\ UserPages = {p \in Frame : lev[p] = Users}
           /\ Cardinality(UserPages) = Cardinality(UserLeaves)
<1>1. /\ Shape(free, table, lev, home) /\ Level0 = {p \in Frame : lev[p] = 0}
      /\ home \in [Frame -> Slot] /\ Users = -1
  BY LevelsAre DEF Good, Shape, Users
<1>2. ASSUME NEW x \in UserLeaves
      PROVE  table[x[1]][x[2]].to \in Frame /\ lev[table[x[1]][x[2]].to] = -1
             /\ home[table[x[1]][x[2]].to] = x
  <2>1. PICK p \in Frame, e \in Entry : x = <<p, e>> /\ lev[p] = 0 /\ table[p][e].kind = "user"
    BY <1>1 DEF UserLeaves
  <2>2. Fits(table, lev, home, p, e) /\ table[p][e] # None /\ table[p][e].kind # "kernel"
    BY <1>1, <2>1 DEF Shape, None
  <2>3. PICK q \in Frame : table[p][e].to = q /\ lev[q] = lev[p] - 1 /\ home[q] = <<p, e>>
    BY <2>1, <2>2, EntryFits
  <2> QED
    BY <2>1, <2>3
<1>3. ASSUME NEW q \in Frame, lev[q] = -1
      PROVE  home[q] \in UserLeaves /\ table[home[q][1]][home[q][2]] = User(q)
  <2>1. PICK p, e : p = home[q][1] /\ e = home[q][2] /\ p \in Frame /\ e \in Entry
                    /\ home[q] = <<p, e>>
    BY <1>1 DEF Slot
  <2>2. lev[p] = 0 /\ table[p][e] = Points(0, q)
    BY <1>1, <1>3, <2>1 DEF Shape
  <2>3. table[p][e] = User(q) /\ table[p][e].kind = "user"
    BY <2>2 DEF Points, User
  <2>4. home[q] \in Level0 \X Entry
    BY <1>1, <2>1, <2>2
  <2> QED
    BY <2>1, <2>3, <2>4 DEF UserLeaves
<1>4. UserPages = {p \in Frame : lev[p] = Users}
  <2>1. ASSUME NEW q \in UserPages
        PROVE  q \in Frame /\ lev[q] = Users
    BY <1>1, <1>2, <2>1 DEF UserPages
  <2>2. ASSUME NEW q \in Frame, lev[q] = Users
        PROVE  q \in UserPages
    <3>1. lev[q] = -1
      BY <1>1, <2>2
    <3>2. home[q] \in UserLeaves /\ table[home[q][1]][home[q][2]] = User(q)
      BY <1>3, <2>2, <3>1
    <3>3. table[home[q][1]][home[q][2]].to = q
      BY <3>2 DEF User
    <3> QED
      BY <3>2, <3>3 DEF UserPages
  <2> QED
    BY <2>1, <2>2
<1>5. IsFiniteSet(UserPages)
  BY <1>4, PageTyped, FS_Subset
<1>6. PICK f : f = [q \in UserPages |-> home[q]]
  OBVIOUS
<1>7. f \in [UserPages -> UserLeaves]
  BY <1>1, <1>3, <1>4, <1>6
<1>8. f \in Surjection(UserPages, UserLeaves)
  <2>1. ASSUME NEW x \in UserLeaves
        PROVE  \E q \in UserPages : f[q] = x
    BY <1>1, <1>2, <1>4, <1>6, <2>1
  <2> QED
    BY <1>7, <2>1 DEF Surjection
<1>9. f \in Injection(UserPages, UserLeaves)
  <2>1. ASSUME NEW p \in UserPages, NEW q \in UserPages, f[p] = f[q]
        PROVE  p = q
    <3>1. home[p] = home[q] /\ p \in Frame /\ q \in Frame /\ lev[p] = -1 /\ lev[q] = -1
      BY <1>1, <1>4, <1>6, <2>1
    <3>2. User(p) = User(q)
      BY <1>3, <3>1
    <3> QED
      BY <3>2 DEF User
  <2> QED
    BY <1>7, <2>1 DEF Injection, IsInjective
<1>10. Cardinality(UserLeaves) = Cardinality(UserPages)
  BY <1>5, <1>8, <1>9, FS_Surjection
<1> QED
  BY <1>4, <1>10

LEMMA DisjointUnion ==
    ASSUME NEW S \in SUBSET Frame, NEW T \in SUBSET Frame, S \cap T = {}
    PROVE  /\ S \cup T \in SUBSET Frame /\ Cardinality(S) \in Nat /\ Cardinality(T) \in Nat
           /\ Cardinality(S \cup T) = Cardinality(S) + Cardinality(T)
<1>1. IsFiniteSet(S) /\ IsFiniteSet(T)
  BY PageTyped, FS_Subset
<1>2. Cardinality(S) \in Nat /\ Cardinality(T) \in Nat
  BY <1>1, FS_CardinalityType
<1>3. Cardinality(S \cup T) = Cardinality(S) + Cardinality(T) - Cardinality({})
  BY <1>1, FS_Union
<1>4. Cardinality({}) = 0
  BY FS_EmptySet
<1> QED
  BY <1>2, <1>3, <1>4

LEMMA GoodAccounts == IInv => PagesAccounted
<1>1. SUFFICES ASSUME NEW lev, NEW home, Good(lev, home), outcome # "panic"
               PROVE  /\ Frame = free \cup Roots \cup Level1 \cup Level0 \cup UserPages \cup lost
                      /\ Cardinality(Frame) = Cardinality(free) + Cardinality(Roots)
                            + Cardinality(Level1) + Cardinality(Level0)
                            + Cardinality(UserPages) + Cardinality(lost)
                      /\ Cardinality(UserPages) = Cardinality(UserLeaves)
  BY DEF IInv, PagesAccounted
<1>2. /\ lev \in [Frame -> -4 .. 2] /\ free = {p \in Frame : lev[p] = -2}
      /\ Roots = {p \in Frame : lev[p] = 2} /\ Level1 = {p \in Frame : lev[p] = 1}
      /\ Level0 = {p \in Frame : lev[p] = 0} /\ UserPages = {p \in Frame : lev[p] = -1}
      /\ lost = {p \in Frame : lev[p] = -3} /\ \A p \in Frame : lev[p] # -4
  BY <1>1, LevelsAre, UserPagesAre, SMTT(30) DEF Good, Shape, Running, Free, Lost, Users, Held
<1>3. Frame = free \cup Roots \cup Level1 \cup Level0 \cup UserPages \cup lost
  <2>1. \A p \in Frame : lev[p] \in -3 .. 2
    BY <1>2
  <2>2. \A p \in Frame : \/ lev[p] = -3 \/ lev[p] = -2 \/ lev[p] = -1
                         \/ lev[p] = 0 \/ lev[p] = 1 \/ lev[p] = 2
    BY <2>1
  <2> QED
    BY <1>2, <2>2
<1>4. PICK A, B, C, D, E, F : /\ A = free /\ B = Roots /\ C = Level1 /\ D = Level0
                              /\ E = UserPages /\ F = lost
  OBVIOUS
<1>5. /\ A \in SUBSET Frame /\ B \in SUBSET Frame /\ C \in SUBSET Frame /\ D \in SUBSET Frame
      /\ E \in SUBSET Frame /\ F \in SUBSET Frame
      /\ A \cap B = {} /\ (A \cup B) \cap C = {} /\ (A \cup B \cup C) \cap D = {}
      /\ (A \cup B \cup C \cup D) \cap E = {} /\ (A \cup B \cup C \cup D \cup E) \cap F = {}
  BY <1>2, <1>4
<1>6. /\ Cardinality(A \cup B) = Cardinality(A) + Cardinality(B)
      /\ Cardinality(A) \in Nat /\ Cardinality(B) \in Nat /\ A \cup B \in SUBSET Frame
  BY ONLY <1>5, DisjointUnion
<1>7. /\ Cardinality(A \cup B \cup C) = Cardinality(A \cup B) + Cardinality(C)
      /\ Cardinality(C) \in Nat /\ A \cup B \cup C \in SUBSET Frame
  BY ONLY <1>5, <1>6, DisjointUnion
<1>8. /\ Cardinality(A \cup B \cup C \cup D) = Cardinality(A \cup B \cup C) + Cardinality(D)
      /\ Cardinality(D) \in Nat /\ A \cup B \cup C \cup D \in SUBSET Frame
  BY ONLY <1>5, <1>7, DisjointUnion
<1>9. /\ Cardinality(A \cup B \cup C \cup D \cup E) = Cardinality(A \cup B \cup C \cup D) + Cardinality(E)
      /\ Cardinality(E) \in Nat /\ A \cup B \cup C \cup D \cup E \in SUBSET Frame
  BY ONLY <1>5, <1>8, DisjointUnion
<1>10. /\ Cardinality(A \cup B \cup C \cup D \cup E \cup F) =
             Cardinality(A \cup B \cup C \cup D \cup E) + Cardinality(F)
       /\ Cardinality(F) \in Nat
  BY ONLY <1>5, <1>9, DisjointUnion
<1>11. Cardinality(Frame) = Cardinality(A) + Cardinality(B) + Cardinality(C) + Cardinality(D)
                              + Cardinality(E) + Cardinality(F)
  BY <1>3, <1>4, <1>6, <1>7, <1>8, <1>9, <1>10
<1> QED
  BY <1>1, <1>3, <1>4, <1>11, UserPagesAre

\* Every page has exactly one use, and no page of user memory is mapped twice, whatever
\* succeeds and whatever fails half way (vm.c: walk, vmmap, uvmalloc, uvmunmap).
THEOREM PagesHaveOneUse == VmSpec => []PagesAccounted
BY Inductive, GoodAccounts, PTL

=============================================================================
