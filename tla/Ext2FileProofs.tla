--------------------------- MODULE Ext2FileProofs ---------------------------
(***************************************************************************)
(* Proofs about Ext2File for every number of blocks, direct slots, words   *)
(* in a block and files.                                                   *)
(*                                                                         *)
(* The places of a file's tree are the same whatever is allocated: a slot  *)
(* k of the inode is <<f, k, No, No>>, a slot j of the block named there   *)
(* <<f, k, j, No>>, and a slot i below that <<f, k, j, i>>.  The proofs    *)
(* follow the function a from places to the blocks found there, 0 for none.*)
(***************************************************************************)
EXTENDS Ext2File, FiniteSetTheorems, WellFoundedInduction, TLAPS

No == -1

RootNode == File \X (0 .. DIND) \X {No} \X {No}
MidNode  == File \X {IND, DIND} \X Index \X {No}
LowNode  == File \X {DIND} \X Index \X Index
Below == MidNode \cup LowNode
Node  == RootNode \cup Below

\* The places of index blocks, the place above one, and the slot there.
IsIndex(x) == x[4] = No /\ (x[2] = DIND \/ (x[2] = IND /\ x[3] = No))
Up(x) == IF x[4] = No THEN <<x[1], x[2], No, No>> ELSE <<x[1], x[2], x[3], No>>
LastOf(x) == IF x[4] = No THEN x[3] ELSE x[4]

\* The place of the data of logical block l.
Leaf(f, l) ==
    IF l < NDIR THEN <<f, l, No, No>>
    ELSE IF l - NDIR < P THEN <<f, IND, l - NDIR, No>>
    ELSE <<f, DIND, (l - NDIR - P) \div P, (l - NDIR - P) % P>>

Lbk == 0 .. (MaxBlocks - 1)

-----------------------------------------------------------------------------
(***************************************************************************)
(* Numbers.                                                                *)
(***************************************************************************)
LEMMA Division ==
    ASSUME NEW n \in Nat, NEW d \in Nat \ {0}
    PROVE  /\ n \div d \in Nat /\ n % d \in 0 .. (d - 1)
           /\ (n \div d) * d + (n % d) = n
<1>1. n \div d \in Int /\ n % d \in 0 .. (d - 1)
  OBVIOUS
<1>2. n = d * (n \div d) + (n % d)
  OBVIOUS
<1>3. n \div d \in Nat
  OBVIOUS
<1> QED
  BY <1>1, <1>2, <1>3

LEMMA Quotient ==
    ASSUME NEW d \in Nat \ {0}, NEW l \in Nat, NEW k \in 0 .. (d - 1), NEW n, n = l * d + k
    PROVE  n \in Nat /\ n \div d = l /\ n % d = k
<1>1. l * d \in Nat
  OBVIOUS
<1>2. n \in Nat
  BY <1>1
<1>3. PICK q, r : q = n \div d /\ r = n % d
  OBVIOUS
<1>4. q \in Nat /\ r \in 0 .. (d - 1) /\ q * d + r = l * d + k
  BY <1>2, <1>3, Division
<1>5. q = l
  <2>1. ASSUME q < l
        PROVE  FALSE
    <3>1. PICK e \in Nat : l = q + 1 + e
      BY <1>4, <2>1
    <3>2. l * d = q * d + d + e * d /\ e * d \in Nat
      BY <1>4, <3>1
    <3> QED
      BY <1>4, <3>2
  <2>2. ASSUME l < q
        PROVE  FALSE
    <3>1. PICK e \in Nat : q = l + 1 + e
      BY <1>4, <2>2
    <3>2. q * d = l * d + d + e * d /\ e * d \in Nat
      BY <1>4, <3>1
    <3> QED
      BY <1>4, <3>2
  <2> QED
    BY <1>4, <2>1, <2>2
<1> QED
  BY <1>2, <1>3, <1>4, <1>5

LEMMA QuotientBelow ==
    ASSUME NEW d \in Nat \ {0}, NEW c \in Nat, NEW n \in Nat, n < c * d
    PROVE  n \div d \in 0 .. (c - 1)
<1>1. PICK q, r : q = n \div d /\ r = n % d
  OBVIOUS
<1>2. q \in Nat /\ r \in 0 .. (d - 1) /\ q * d + r = n
  BY <1>1, Division
<1>3. ASSUME c <= q
      PROVE  FALSE
  <2>1. PICK e \in Nat : q = c + e
    BY <1>2, <1>3
  <2>2. q * d = c * d + e * d /\ e * d \in Nat
    BY <1>2, <2>1
  <2>3. c * d \in Nat
    OBVIOUS
  <2> QED
    BY <1>2, <2>2, <2>3
<1> QED
  BY <1>1, <1>2, <1>3

LEMMA LeastNumber ==
    ASSUME NEW S \in SUBSET Nat, S # {}
    PROVE  \E n \in S : \A k \in S : n <= k
<1> DEFINE R == OpToRel(<, Nat)
<1>1. IsWellFoundedOn(R, Nat)
  BY NatLessThanWellFounded
<1>2. \A x, y \in Nat : <<x, y>> \in R <=> x < y
  BY DEF OpToRel
<1> HIDE DEF R
<1>3. \E n \in S : \A k \in S : ~ (<<k, n>> \in R)
  BY <1>1, WFMin
<1>4. PICK n \in S : \A k \in S : ~ (<<k, n>> \in R)
  BY <1>3
<1>5. ASSUME NEW k \in S
      PROVE  n <= k
  <2>1. k \in Nat /\ n \in Nat
    OBVIOUS
  <2>2. ~ (k < n)
    BY <1>2, <1>4, <2>1
  <2> QED
    BY <2>1, <2>2
<1> QED
  BY <1>5

LEMMA Climb ==
    ASSUME NEW n \in Nat, NEW S, 0 \in S, \A i \in 1 .. n : i - 1 \in S => i \in S
    PROVE  \A i \in 0 .. n : i \in S
<1> DEFINE B == {i \in 0 .. n : i \notin S}
<1>1. CASE B = {}
  BY <1>1
<1>2. CASE B # {}
  <2>1. B \in SUBSET Nat
    OBVIOUS
  <2>2. PICK i \in B : \A k \in B : i <= k
    BY <1>2, <2>1, LeastNumber
  <2>3. i \in 0 .. n /\ i \notin S /\ i # 0
    BY <2>2
  <2>4. i \in 1 .. n /\ i - 1 \in 0 .. n /\ ~ (i <= i - 1)
    BY <2>3
  <2>5. i - 1 \in S
    BY <2>2, <2>4
  <2> QED
    BY <2>3, <2>4, <2>5
<1> QED
  BY <1>1, <1>2

LEMMA LowestIn ==
    ASSUME NEW S \in SUBSET Nat, S # {}
    PROVE  Lowest(S) \in S
BY LeastNumber DEF Lowest

LEMMA Sizes ==
    /\ NDIR \in Nat \ {0} /\ P \in Nat \ {0} /\ NBLK \in Nat
    /\ IND = NDIR /\ DIND = NDIR + 1 /\ TIND = NDIR + 2
    /\ P * P \in Nat /\ MaxBlocks = NDIR + P + P * P /\ MaxBlocks \in Nat
    /\ MaxLen = MaxBlocks * P /\ MaxLen \in Nat
<1>1. P * P \in Nat
  BY SizeAssumption
<1>2. MaxBlocks \in Nat
  BY <1>1, SizeAssumption DEF MaxBlocks
<1>3. MaxBlocks * P \in Nat
  BY <1>2, SizeAssumption
<1> QED
  BY <1>1, <1>2, <1>3, SizeAssumption DEF IND, DIND, TIND, MaxBlocks, MaxLen

-----------------------------------------------------------------------------
(***************************************************************************)
(* The places of a file.                                                   *)
(***************************************************************************)
LEMMA RootIs ==
    ASSUME NEW x \in RootNode
    PROVE  /\ x[1] \in File /\ x[2] \in 0 .. DIND /\ x[3] = No /\ x[4] = No
           /\ x = <<x[1], x[2], No, No>> /\ x \notin Below
           /\ IsIndex(x) <=> x[2] \in {IND, DIND}
<1>1. x[1] \in File /\ x[2] \in 0 .. DIND /\ x[3] = No /\ x[4] = No /\ x = <<x[1], x[2], No, No>>
  BY DEF RootNode
<1>2. No \notin Index
  BY Sizes DEF No, Index
<1>3. x \notin Below
  BY <1>1, <1>2 DEF Below, MidNode, LowNode
<1> QED
  BY <1>1, <1>3 DEF IsIndex

LEMMA BelowIs ==
    ASSUME NEW x \in Below
    PROVE  /\ x[1] \in File /\ Up(x) \in Node /\ IsIndex(Up(x)) /\ LastOf(x) \in Index
           /\ Up(x)[1] = x[1] /\ Up(x) # x
           /\ (x[4] = No => Up(x) = <<x[1], x[2], No, No>> /\ Up(x) \in RootNode /\ x[2] \in {IND, DIND})
           /\ (x[4] # No => Up(x) = <<x[1], DIND, x[3], No>> /\ Up(x) \in MidNode)
<1>1. No \notin Index
  BY Sizes DEF No, Index
<1>2. {IND, DIND} \subseteq 0 .. DIND
  BY Sizes
<1>3. CASE x \in MidNode
  <2>1. x[1] \in File /\ x[2] \in {IND, DIND} /\ x[3] \in Index /\ x[4] = No
    BY <1>3 DEF MidNode
  <2>2. Up(x) = <<x[1], x[2], No, No>> /\ LastOf(x) = x[3]
    BY <2>1 DEF Up, LastOf
  <2>3. <<x[1], x[2], No, No>> \in RootNode
    BY <1>2, <2>1 DEF RootNode
  <2>4. IsIndex(<<x[1], x[2], No, No>>)
    BY <2>1 DEF IsIndex
  <2>5. x # Up(x)
    BY <1>1, <2>1, <2>2
  <2> QED
    BY <2>1, <2>2, <2>3, <2>4, <2>5 DEF Node
<1>4. CASE x \in LowNode
  <2>1. x[1] \in File /\ x[2] = DIND /\ x[3] \in Index /\ x[4] \in Index
    BY <1>4 DEF LowNode
  <2>2. Up(x) = <<x[1], DIND, x[3], No>> /\ LastOf(x) = x[4] /\ x[4] # No
    BY <1>1, <2>1 DEF Up, LastOf
  <2>3. <<x[1], DIND, x[3], No>> \in MidNode
    BY <2>1 DEF MidNode
  <2>4. IsIndex(<<x[1], DIND, x[3], No>>)
    BY DEF IsIndex
  <2>5. x # Up(x)
    BY <2>2
  <2> QED
    BY <2>1, <2>2, <2>3, <2>4, <2>5 DEF Node, Below
<1> QED
  BY <1>3, <1>4 DEF Below

\* A place is known from the one above and the slot.
LEMMA SameSlot ==
    ASSUME NEW x \in Below, NEW y \in Below, Up(x) = Up(y), LastOf(x) = LastOf(y)
    PROVE  x = y
<1>1. No \notin Index
  BY Sizes DEF No, Index
<1>2. ASSUME NEW z \in Below
      PROVE  /\ Up(z)[1] = z[1] /\ Up(z)[2] = z[2] /\ z[3] \in Index
             /\ z[4] = No => z = <<z[1], z[2], z[3], No>> /\ Up(z)[3] = No /\ LastOf(z) = z[3]
             /\ z[4] # No => z = <<z[1], z[2], z[3], z[4]>> /\ Up(z)[3] = z[3] /\ LastOf(z) = z[4]
  BY <1>1 DEF Below, MidNode, LowNode, Up, LastOf
<1>3. x[1] = y[1] /\ x[2] = y[2] /\ Up(x)[3] = Up(y)[3]
  BY <1>2
<1>4. x[4] = No <=> y[4] = No
  BY <1>1, <1>2, <1>3
<1>5. CASE x[4] = No
  <2>1. x[3] = y[3]
    BY <1>2, <1>4, <1>5
  <2> QED
    BY <1>2, <1>3, <1>4, <1>5, <2>1
<1>6. CASE x[4] # No
  <2>1. x[3] = y[3] /\ x[4] = y[4]
    BY <1>2, <1>3, <1>4, <1>6
  <2> QED
    BY <1>2, <1>3, <1>4, <1>6, <2>1
<1> QED
  BY <1>5, <1>6

\* Every slot of an index block is a place.
LEMMA EverySlot ==
    ASSUME NEW p \in Node, IsIndex(p), NEW k \in Index
    PROVE  \E x \in Below : Up(x) = p /\ LastOf(x) = k
<1>1. No \notin Index
  BY Sizes DEF No, Index
<1>2. CASE p[3] = No
  <2>1. p \notin MidNode /\ p \notin LowNode
    BY <1>1, <1>2 DEF MidNode, LowNode
  <2>2. p \in RootNode
    BY <2>1 DEF Node, Below
  <2>3. p[1] \in File /\ p[2] \in {IND, DIND} /\ p = <<p[1], p[2], No, No>>
    BY <2>2, RootIs
  <2>4. PICK x : x = <<p[1], p[2], k, No>>
    OBVIOUS
  <2>5. x \in MidNode /\ Up(x) = p /\ LastOf(x) = k
    BY <2>3, <2>4 DEF MidNode, Up, LastOf
  <2> QED
    BY <2>5 DEF Below
<1>3. CASE p[3] # No
  <2>1. p \notin RootNode /\ p \notin LowNode
    BY <1>1, <1>3 DEF IsIndex, RootNode, LowNode
  <2>2. p \in MidNode
    BY <2>1 DEF Node, Below
  <2>3. p[1] \in File /\ p[2] = DIND /\ p[3] \in Index /\ p = <<p[1], DIND, p[3], No>>
    BY <1>3, <2>2 DEF MidNode, IsIndex
  <2>4. PICK x : x = <<p[1], DIND, p[3], k>>
    OBVIOUS
  <2>5. x \in LowNode /\ Up(x) = p /\ LastOf(x) = k
    BY <1>1, <2>3, <2>4 DEF LowNode, Up, LastOf
  <2> QED
    BY <2>5 DEF Below
<1> QED
  BY <1>2, <1>3

\* Data blocks are at the leaves, each at one of its own.
LEMMA LeafIs ==
    ASSUME NEW f \in File, NEW l \in Lbk
    PROVE  Leaf(f, l) \in Node /\ ~IsIndex(Leaf(f, l)) /\ Leaf(f, l)[1] = f
<1>1. l \in Nat /\ l < NDIR + P + P * P
  BY Sizes DEF Lbk
<1>2. CASE l < NDIR
  <2>1. Leaf(f, l) = <<f, l, No, No>> /\ l \in 0 .. DIND /\ l \notin {IND, DIND}
    BY <1>1, <1>2, Sizes DEF Leaf
  <2>2. <<f, l, No, No>> \in RootNode
    BY <2>1 DEF RootNode
  <2> QED
    BY <2>1, <2>2 DEF Node, IsIndex
<1>3. CASE l >= NDIR /\ l - NDIR < P
  <2>1. Leaf(f, l) = <<f, IND, l - NDIR, No>> /\ l - NDIR \in Index /\ IND # DIND /\ l - NDIR # No
    BY <1>1, <1>3, Sizes DEF Leaf, Index, No
  <2>2. <<f, IND, l - NDIR, No>> \in MidNode
    BY <2>1 DEF MidNode
  <2> QED
    BY <2>1, <2>2 DEF Node, Below, IsIndex
<1>4. CASE l >= NDIR /\ l - NDIR >= P
  <2>1. PICK n, i, j : n = l - NDIR - P /\ i = n \div P /\ j = n % P
    OBVIOUS
  <2>2. n \in Nat /\ n < P * P
    BY <1>1, <1>4, <2>1, Sizes
  <2>3. i \in Index /\ j \in Index
    BY <2>1, <2>2, Sizes, Division, QuotientBelow DEF Index
  <2>4. j # No
    BY <2>3, Sizes DEF Index, No
  <2>5. Leaf(f, l) = <<f, DIND, i, j>>
    BY <1>1, <1>4, <2>1, Sizes DEF Leaf
  <2>6. <<f, DIND, i, j>> \in LowNode
    BY <2>3 DEF LowNode
  <2> QED
    BY <2>4, <2>5, <2>6 DEF Node, Below, IsIndex
<1> QED
  BY <1>1, <1>2, <1>3, <1>4, Sizes

LEMMA LeafOnce ==
    ASSUME NEW f \in File, NEW g \in File, NEW l \in Lbk, NEW k \in Lbk, Leaf(f, l) = Leaf(g, k)
    PROVE  f = g /\ l = k
<1>1. l \in Nat /\ k \in Nat
  BY Sizes DEF Lbk
<1>2. f = g
  BY LeafIs
<1>3. ASSUME NEW n \in Lbk, NEW h \in File
      PROVE  /\ n < NDIR => Leaf(h, n)[2] = n /\ Leaf(h, n)[2] < IND
             /\ n >= NDIR /\ n - NDIR < P => Leaf(h, n)[2] = IND /\ Leaf(h, n)[3] = n - NDIR
             /\ n >= NDIR /\ n - NDIR >= P =>
                    /\ Leaf(h, n)[2] = DIND
                    /\ n - NDIR - P = Leaf(h, n)[3] * P + Leaf(h, n)[4]
  <2>1. n \in Nat
    BY Sizes DEF Lbk
  <2>2. CASE n < NDIR
    BY <2>1, <2>2, Sizes DEF Leaf
  <2>3. CASE n >= NDIR /\ n - NDIR < P
    BY <2>1, <2>3, Sizes DEF Leaf
  <2>4. CASE n >= NDIR /\ n - NDIR >= P
    <3>1. PICK e, i, j : e = n - NDIR - P /\ i = e \div P /\ j = e % P
      OBVIOUS
    <3>2. e \in Nat
      BY <2>1, <2>4, <3>1, Sizes
    <3>3. e = i * P + j
      BY <3>1, <3>2, Sizes, Division
    <3>4. Leaf(h, n) = <<h, DIND, i, j>>
      BY <2>1, <2>4, <3>1, Sizes DEF Leaf
    <3> QED
      BY <2>1, <2>4, <3>1, <3>3, <3>4, Sizes
  <2> QED
    BY <2>1, <2>2, <2>3, <2>4, Sizes
<1>4. PICK a, b, c : a = Leaf(f, l)[2] /\ b = Leaf(f, l)[3] /\ c = Leaf(f, l)[4]
  OBVIOUS
<1>5. /\ l < NDIR => a = l /\ a < IND
      /\ l >= NDIR /\ l - NDIR < P => a = IND /\ b = l - NDIR
      /\ l >= NDIR /\ l - NDIR >= P => a = DIND /\ l - NDIR - P = b * P + c
  BY <1>3, <1>4
<1>6. /\ k < NDIR => a = k /\ a < IND
      /\ k >= NDIR /\ k - NDIR < P => a = IND /\ b = k - NDIR
      /\ k >= NDIR /\ k - NDIR >= P => a = DIND /\ k - NDIR - P = b * P + c
  BY <1>3, <1>4
<1>7. l = k
  BY <1>1, <1>5, <1>6, Sizes
<1> QED
  BY <1>2, <1>7

\* The places on the way along a path.
Place(f, path, i) ==
    <<f, path[1], IF i > 1 THEN path[2] ELSE No, IF i > 2 THEN path[3] ELSE No>>

Leads(f, path, l) ==
    /\ Len(path) \in 1 .. 3
    /\ Place(f, path, 1) \in RootNode /\ path[1] \in 0 .. DIND
    /\ \A i \in 1 .. Len(path) :
          /\ Place(f, path, i) \in Node
          /\ IsIndex(Place(f, path, i)) <=> i < Len(path)
          /\ i > 1 => /\ Place(f, path, i) \in Below
                      /\ Up(Place(f, path, i)) = Place(f, path, i - 1)
                      /\ LastOf(Place(f, path, i)) = path[i]
    /\ Place(f, path, Len(path)) = Leaf(f, l)

LEMMA PathLeads ==
    ASSUME NEW f \in File, NEW l \in Lbk, NEW path, path = Path(l)
    PROVE  Leads(f, path, l)
<1>1. l \in Nat /\ l < NDIR + P + P * P
  BY Sizes DEF Lbk
<1>2. No \notin Index /\ No < 0 /\ DIND \in 0 .. DIND /\ IND \in 0 .. DIND /\ IND # DIND
  BY Sizes DEF No, Index
<1>3. CASE l < NDIR
  <2>1. path = <<l>> /\ Leaf(f, l) = <<f, l, No, No>> /\ l \in 0 .. DIND /\ l \notin {IND, DIND}
    BY <1>1, <1>3, Sizes DEF Leaf, Path
  <2>2. Len(path) = 1 /\ path[1] = l /\ Place(f, path, 1) = <<f, l, No, No>>
    BY <2>1 DEF Place
  <2>3. <<f, l, No, No>> \in RootNode
    BY <2>1 DEF RootNode
  <2>4. \A i \in 1 .. Len(path) : i = 1
    BY <2>2
  <2>5. ~IsIndex(<<f, l, No, No>>)
    BY <2>1 DEF IsIndex
  <2> QED
    BY <2>1, <2>2, <2>3, <2>4, <2>5 DEF Leads, Node
<1>4. CASE l >= NDIR /\ l - NDIR < P
  <2>1. PICK k : k = l - NDIR
    OBVIOUS
  <2>2. k \in Index /\ path = <<IND, k>> /\ Leaf(f, l) = <<f, IND, k, No>>
    BY <1>1, <1>4, <2>1, Sizes DEF Leaf, Path, Index
  <2>3. Len(path) = 2 /\ path[1] = IND /\ path[2] = k
    BY <2>2
  <2>4. Place(f, path, 1) = <<f, IND, No, No>> /\ Place(f, path, 2) = <<f, IND, k, No>>
    BY <2>3 DEF Place
  <2>5. <<f, IND, No, No>> \in RootNode /\ IsIndex(<<f, IND, No, No>>)
    BY <1>2 DEF RootNode, IsIndex
  <2>6. <<f, IND, k, No>> \in MidNode /\ ~IsIndex(<<f, IND, k, No>>)
    BY <1>2, <2>2 DEF MidNode, IsIndex
  <2>7. Up(<<f, IND, k, No>>) = <<f, IND, No, No>> /\ LastOf(<<f, IND, k, No>>) = k
    BY DEF Up, LastOf
  <2>8. \A i \in 1 .. Len(path) : i = 1 \/ i = 2
    BY <2>3
  <2> QED
    BY <1>2, <2>2, <2>3, <2>4, <2>5, <2>6, <2>7, <2>8 DEF Leads, Node, Below
<1>5. CASE l >= NDIR /\ l - NDIR >= P
  <2>1. PICK n, i, j : n = l - NDIR - P /\ i = n \div P /\ j = n % P
    OBVIOUS
  <2>2. n \in Nat /\ n < P * P
    BY <1>1, <1>5, <2>1, Sizes
  <2>3. i \in Index /\ j \in Index
    BY <2>1, <2>2, Sizes, Division, QuotientBelow DEF Index
  <2>4. Leaf(f, l) = <<f, DIND, i, j>> /\ path = <<DIND, i, j>>
    BY <1>1, <1>5, <2>1, Sizes DEF Leaf, Path
  <2>5. Len(path) = 3 /\ path[1] = DIND /\ path[2] = i /\ path[3] = j
    BY <2>4
  <2>6. /\ Place(f, path, 1) = <<f, DIND, No, No>> /\ Place(f, path, 2) = <<f, DIND, i, No>>
        /\ Place(f, path, 3) = <<f, DIND, i, j>>
    BY <2>5 DEF Place
  <2>7. <<f, DIND, No, No>> \in RootNode /\ IsIndex(<<f, DIND, No, No>>)
    BY <1>2 DEF RootNode, IsIndex
  <2>8. <<f, DIND, i, No>> \in MidNode /\ IsIndex(<<f, DIND, i, No>>)
    BY <1>2, <2>3 DEF MidNode, IsIndex
  <2>9. <<f, DIND, i, j>> \in LowNode /\ ~IsIndex(<<f, DIND, i, j>>)
    BY <1>2, <2>3 DEF LowNode, IsIndex
  <2>10. Up(<<f, DIND, i, No>>) = <<f, DIND, No, No>> /\ LastOf(<<f, DIND, i, No>>) = i
    BY DEF Up, LastOf
  <2>11. Up(<<f, DIND, i, j>>) = <<f, DIND, i, No>> /\ LastOf(<<f, DIND, i, j>>) = j
    BY <1>2, <2>3 DEF Up, LastOf
  <2>12. \A q \in 1 .. Len(path) : q = 1 \/ q = 2 \/ q = 3
    BY <2>5
  <2> QED
    BY <1>2, <2>4, <2>5, <2>6, <2>7, <2>8, <2>9, <2>10, <2>11, <2>12 DEF Leads, Node, Below
<1> QED
  BY <1>1, <1>3, <1>4, <1>5, Sizes

-----------------------------------------------------------------------------
(***************************************************************************)
(* The invariant, of a state m during a call and the blocks a found at the *)
(* places of its files.                                                    *)
(***************************************************************************)
Inode == [iblock : [0 .. TIND -> Blk \cup {0}], size : 0 .. MaxLen]

State == [free : SUBSET Blk, block : [Blk -> [Index -> Nat]],
          iblock : [File -> [0 .. TIND -> Blk \cup {0}]], size : [File -> 0 .. MaxLen],
          dirty : [File -> BOOLEAN], raw : [File -> Inode], at : Int, total : Nat]

\* An inode that is not dirty is on disk as it is in memory.
Saved(m) ==
    \A f \in File : ~m.dirty[f] => m.raw[f] = [iblock |-> m.iblock[f], size |-> m.size[f]]

\* a is what the inodes and index blocks of m say.
Describes(m, a) ==
    /\ a \in [Node -> Blk \cup {0}]
    /\ \A f \in File, k \in 0 .. DIND : a[<<f, k, No, No>>] = m.iblock[f][k]
    /\ \A f \in File : m.iblock[f][TIND] = 0
    /\ \A x \in Below : a[x] = IF a[Up(x)] = 0 THEN 0 ELSE m.block[a[Up(x)]][LastOf(x)]

\* Each block is free or found at one place.
Owned(m, a) ==
    /\ \A x, y \in Node : a[x] = a[y] /\ a[x] # 0 => x = y
    /\ \A x \in Node : a[x] \notin m.free
    /\ \A b \in Blk \ m.free : \E x \in Node : a[x] = b

Good(m, a) == m \in State /\ Saved(m) /\ Describes(m, a) /\ Owned(m, a)

IInv == \E a : Good(FS, a)

\* The data at a place.
DataAt(m, a, x) == IF a[x] = 0 THEN Zeros ELSE m.block[a[x]]

LEMMA BlkIs == 0 \notin Blk /\ Root \notin Blk /\ NoSpace \notin Blk /\ Root # 0 /\ NoSpace # 0
               /\ Root # NoSpace /\ Blk \subseteq Nat /\ IsFiniteSet(Blk)
<1>1. 1 \in Int /\ NBLK \in Int
  BY Sizes
<1>2. IsFiniteSet(1 .. NBLK)
  BY <1>1, FS_Interval
<1> QED
  BY <1>2, Sizes DEF Blk, Root, NoSpace

LEMMA ZerosIs == Zeros \in [Index -> Nat] /\ \A k \in Index : Zeros[k] = 0
BY DEF Zeros

-----------------------------------------------------------------------------
(***************************************************************************)
(* One level down.                                                         *)
(***************************************************************************)
\* Descend, to the place x.
Down(m, f, k, x) == IF IsIndex(x) THEN Descend(m, f, k, TRUE) ELSE Descend(m, f, k, FALSE)

\* Of the data of m, found by a, nothing has changed but what may be at x.
Keeps(m, a, m2, a2, x) ==
    /\ m2.size = m.size /\ m2.raw = m.raw /\ m2.total = m.total
    /\ \A y \in Node : y # x /\ ~IsIndex(y) => a2[y] = a[y]
    /\ \A y \in Node : ~IsIndex(y) /\ a[y] # 0 => m2.block[a[y]] = m.block[a[y]]
    /\ a[x] # 0 => a2[x] = a[x]
    /\ m2.at = NoSpace => \A y \in Node : ~IsIndex(y) => a2[y] = a[y]

Arrives(m, a, m2, a2, x) ==
    /\ Good(m2, a2)
    /\ m2.at = NoSpace \/ (m2.at = a2[x] /\ a2[x] # 0)
    /\ Keeps(m, a, m2, a2, x)

\* A new block, put where none was, is found there, and everything else where it was.
Filled(m, k, nb, x) ==
    [m EXCEPT !.free = @ \ {nb}, !.at = nb,
              !.block = IF IsIndex(x) THEN [m.block EXCEPT ![nb] = Zeros] ELSE m.block]

AttachRoot(m, f, k, nb, x) ==
    [Filled(m, k, nb, x) EXCEPT !.iblock[f][k] = nb, !.dirty[f] = TRUE]
AttachBelow(m, f, k, nb, x) ==
    [Filled(m, k, nb, x) EXCEPT !.block[m.at][k] = nb]

LEMMA DownIs ==
    ASSUME NEW m \in State, NEW f \in File, NEW k, NEW x, NEW m2, m2 = Down(m, f, k, x),
           m.at # NoSpace,
           NEW b, b = Ptr(m, f, m.at, k), NEW nb, nb = Lowest(m.free)
    PROVE  /\ b # 0 => m2 = [m EXCEPT !.at = b]
           /\ b = 0 /\ m.free = {} => m2 = [m EXCEPT !.at = NoSpace]
           /\ b = 0 /\ m.free # {} /\ m.at = Root => m2 = AttachRoot(m, f, k, nb, x)
           /\ b = 0 /\ m.free # {} /\ m.at # Root => m2 = AttachBelow(m, f, k, nb, x)
<1>1. CASE IsIndex(x)
  <2>1. m2 = Descend(m, f, k, TRUE)
    BY <1>1 DEF Down
  <2>2. b # 0 => m2 = [m EXCEPT !.at = b]
    BY <2>1 DEF Descend
  <2>3. b = 0 /\ m.free = {} => m2 = [m EXCEPT !.at = NoSpace]
    BY <2>1 DEF Descend
  <2>4. b = 0 /\ m.free # {} => m2 = Attach(m, f, k, nb, TRUE)
    BY <2>1 DEF Descend
  <2>5. m.at = Root => Attach(m, f, k, nb, TRUE) = AttachRoot(m, f, k, nb, x)
    BY <1>1 DEF Attach, AttachRoot, Filled, Cleared
  <2>6. m.at # Root => Attach(m, f, k, nb, TRUE) = AttachBelow(m, f, k, nb, x)
    BY <1>1 DEF Attach, AttachBelow, Filled, Cleared
  <2> QED
    BY <2>2, <2>3, <2>4, <2>5, <2>6
<1>2. CASE ~IsIndex(x)
  <2>1. m2 = Descend(m, f, k, FALSE)
    BY <1>2 DEF Down
  <2>2. b # 0 => m2 = [m EXCEPT !.at = b]
    BY <2>1 DEF Descend
  <2>3. b = 0 /\ m.free = {} => m2 = [m EXCEPT !.at = NoSpace]
    BY <2>1 DEF Descend
  <2>4. b = 0 /\ m.free # {} => m2 = Attach(m, f, k, nb, FALSE)
    BY <2>1 DEF Descend
  <2>5. m.at = Root => Attach(m, f, k, nb, FALSE) = AttachRoot(m, f, k, nb, x)
    BY <1>2 DEF Attach, AttachRoot, Filled, Cleared
  <2>6. m.at # Root => Attach(m, f, k, nb, FALSE) = AttachBelow(m, f, k, nb, x)
    BY <1>2 DEF Attach, AttachBelow, Filled, Cleared
  <2> QED
    BY <2>2, <2>3, <2>4, <2>5, <2>6
<1> QED
  BY <1>1, <1>2

\* The fields of a state.
LEMMA Fields ==
    ASSUME NEW m \in State
    PROVE  /\ m.free \subseteq Blk /\ m.block \in [Blk -> [Index -> Nat]]
           /\ m.iblock \in [File -> [0 .. TIND -> Blk \cup {0}]]
           /\ m.size \in [File -> 0 .. MaxLen] /\ m.dirty \in [File -> BOOLEAN]
           /\ m.raw \in [File -> Inode] /\ m.at \in Int /\ m.total \in Nat
BY DEF State

Fills(m, nb, x, m2) ==
    /\ m2 \in State /\ m2.free = m.free \ {nb} /\ m2.at = nb
    /\ m2.iblock = m.iblock /\ m2.size = m.size /\ m2.dirty = m.dirty
    /\ m2.raw = m.raw /\ m2.total = m.total
    /\ \A b \in Blk : b # nb => m2.block[b] = m.block[b]
    /\ IsIndex(x) => \A j \in Index : m2.block[nb][j] = 0
    /\ ~IsIndex(x) => m2.block = m.block

LEMMA FilledIs ==
    ASSUME NEW m, m \in State, NEW k, NEW nb, nb \in m.free, NEW x, NEW m2, m2 = Filled(m, k, nb, x)
    PROVE  Fills(m, nb, x, m2)
<1>1. PICK bl : bl = IF IsIndex(x) THEN [m.block EXCEPT ![nb] = Zeros] ELSE m.block
  OBVIOUS
<1>2. nb \in Blk /\ nb \in Int
  <2>1. nb \in Blk
    BY Fields
  <2>2. nb \in Nat
    BY <2>1, BlkIs
  <2> QED
    BY <2>1, <2>2
<1>3. bl \in [Blk -> [Index -> Nat]]
  BY <1>1, Fields, ZerosIs
<1>4. m2 = [m EXCEPT !.free = @ \ {nb}, !.at = nb, !.block = bl]
  BY <1>1 DEF Filled
<1>5. m2 \in State
  BY <1>2, <1>3, <1>4 DEF State
<1>6. \A b \in Blk : b # nb => bl[b] = m.block[b]
  BY <1>1, Fields
<1>7. IsIndex(x) => \A j \in Index : bl[nb][j] = 0
  BY <1>1, <1>2, Fields, ZerosIs
<1>8. /\ m2.free = m.free \ {nb} /\ m2.at = nb /\ m2.block = bl
      /\ m2.iblock = m.iblock /\ m2.size = m.size /\ m2.dirty = m.dirty
      /\ m2.raw = m.raw /\ m2.total = m.total
  BY <1>4 DEF State
<1> QED
  BY <1>1, <1>5, <1>6, <1>7, <1>8 DEF Fills

\* AttachRoot and AttachBelow, on top of a filled block.
SetsRoot(m1, f, k, nb, m2) ==
    /\ m2 \in State /\ m2.free = m1.free /\ m2.block = m1.block /\ m2.at = m1.at
    /\ m2.size = m1.size /\ m2.raw = m1.raw /\ m2.total = m1.total
    /\ m2.iblock[f][k] = nb /\ m2.dirty[f] = TRUE
    /\ \A g \in File : g # f => m2.iblock[g] = m1.iblock[g] /\ m2.dirty[g] = m1.dirty[g]
    /\ \A j \in 0 .. TIND : j # k => m2.iblock[f][j] = m1.iblock[f][j]

LEMMA AttachRootIs ==
    ASSUME NEW m, m \in State, NEW f \in File, NEW k \in 0 .. DIND, NEW nb, nb \in m.free, NEW x,
           NEW m1, m1 = Filled(m, k, nb, x), NEW m2, m2 = AttachRoot(m, f, k, nb, x)
    PROVE  SetsRoot(m1, f, k, nb, m2)
<1>1. m1 \in State
  BY FilledIs DEF Fills
<1>2. m2 = [m1 EXCEPT !.iblock[f][k] = nb, !.dirty[f] = TRUE]
  BY DEF AttachRoot
<1>3. k \in 0 .. TIND /\ nb \in Blk
  BY Sizes, Fields
<1>4. PICK ib : ib = [m1.iblock EXCEPT ![f][k] = nb]
  OBVIOUS
<1>5. m1.iblock \in [File -> [0 .. TIND -> Blk \cup {0}]]
  BY <1>1, Fields
<1>6. /\ ib \in [File -> [0 .. TIND -> Blk \cup {0}]] /\ ib[f][k] = nb
      /\ \A g \in File : g # f => ib[g] = m1.iblock[g]
      /\ \A j \in 0 .. TIND : j # k => ib[f][j] = m1.iblock[f][j]
  BY <1>3, <1>4, <1>5
<1>7. PICK di : di = [m1.dirty EXCEPT ![f] = TRUE]
  OBVIOUS
<1>8. m1.dirty \in [File -> BOOLEAN]
  BY <1>1, Fields
<1>9. /\ di \in [File -> BOOLEAN] /\ di[f] = TRUE
      /\ \A g \in File : g # f => di[g] = m1.dirty[g]
  BY <1>7, <1>8
<1>10. m2 = [m1 EXCEPT !.iblock = ib, !.dirty = di]
  BY <1>1, <1>2, <1>4, <1>7 DEF State
<1>11. m2 \in State
  BY <1>1, <1>6, <1>9, <1>10 DEF State
<1>12. /\ m2.free = m1.free /\ m2.block = m1.block /\ m2.at = m1.at /\ m2.iblock = ib
       /\ m2.size = m1.size /\ m2.raw = m1.raw /\ m2.total = m1.total /\ m2.dirty = di
  BY <1>1, <1>10 DEF State
<1> QED
  BY <1>6, <1>9, <1>11, <1>12 DEF SetsRoot

SetsBelow(m1, b, k, nb, m2) ==
    /\ m2 \in State /\ m2.free = m1.free /\ m2.at = m1.at /\ m2.iblock = m1.iblock
    /\ m2.size = m1.size /\ m2.raw = m1.raw /\ m2.total = m1.total /\ m2.dirty = m1.dirty
    /\ m2.block[b][k] = nb
    /\ \A c \in Blk : c # b => m2.block[c] = m1.block[c]
    /\ \A j \in Index : j # k => m2.block[b][j] = m1.block[b][j]

LEMMA AttachBelowIs ==
    ASSUME NEW m, m \in State, NEW f \in File, NEW k \in Index, NEW nb, nb \in m.free, NEW x,
           NEW b \in Blk, b = m.at, b # nb,
           NEW m1, m1 = Filled(m, k, nb, x), NEW m2, m2 = AttachBelow(m, f, k, nb, x)
    PROVE  SetsBelow(m1, b, k, nb, m2)
<1>1. m1 \in State
  BY FilledIs DEF Fills
<1>2. m2 = [m1 EXCEPT !.block[b][k] = nb]
  BY DEF AttachBelow
<1>3. nb \in Nat
  <2>1. nb \in Blk
    BY Fields
  <2> QED
    BY <2>1, BlkIs
<1>4. PICK bl : bl = [m1.block EXCEPT ![b][k] = nb]
  OBVIOUS
<1>5. m1.block \in [Blk -> [Index -> Nat]]
  BY <1>1, Fields
<1>6. /\ bl \in [Blk -> [Index -> Nat]] /\ bl[b][k] = nb
      /\ \A c \in Blk : c # b => bl[c] = m1.block[c]
      /\ \A j \in Index : j # k => bl[b][j] = m1.block[b][j]
  BY <1>3, <1>4, <1>5
<1>7. m2 = [m1 EXCEPT !.block = bl]
  BY <1>1, <1>2, <1>4 DEF State
<1>8. m2 \in State
  BY <1>1, <1>6, <1>7 DEF State
<1>9. /\ m2.free = m1.free /\ m2.block = bl /\ m2.at = m1.at /\ m2.iblock = m1.iblock
      /\ m2.size = m1.size /\ m2.raw = m1.raw /\ m2.total = m1.total /\ m2.dirty = m1.dirty
  BY <1>1, <1>7 DEF State
<1> QED
  BY <1>6, <1>8, <1>9 DEF SetsBelow

\* A new block at the empty place x.
LEMMA OwnedMore ==
    ASSUME NEW m, NEW a \in [Node -> Blk \cup {0}], Owned(m, a), m.free \subseteq Blk,
           NEW x \in Node, NEW nb \in m.free, a[x] = 0,
           NEW m2, m2.free = m.free \ {nb}, NEW a2, a2 = [a EXCEPT ![x] = nb]
    PROVE  Owned(m2, a2)
<1>1. a2[x] = nb /\ \A y \in Node : y # x => a2[y] = a[y]
  OBVIOUS
<1>2. ASSUME NEW y \in Node, NEW z \in Node, a2[y] = a2[z], a2[y] # 0
      PROVE  y = z
  <2>1. \A w \in Node : a[w] # nb
    BY DEF Owned
  <2>2. CASE y = x \/ z = x
    BY <1>1, <1>2, <2>1, <2>2
  <2>3. CASE y # x /\ z # x
    BY <1>1, <1>2, <2>3 DEF Owned
  <2> QED
    BY <2>2, <2>3
<1>3. \A y \in Node : a2[y] \notin m2.free
  BY <1>1 DEF Owned
<1>4. ASSUME NEW b \in Blk \ m2.free
      PROVE  \E y \in Node : a2[y] = b
  <2>1. CASE b = nb
    BY <1>1, <2>1
  <2>2. CASE b # nb
    <3>1. b \in Blk \ m.free /\ b # 0
      BY <2>2, BlkIs
    <3>2. PICK y \in Node : a[y] = b
      BY <3>1 DEF Owned
    <3> QED
      BY <1>1, <3>1, <3>2
  <2> QED
    BY <2>1, <2>2
<1> QED
  BY <1>2, <1>3, <1>4 DEF Owned

LEMMA ArriveRoot ==
    ASSUME NEW m, NEW a, Good(m, a), m.at = Root, NEW f \in File, NEW k \in 0 .. DIND,
           NEW x, x = <<f, k, No, No>>, NEW m2, m2 = Down(m, f, k, x)
    PROVE  \E a2 : Arrives(m, a, m2, a2, x)
<1>1. m \in State /\ Saved(m) /\ Describes(m, a) /\ Owned(m, a) /\ m.at # NoSpace
  BY BlkIs DEF Good
<1>2. x \in RootNode /\ x \in Node /\ x \notin Below
  <2>1. x \in RootNode
    BY DEF RootNode
  <2> QED
    BY <2>1, RootIs DEF Node
<1>3. PICK b, nb : b = Ptr(m, f, m.at, k) /\ nb = Lowest(m.free)
  OBVIOUS
<1>4. b = a[x] /\ a[x] \in Blk \cup {0} /\ a \in [Node -> Blk \cup {0}]
  BY <1>1, <1>2, <1>3 DEF Ptr, Describes
<1>5. /\ b # 0 => m2 = [m EXCEPT !.at = b]
      /\ b = 0 /\ m.free = {} => m2 = [m EXCEPT !.at = NoSpace]
      /\ b = 0 /\ m.free # {} => m2 = AttachRoot(m, f, k, nb, x)
  BY <1>1, <1>3, DownIs
<1>6. CASE b # 0
  <2>1. m2 = [m EXCEPT !.at = b] /\ b \in Int /\ b # NoSpace
    BY <1>4, <1>5, <1>6, BlkIs
  <2>2. m2 \in State /\ m2.at = b /\ m2.free = m.free /\ m2.block = m.block /\ m2.iblock = m.iblock
        /\ m2.size = m.size /\ m2.dirty = m.dirty /\ m2.raw = m.raw /\ m2.total = m.total
    BY <1>1, <2>1 DEF State
  <2>3. Good(m2, a)
    BY <1>1, <2>2 DEF Good, Saved, Describes, Owned
  <2>4. Keeps(m, a, m2, a, x)
    BY <2>1, <2>2 DEF Keeps
  <2> QED
    BY <1>4, <1>6, <2>2, <2>3, <2>4 DEF Arrives
<1>7. CASE b = 0 /\ m.free = {}
  <2>1. m2 = [m EXCEPT !.at = NoSpace] /\ NoSpace \in Int
    BY <1>5, <1>7 DEF NoSpace
  <2>2. m2 \in State /\ m2.at = NoSpace /\ m2.free = m.free /\ m2.block = m.block /\ m2.iblock = m.iblock
        /\ m2.size = m.size /\ m2.dirty = m.dirty /\ m2.raw = m.raw /\ m2.total = m.total
    BY <1>1, <2>1 DEF State
  <2>3. Good(m2, a)
    BY <1>1, <2>2 DEF Good, Saved, Describes, Owned
  <2>4. Keeps(m, a, m2, a, x)
    BY <2>2 DEF Keeps
  <2> QED
    BY <2>2, <2>3, <2>4 DEF Arrives
<1>8. CASE b = 0 /\ m.free # {}
  <2>1. m2 = AttachRoot(m, f, k, nb, x) /\ nb \in m.free /\ nb \in Blk /\ m.free \subseteq Blk
    <3>1. m.free \in SUBSET Nat
      BY <1>1, Fields, BlkIs
    <3> QED
      BY <1>1, <1>3, <1>5, <1>8, <3>1, LowestIn, Fields
  <2>2. PICK m1, a2 : m1 = Filled(m, k, nb, x) /\ a2 = [a EXCEPT ![x] = nb]
    OBVIOUS
  <2>3. Fills(m, nb, x, m1)
    BY <1>1, <2>1, <2>2, FilledIs
  <2>4. SetsRoot(m1, f, k, nb, m2)
    BY <1>1, <2>1, <2>2, AttachRootIs
  <2>5. a2 \in [Node -> Blk \cup {0}] /\ a2[x] = nb /\ \A y \in Node : y # x => a2[y] = a[y]
    BY <1>2, <1>4, <2>1, <2>2
  <2>6. Owned(m2, a2)
    <3>1. /\ a \in [Node -> Blk \cup {0}] /\ Owned(m, a) /\ m.free \subseteq Blk
          /\ x \in Node /\ nb \in m.free /\ a[x] = 0 /\ m2.free = m.free \ {nb}
          /\ a2 = [a EXCEPT ![x] = nb]
      BY <1>1, <1>2, <1>4, <1>8, <2>1, <2>2, <2>3, <2>4 DEF Fills, SetsRoot
    <3> QED
      BY ONLY <3>1, OwnedMore
  <2>7. \A y \in Node : a[y] # nb
    BY <1>1, <2>1 DEF Owned
  <2>8. \A g \in File, j \in 0 .. DIND : a2[<<g, j, No, No>>] = m2.iblock[g][j]
    <3>1. SUFFICES ASSUME NEW g \in File, NEW j \in 0 .. DIND
                   PROVE  a2[<<g, j, No, No>>] = m2.iblock[g][j]
      OBVIOUS
    <3>2. <<g, j, No, No>> \in Node /\ j \in 0 .. TIND
      BY Sizes DEF Node, RootNode
    <3>3. a[<<g, j, No, No>>] = m.iblock[g][j]
      BY <1>1 DEF Describes
    <3>4. CASE g = f /\ j = k
      BY <2>4, <2>5, <3>4 DEF SetsRoot
    <3>5. CASE g # f \/ j # k
      <4>1. <<g, j, No, No>> # x
        BY <3>5
      <4> QED
        BY <2>3, <2>4, <2>5, <3>2, <3>3, <3>5, <4>1 DEF Fills, SetsRoot
    <3> QED
      BY <3>4, <3>5
  <2>9. \A g \in File : m2.iblock[g][TIND] = 0
    <3>1. TIND \in 0 .. TIND /\ TIND # k
      BY Sizes
    <3>2. \A g \in File : m2.iblock[g][TIND] = m.iblock[g][TIND]
      BY <2>3, <2>4, <3>1 DEF Fills, SetsRoot
    <3> QED
      BY <1>1, <3>2 DEF Describes
  <2>10. \A y \in Below : a2[y] = IF a2[Up(y)] = 0 THEN 0 ELSE m2.block[a2[Up(y)]][LastOf(y)]
    <3>1. SUFFICES ASSUME NEW y \in Below
                   PROVE  a2[y] = IF a2[Up(y)] = 0 THEN 0 ELSE m2.block[a2[Up(y)]][LastOf(y)]
      OBVIOUS
    <3>2. y \in Node /\ y # x /\ Up(y) \in Node /\ IsIndex(Up(y)) /\ LastOf(y) \in Index
      BY <1>2, BelowIs DEF Node
    <3>3. a[y] = (IF a[Up(y)] = 0 THEN 0 ELSE m.block[a[Up(y)]][LastOf(y)]) /\ a2[y] = a[y]
      BY <1>1, <2>5, <3>2 DEF Describes
    <3>4. CASE Up(y) = x
      <4>1. a2[Up(y)] = nb /\ nb # 0 /\ a[y] = 0
        BY <1>4, <1>8, <2>1, <2>5, <3>3, <3>4, BlkIs
      <4>2. m2.block[nb][LastOf(y)] = 0
        BY <2>3, <2>4, <3>2, <3>4 DEF Fills, SetsRoot
      <4> QED
        BY <3>3, <4>1, <4>2
    <3>5. CASE Up(y) # x
      <4>1. a2[Up(y)] = a[Up(y)] /\ a[Up(y)] # nb /\ a[Up(y)] \in Blk \cup {0}
        BY <1>4, <2>5, <2>7, <3>2, <3>5
      <4> QED
        BY <2>3, <2>4, <3>3, <4>1 DEF Fills, SetsRoot
    <3> QED
      BY <3>4, <3>5
  <2>11. Saved(m2)
    BY <1>1, <2>3, <2>4 DEF Saved, Fills, SetsRoot
  <2>12. Good(m2, a2)
    BY <2>4, <2>5, <2>6, <2>8, <2>9, <2>10, <2>11 DEF Good, Describes, SetsRoot
  <2>13. m2.at = nb /\ nb # 0 /\ nb # NoSpace
    BY <2>1, <2>3, <2>4, BlkIs DEF Fills, SetsRoot
  <2>14. \A y \in Node : ~IsIndex(y) /\ a[y] # 0 => m2.block[a[y]] = m.block[a[y]]
    BY <1>4, <2>3, <2>4, <2>7 DEF Fills, SetsRoot
  <2>15. Keeps(m, a, m2, a2, x)
    BY <1>4, <1>8, <2>3, <2>4, <2>5, <2>13, <2>14 DEF Keeps, Fills, SetsRoot
  <2> QED
    BY <2>5, <2>12, <2>13, <2>15 DEF Arrives
<1> QED
  BY <1>6, <1>7, <1>8

LEMMA ArriveBelow ==
    ASSUME NEW m, NEW a, Good(m, a), NEW f \in File, NEW x \in Below, a[Up(x)] # 0,
           m.at = a[Up(x)], NEW k, k = LastOf(x), NEW m2, m2 = Down(m, f, k, x)
    PROVE  \E a2 : Arrives(m, a, m2, a2, x)
<1>1. m \in State /\ Saved(m) /\ Describes(m, a) /\ Owned(m, a)
  BY DEF Good
<1>2. x \in Node /\ Up(x) \in Node /\ IsIndex(Up(x)) /\ k \in Index /\ x # Up(x) /\ x \notin RootNode
  BY BelowIs, RootIs DEF Node
<1>3. PICK p, b, nb : p = m.at /\ b = Ptr(m, f, m.at, k) /\ nb = Lowest(m.free)
  OBVIOUS
<1>4. p \in Blk /\ p # 0 /\ p # Root /\ p # NoSpace /\ a \in [Node -> Blk \cup {0}]
  BY <1>1, <1>2, <1>3, BlkIs DEF Describes
<1>5. b = a[x] /\ a[x] \in Blk \cup {0} /\ b = m.block[p][k]
  BY <1>1, <1>2, <1>3, <1>4 DEF Ptr, Describes
<1>6. /\ b # 0 => m2 = [m EXCEPT !.at = b]
      /\ b = 0 /\ m.free = {} => m2 = [m EXCEPT !.at = NoSpace]
      /\ b = 0 /\ m.free # {} => m2 = AttachBelow(m, f, k, nb, x)
  BY <1>1, <1>3, <1>4, DownIs
<1>7. CASE b # 0
  <2>1. m2 = [m EXCEPT !.at = b] /\ b \in Int /\ b # NoSpace
    BY <1>5, <1>6, <1>7, BlkIs
  <2>2. m2 \in State /\ m2.at = b /\ m2.free = m.free /\ m2.block = m.block /\ m2.iblock = m.iblock
        /\ m2.size = m.size /\ m2.dirty = m.dirty /\ m2.raw = m.raw /\ m2.total = m.total
    BY <1>1, <2>1 DEF State
  <2>3. Good(m2, a)
    BY <1>1, <2>2 DEF Good, Saved, Describes, Owned
  <2>4. Keeps(m, a, m2, a, x)
    BY <2>1, <2>2 DEF Keeps
  <2> QED
    BY <1>5, <1>7, <2>2, <2>3, <2>4 DEF Arrives
<1>8. CASE b = 0 /\ m.free = {}
  <2>1. m2 = [m EXCEPT !.at = NoSpace] /\ NoSpace \in Int
    BY <1>6, <1>8 DEF NoSpace
  <2>2. m2 \in State /\ m2.at = NoSpace /\ m2.free = m.free /\ m2.block = m.block /\ m2.iblock = m.iblock
        /\ m2.size = m.size /\ m2.dirty = m.dirty /\ m2.raw = m.raw /\ m2.total = m.total
    BY <1>1, <2>1 DEF State
  <2>3. Good(m2, a)
    BY <1>1, <2>2 DEF Good, Saved, Describes, Owned
  <2>4. Keeps(m, a, m2, a, x)
    BY <2>2 DEF Keeps
  <2> QED
    BY <2>2, <2>3, <2>4 DEF Arrives
<1>9. CASE b = 0 /\ m.free # {}
  <2>1. m2 = AttachBelow(m, f, k, nb, x) /\ nb \in m.free /\ nb \in Blk /\ m.free \subseteq Blk
    <3>1. m.free \in SUBSET Nat
      BY <1>1, Fields, BlkIs
    <3> QED
      BY <1>1, <1>3, <1>6, <1>9, <3>1, LowestIn, Fields
  <2>2. PICK m1, a2 : m1 = Filled(m, k, nb, x) /\ a2 = [a EXCEPT ![x] = nb]
    OBVIOUS
  <2>3. Fills(m, nb, x, m1)
    BY <1>1, <2>1, <2>2, FilledIs
  <2>4. \A y \in Node : a[y] # nb
    BY <1>1, <2>1 DEF Owned
  <2>5. p # nb /\ p = a[Up(x)] /\ p = m.at
    BY <1>2, <1>3, <2>4
  <2>6. SetsBelow(m1, p, k, nb, m2)
    BY <1>1, <1>2, <1>4, <2>1, <2>2, <2>5, AttachBelowIs
  <2>7. a2 \in [Node -> Blk \cup {0}] /\ a2[x] = nb /\ \A y \in Node : y # x => a2[y] = a[y]
    BY <1>2, <1>4, <2>1, <2>2
  <2>8. Owned(m2, a2)
    <3>1. /\ a \in [Node -> Blk \cup {0}] /\ Owned(m, a) /\ m.free \subseteq Blk
          /\ x \in Node /\ nb \in m.free /\ a[x] = 0 /\ m2.free = m.free \ {nb}
          /\ a2 = [a EXCEPT ![x] = nb]
      BY <1>1, <1>2, <1>4, <1>5, <1>9, <2>1, <2>2, <2>3, <2>6 DEF Fills, SetsBelow
    <3> QED
      BY ONLY <3>1, OwnedMore
  <2>9. \A g \in File, j \in 0 .. DIND : a2[<<g, j, No, No>>] = m2.iblock[g][j]
    <3>1. ASSUME NEW g \in File, NEW j \in 0 .. DIND
          PROVE  <<g, j, No, No>> \in Node /\ <<g, j, No, No>> # x
      BY <1>2 DEF Node, RootNode
    <3>2. \A g \in File, j \in 0 .. DIND : a[<<g, j, No, No>>] = m2.iblock[g][j]
      BY <1>1, <2>3, <2>6 DEF Fills, SetsBelow, Describes
    <3> QED
      BY <2>7, <3>1, <3>2
  <2>10. \A g \in File : m2.iblock[g][TIND] = 0
    BY <1>1, <2>3, <2>6 DEF Fills, SetsBelow, Describes
  <2>11. \A y \in Below : a2[y] = IF a2[Up(y)] = 0 THEN 0 ELSE m2.block[a2[Up(y)]][LastOf(y)]
    <3>1. SUFFICES ASSUME NEW y \in Below
                   PROVE  a2[y] = IF a2[Up(y)] = 0 THEN 0 ELSE m2.block[a2[Up(y)]][LastOf(y)]
      OBVIOUS
    <3>2. y \in Node /\ Up(y) \in Node /\ IsIndex(Up(y)) /\ LastOf(y) \in Index /\ Up(y) # y
      BY BelowIs DEF Node
    <3>3. a[y] = (IF a[Up(y)] = 0 THEN 0 ELSE m.block[a[Up(y)]][LastOf(y)])
      BY <1>1 DEF Describes
    <3>4. CASE y = x
      <4>1. a2[y] = nb /\ a2[Up(y)] = p
        BY <1>2, <2>5, <2>7, <3>4
      <4>2. m2.block[p][LastOf(y)] = nb
        BY <2>6, <3>4 DEF SetsBelow
      <4> QED
        BY <1>4, <4>1, <4>2
    <3>5. CASE y # x /\ Up(y) = x
      <4>1. a2[Up(y)] = nb /\ nb # 0 /\ a[y] = 0 /\ a2[y] = 0
        BY <1>5, <1>9, <2>1, <2>7, <3>2, <3>3, <3>5, BlkIs
      <4>2. m2.block[nb][LastOf(y)] = 0
        BY <2>1, <2>3, <2>5, <2>6, <3>2, <3>5 DEF Fills, SetsBelow
      <4> QED
        BY <4>1, <4>2
    <3>6. CASE y # x /\ Up(y) # x
      <4>1. PICK c : c = a[Up(y)]
        OBVIOUS
      <4>2. a2[Up(y)] = c /\ a2[y] = a[y] /\ c # nb /\ c \in Blk \cup {0}
        BY <1>4, <2>4, <2>7, <3>2, <3>6, <4>1
      <4>3. CASE c = p
        <5>1. Up(y) = Up(x)
          BY <1>1, <1>2, <1>4, <2>5, <3>2, <4>1, <4>3 DEF Owned
        <5>2. LastOf(y) # k
          BY <3>6, <5>1, SameSlot
        <5>3. m2.block[p][LastOf(y)] = m1.block[p][LastOf(y)]
          BY <2>6, <3>2, <5>2 DEF SetsBelow
        <5>4. m1.block[p] = m.block[p]
          BY <1>4, <2>3, <2>5 DEF Fills
        <5> QED
          BY <3>3, <4>1, <4>2, <4>3, <5>3, <5>4
      <4>4. CASE c # p /\ c # 0
        <5>1. m2.block[c] = m.block[c]
          BY <2>3, <2>6, <4>2, <4>4 DEF Fills, SetsBelow
        <5> QED
          BY <3>3, <4>1, <4>2, <4>4, <5>1
      <4>5. CASE c = 0
        BY <3>3, <4>1, <4>2, <4>5
      <4> QED
        BY <4>3, <4>4, <4>5
    <3> QED
      BY <3>4, <3>5, <3>6
  <2>12. Saved(m2)
    BY <1>1, <2>3, <2>6 DEF Saved, Fills, SetsBelow
  <2>13. Good(m2, a2)
    BY <2>6, <2>7, <2>8, <2>9, <2>10, <2>11, <2>12 DEF Good, Describes, SetsBelow
  <2>14. m2.at = nb /\ nb # 0 /\ nb # NoSpace
    BY <2>1, <2>3, <2>6, BlkIs DEF Fills, SetsBelow
  <2>15. \A y \in Node : ~IsIndex(y) /\ a[y] # 0 => m2.block[a[y]] = m.block[a[y]]
    <3>1. SUFFICES ASSUME NEW y \in Node, ~IsIndex(y), a[y] # 0
                   PROVE  m2.block[a[y]] = m.block[a[y]]
      OBVIOUS
    <3>2. a[y] # nb /\ a[y] # p /\ a[y] \in Blk
      BY <1>1, <1>2, <1>4, <2>4, <2>5, <3>1 DEF Owned
    <3> QED
      BY <2>3, <2>6, <3>2 DEF Fills, SetsBelow
  <2>16. Keeps(m, a, m2, a2, x)
    BY <1>5, <1>9, <2>3, <2>6, <2>7, <2>14, <2>15 DEF Keeps, Fills, SetsBelow
  <2> QED
    BY <2>7, <2>13, <2>14, <2>16 DEF Arrives
<1> QED
  BY <1>7, <1>8, <1>9

-----------------------------------------------------------------------------
(***************************************************************************)
(* ext2_read_block and ext2_write_block.                                   *)
(***************************************************************************)
LookStep(m, f, path, i, b) == IF b = 0 THEN 0 ELSE Ptr(m, f, b, path[i])
Looking(g, m, f, path) ==
    g = [i \in 0 .. Len(path) |-> IF i = 0 THEN Root ELSE LookStep(m, f, path, i, g[i - 1])]
Looks(m, f, path) == CHOOSE g : Looking(g, m, f, path)

LEMMA LookupWalks ==
    ASSUME NEW m, NEW f, NEW l
    PROVE  Lookup(m, f, l) = Looks(m, f, Path(l))[Len(Path(l))]
BY DEF Lookup, Looks, Looking, LookStep

LEMMA LookupIs ==
    ASSUME NEW m, NEW a, Good(m, a), NEW f \in File, NEW l \in Lbk
    PROVE  Lookup(m, f, l) = a[Leaf(f, l)]
<1>1. PICK path, n : path = Path(l) /\ n = Len(path)
  OBVIOUS
<1>2. Leads(f, path, l)
  BY <1>1, PathLeads
<1>3. n \in 1 .. 3 /\ n \in Nat /\ Place(f, path, n) = Leaf(f, l)
  BY <1>1, <1>2 DEF Leads
<1>4. Describes(m, a)
  BY DEF Good
<1>5. LookStep(m, f, path, 1, Root) = a[Place(f, path, 1)]
  <2>1. Place(f, path, 1) = <<f, path[1], No, No>> /\ path[1] \in 0 .. DIND
    BY <1>2 DEF Leads, Place
  <2>2. LookStep(m, f, path, 1, Root) = m.iblock[f][path[1]]
    BY BlkIs DEF LookStep, Ptr
  <2> QED
    BY <1>4, <2>1, <2>2 DEF Describes
<1>6. ASSUME NEW i \in 2 .. n
      PROVE  LookStep(m, f, path, i, a[Place(f, path, i - 1)]) = a[Place(f, path, i)]
  <2>1. PICK x : x = Place(f, path, i)
    OBVIOUS
  <2>2. i \in 1 .. Len(path) /\ i > 1
    BY <1>1, <1>3
  <2>3. x \in Below /\ Up(x) = Place(f, path, i - 1) /\ LastOf(x) = path[i]
    BY <1>2, <2>1, <2>2 DEF Leads
  <2>4. Up(x) \in Node /\ a[Up(x)] # Root
    BY <1>4, <2>3, BelowIs, BlkIs DEF Describes
  <2>5. a[x] = IF a[Up(x)] = 0 THEN 0 ELSE m.block[a[Up(x)]][LastOf(x)]
    BY <1>4, <2>3 DEF Describes
  <2> QED
    BY <2>1, <2>3, <2>4, <2>5 DEF LookStep, Ptr
<1>7. \E g : Looking(g, m, f, path)
  <2>1. PICK g : g = [i \in 0 .. n |-> IF i = 0 THEN Root ELSE a[Place(f, path, i)]]
    OBVIOUS
  <2>2. ASSUME NEW i \in 0 .. n, i # 0
        PROVE  a[Place(f, path, i)] = LookStep(m, f, path, i, g[i - 1])
    <3>1. CASE i = 1
      <4>1. g[i - 1] = Root
        BY <1>3, <2>1, <3>1
      <4> QED
        BY <1>5, <3>1, <4>1
    <3>2. CASE i # 1
      <4>1. i \in 2 .. n /\ i - 1 \in 0 .. n /\ i - 1 # 0
        BY <1>3, <2>2, <3>2
      <4> QED
        BY <1>6, <2>1, <4>1
    <3> QED
      BY <3>1, <3>2
  <2>3. g = [i \in 0 .. n |-> IF i = 0 THEN Root ELSE LookStep(m, f, path, i, g[i - 1])]
    BY <2>1, <2>2
  <2> QED
    BY <1>1, <2>3 DEF Looking
<1>8. PICK g : g = Looks(m, f, path)
  OBVIOUS
<1>9. \A i \in 0 .. n : g[i] = IF i = 0 THEN Root ELSE LookStep(m, f, path, i, g[i - 1])
  <2>1. Looking(g, m, f, path)
    BY <1>7, <1>8 DEF Looks
  <2>2. g = [i \in 0 .. n |-> IF i = 0 THEN Root ELSE LookStep(m, f, path, i, g[i - 1])]
    BY <1>1, <2>1 DEF Looking
  <2> QED
    BY <2>2
<1> DEFINE S == {i \in 0 .. n : i # 0 => g[i] = a[Place(f, path, i)]}
<1>10. 0 \in S
  BY <1>3
<1>11. \A i \in 1 .. n : i - 1 \in S => i \in S
  <2>1. SUFFICES ASSUME NEW i \in 1 .. n, i - 1 \in S
                 PROVE  i \in S
    OBVIOUS
  <2>2. i \in 0 .. n /\ i - 1 \in 0 .. n
    BY <1>3
  <2>3. CASE i = 1
    <3>1. g[1] = LookStep(m, f, path, 1, g[0]) /\ g[0] = Root
      BY <1>9, <2>2, <2>3
    <3> QED
      BY <1>5, <2>2, <2>3, <3>1
  <2>4. CASE i # 1
    <3>1. i \in 2 .. n /\ i # 0 /\ i - 1 # 0
      BY <1>3, <2>4
    <3>2. g[i] = LookStep(m, f, path, i, g[i - 1]) /\ g[i - 1] = a[Place(f, path, i - 1)]
      BY <1>9, <2>1, <2>2, <3>1
    <3> QED
      BY <1>6, <2>2, <3>1, <3>2
  <2> QED
    BY <2>3, <2>4
<1>12. \A i \in 0 .. n : i \in S
  <2> HIDE DEF S
  <2> QED
    BY ONLY <1>3, <1>10, <1>11, Climb
<1>13. g[n] = a[Place(f, path, n)]
  BY <1>3, <1>12
<1> QED
  BY <1>1, <1>3, <1>8, <1>13, LookupWalks

LEMMA ReadIs ==
    ASSUME NEW m, NEW a, Good(m, a), NEW f \in File, NEW l \in Lbk
    PROVE  ext2_read_block(m, f, l) = DataAt(m, a, Leaf(f, l))
BY LookupIs DEF ext2_read_block, DataAt

WalkStep(f, path, i, w) == Descend(w, f, path[i], i < Len(path))
Walking(g, m, f, path) ==
    g = [i \in 0 .. Len(path) |->
            IF i = 0 THEN [m EXCEPT !.at = Root] ELSE WalkStep(f, path, i, g[i - 1])]
Walks(m, f, path) == CHOOSE g : Walking(g, m, f, path)

LEMMA WriteWalks ==
    ASSUME NEW m, NEW f, NEW l, NEW buf, NEW d, d = Walks(m, f, Path(l))[Len(Path(l))]
    PROVE  ext2_write_block(m, f, l, buf)
             = IF d.at = NoSpace THEN d ELSE [d EXCEPT !.block[d.at] = buf]
BY DEF ext2_write_block, Walks, Walking, WalkStep

LEMMA WalksIs ==
    ASSUME NEW m, NEW f, NEW path, Len(path) \in 1 .. 3, NEW g, g = Walks(m, f, path)
    PROVE  /\ g[0] = [m EXCEPT !.at = Root]
           /\ \A i \in 1 .. Len(path) : g[i] = WalkStep(f, path, i, g[i - 1])
<1>1. PICK n, w0 : n = Len(path) /\ n \in 1 .. 3 /\ w0 = [m EXCEPT !.at = Root]
  OBVIOUS
<1>2. PICK w1 : w1 = WalkStep(f, path, 1, w0)
  OBVIOUS
<1>3. PICK w2 : w2 = WalkStep(f, path, 2, w1)
  OBVIOUS
<1>4. PICK w3 : w3 = WalkStep(f, path, 3, w2)
  OBVIOUS
<1>5. PICK h : h = [i \in 0 .. n |-> IF i = 0 THEN w0 ELSE IF i = 1 THEN w1 ELSE IF i = 2 THEN w2 ELSE w3]
  OBVIOUS
<1>6. \A i \in 0 .. n : h[i] = IF i = 0 THEN w0 ELSE WalkStep(f, path, i, h[i - 1])
  <2>1. SUFFICES ASSUME NEW i \in 0 .. n
                 PROVE  h[i] = IF i = 0 THEN w0 ELSE WalkStep(f, path, i, h[i - 1])
    OBVIOUS
  <2>2. CASE i = 0
    BY <1>5, <2>2
  <2>3. CASE i = 1
    <3>1. h[1] = w1 /\ h[1 - 1] = w0
      BY <1>1, <1>5, <2>3
    <3> QED
      BY <1>2, <2>3, <3>1
  <2>4. CASE i = 2
    <3>1. h[2] = w2 /\ h[2 - 1] = w1
      BY <1>1, <1>5, <2>4
    <3> QED
      BY <1>3, <2>4, <3>1
  <2>5. CASE i = 3
    <3>1. h[3] = w3 /\ h[3 - 1] = w2
      BY <1>1, <1>5, <2>5
    <3> QED
      BY <1>4, <2>5, <3>1
  <2> QED
    BY <1>1, <2>2, <2>3, <2>4, <2>5
<1>7. h = [i \in 0 .. n |-> IF i = 0 THEN w0 ELSE WalkStep(f, path, i, h[i - 1])]
  BY <1>5, <1>6
<1>8. Walking(h, m, f, path)
  BY <1>1, <1>7 DEF Walking
<1>9. Walking(g, m, f, path)
  BY <1>8 DEF Walks
<1>10. g = [i \in 0 .. n |-> IF i = 0 THEN w0 ELSE WalkStep(f, path, i, g[i - 1])]
  BY <1>1, <1>9 DEF Walking
<1>11. \A i \in 0 .. n : g[i] = IF i = 0 THEN w0 ELSE WalkStep(f, path, i, g[i - 1])
  BY <1>10
<1> QED
  BY <1>1, <1>11

\* Where the walk along path is after i steps.
Comes(m, a, f, path, i, w, b) ==
    /\ Good(w, b)
    /\ \/ w.at = NoSpace
       \/ i = 0 /\ w.at = Root
       \/ i # 0 /\ w.at = b[Place(f, path, i)] /\ w.at # 0
    /\ Keeps(m, a, w, b, Place(f, path, Len(path)))
    /\ i < Len(path) => \A y \in Node : ~IsIndex(y) => b[y] = a[y]

LEMMA KeepsOn ==
    ASSUME NEW m, NEW a, NEW m1, NEW a1, NEW m2, NEW a2, NEW x \in Node, NEW y \in Node,
           ~IsIndex(x), Keeps(m, a, m1, a1, x), \A z \in Node : ~IsIndex(z) => a1[z] = a[z],
           Keeps(m1, a1, m2, a2, y), IsIndex(y) \/ y = x
    PROVE  /\ Keeps(m, a, m2, a2, x)
           /\ IsIndex(y) => \A z \in Node : ~IsIndex(z) => a2[z] = a[z]
<1>1. m2.size = m.size /\ m2.raw = m.raw /\ m2.total = m.total
  BY DEF Keeps
<1>2. \A z \in Node : z # y /\ ~IsIndex(z) => a2[z] = a[z]
  BY DEF Keeps
<1>3. \A z \in Node : ~IsIndex(z) /\ a[z] # 0 => m2.block[a[z]] = m.block[a[z]]
  BY DEF Keeps
<1>4. m2.at = NoSpace => \A z \in Node : ~IsIndex(z) => a2[z] = a[z]
  BY DEF Keeps
<1>5. IsIndex(y) => \A z \in Node : ~IsIndex(z) => a2[z] = a[z]
  BY <1>2
<1>6. a[x] # 0 => a2[x] = a[x]
  <2>1. CASE IsIndex(y)
    BY <1>5, <2>1
  <2>2. CASE y = x
    BY <2>2 DEF Keeps
  <2> QED
    BY <2>1, <2>2
<1>7. \A z \in Node : z # x /\ ~IsIndex(z) => a2[z] = a[z]
  BY <1>2, <1>5
<1> QED
  BY <1>1, <1>3, <1>4, <1>5, <1>6, <1>7 DEF Keeps

LEMMA WalkOn ==
    ASSUME NEW m, NEW a, NEW f \in File, NEW l, NEW path, Leads(f, path, l),
           NEW i \in 1 .. Len(path), NEW w, NEW b, Comes(m, a, f, path, i - 1, w, b),
           NEW w2, w2 = WalkStep(f, path, i, w)
    PROVE  \E b2 : Comes(m, a, f, path, i, w2, b2)
<1>1. PICK n, x, y : n = Len(path) /\ x = Place(f, path, n) /\ y = Place(f, path, i)
  OBVIOUS
<1>2. n \in 1 .. 3 /\ i \in 1 .. n /\ i \in Nat /\ i # 0
  BY <1>1 DEF Leads
<1>3. /\ x \in Node /\ ~IsIndex(x) /\ y \in Node /\ (IsIndex(y) <=> i < n)
      /\ i = n => y = x
      /\ i > 1 => y \in Below /\ Up(y) = Place(f, path, i - 1) /\ LastOf(y) = path[i]
      /\ i = 1 => y = <<f, path[1], No, No>> /\ path[1] \in 0 .. DIND
  <2>1. n \in 1 .. Len(path) /\ x = Leaf(f, l)
    BY <1>1, <1>2 DEF Leads
  <2>2. x \in Node /\ ~IsIndex(x) /\ y \in Node /\ (IsIndex(y) <=> i < n)
    BY <1>1, <1>2, <2>1 DEF Leads
  <2>3. i > 1 => y \in Below /\ Up(y) = Place(f, path, i - 1) /\ LastOf(y) = path[i]
    BY <1>1, <1>2 DEF Leads
  <2>4. i = 1 => y = <<f, path[1], No, No>>
    BY <1>1 DEF Place
  <2>5. path[1] \in 0 .. DIND
    BY DEF Leads
  <2> QED
    BY <1>1, <2>2, <2>3, <2>4, <2>5
<1>4. /\ Good(w, b) /\ Keeps(m, a, w, b, x)
      /\ \A z \in Node : ~IsIndex(z) => b[z] = a[z]
  BY <1>1, <1>2 DEF Comes
<1>5. CASE w.at = NoSpace
  <2>1. w2 = w
    BY <1>5 DEF WalkStep, Descend
  <2>2. Comes(m, a, f, path, i, w2, b)
    BY <1>1, <1>4, <1>5, <2>1 DEF Comes
  <2> QED
    BY <2>2
<1>6. CASE w.at # NoSpace
  <2>1. w2 = Down(w, f, path[i], y)
    <3>1. i < n <=> IsIndex(y)
      BY <1>3
    <3>2. PICK k, nb : k = path[i] /\ nb = Lowest(w.free)
      OBVIOUS
    <3>3. w2 = Descend(w, f, k, i < n)
      BY <1>1, <3>2 DEF WalkStep
    <3>4. Cleared(w, nb, i < n) = IF IsIndex(y) THEN Cleared(w, nb, TRUE) ELSE Cleared(w, nb, FALSE)
      BY <3>1 DEF Cleared
    <3>5. Attach(w, f, k, nb, i < n) = IF IsIndex(y) THEN Attach(w, f, k, nb, TRUE)
                                       ELSE Attach(w, f, k, nb, FALSE)
      BY <3>4 DEF Attach
    <3> QED
      BY <3>2, <3>3, <3>5 DEF Down, Descend
  <2>2. PICK b2 : Arrives(w, b, w2, b2, y)
    <3>1. CASE i = 1
      <4>1. w.at = Root
        BY <1>2, <1>6, <3>1 DEF Comes
      <4>2. path[1] \in 0 .. DIND /\ y = <<f, path[1], No, No>> /\ w2 = Down(w, f, path[1], y)
        BY <1>3, <2>1, <3>1
      <4> QED
        BY <1>4, <4>1, <4>2, ArriveRoot
    <3>2. CASE i # 1
      <4>1. i > 1 /\ i - 1 # 0
        BY <1>2, <3>2
      <4>2. y \in Below /\ Up(y) = Place(f, path, i - 1) /\ LastOf(y) = path[i]
        BY <1>3, <4>1
      <4>3. w.at = b[Up(y)] /\ b[Up(y)] # 0
        BY <1>6, <4>1, <4>2 DEF Comes
      <4> QED
        BY <1>4, <2>1, <4>2, <4>3, ArriveBelow
    <3> QED
      BY <3>1, <3>2
  <2>3. Keeps(w, b, w2, b2, y)
    BY <2>2 DEF Arrives
  <2>4. IsIndex(y) \/ y = x
    BY <1>2, <1>3
  <2>5. Keeps(m, a, w2, b2, x) /\ (IsIndex(y) => \A z \in Node : ~IsIndex(z) => b2[z] = a[z])
    BY <1>3, <1>4, <2>3, <2>4, KeepsOn
  <2>6. Comes(m, a, f, path, i, w2, b2)
    BY <1>1, <1>2, <1>3, <2>2, <2>5 DEF Comes, Arrives
  <2> QED
    BY <2>6
<1> QED
  BY <1>5, <1>6

\* buf is at x now, or nothing has changed for want of space.
Writes(m, a, w, b, x, buf) ==
    /\ Good(w, b) /\ w.size = m.size /\ w.raw = m.raw /\ w.total = m.total
    /\ \A y \in Node : y # x /\ ~IsIndex(y) => DataAt(w, b, y) = DataAt(m, a, y)
    /\ DataAt(w, b, x) = IF w.at = NoSpace THEN DataAt(m, a, x) ELSE buf

LEMMA WriteIs ==
    ASSUME NEW m, NEW a, Good(m, a), NEW f \in File, NEW l \in Lbk, NEW buf \in [Index -> Nat],
           NEW w, w = ext2_write_block(m, f, l, buf)
    PROVE  \E b : Writes(m, a, w, b, Leaf(f, l), buf)
<1>1. PICK path, n, g : path = Path(l) /\ n = Len(path) /\ g = Walks(m, f, path)
  OBVIOUS
<1>2. Leads(f, path, l)
  BY <1>1, PathLeads
<1>3. n \in 1 .. 3 /\ n \in Nat /\ Place(f, path, n) = Leaf(f, l)
  BY <1>1, <1>2 DEF Leads
<1>4. g[0] = [m EXCEPT !.at = Root] /\ \A i \in 1 .. n : g[i] = WalkStep(f, path, i, g[i - 1])
  <2>1. Len(path) \in 1 .. 3 /\ g = Walks(m, f, path)
    BY <1>1, <1>3
  <2>2. /\ g[0] = [m EXCEPT !.at = Root]
        /\ \A i \in 1 .. Len(path) : g[i] = WalkStep(f, path, i, g[i - 1])
    BY ONLY <2>1, WalksIs
  <2> QED
    BY <1>1, <2>2
<1>5. PICK x : x = Leaf(f, l) /\ x \in Node /\ ~IsIndex(x)
  BY LeafIs
<1>6. m \in State /\ Saved(m) /\ Describes(m, a) /\ Owned(m, a)
  BY DEF Good
<1> DEFINE S == {i \in 0 .. n : \E b : Comes(m, a, f, path, i, g[i], b)}
<1>7. 0 \in S
  <2>1. PICK w0 : w0 = [m EXCEPT !.at = Root]
    OBVIOUS
  <2>2. /\ w0 \in State /\ w0.at = Root /\ w0.free = m.free /\ w0.block = m.block
        /\ w0.iblock = m.iblock /\ w0.size = m.size /\ w0.dirty = m.dirty /\ w0.raw = m.raw
        /\ w0.total = m.total
    <3>1. Root \in Int
      BY DEF Root
    <3> QED
      BY <1>6, <2>1, <3>1 DEF State
  <2>3. Good(w0, a)
    BY <1>6, <2>2 DEF Good, Saved, Describes, Owned
  <2>4. Keeps(m, a, w0, a, x)
    BY <2>2 DEF Keeps
  <2>5. Comes(m, a, f, path, 0, w0, a)
    BY <1>1, <1>3, <1>5, <2>2, <2>3, <2>4 DEF Comes
  <2> QED
    BY <1>3, <1>4, <2>1, <2>5
<1>8. \A i \in 1 .. n : i - 1 \in S => i \in S
  <2>1. SUFFICES ASSUME NEW i \in 1 .. n, i - 1 \in S
                 PROVE  i \in S
    OBVIOUS
  <2>2. PICK b : Comes(m, a, f, path, i - 1, g[i - 1], b)
    BY <2>1
  <2>3. i \in 1 .. Len(path) /\ i \in 0 .. n
    BY <1>1, <1>3
  <2>4. PICK w1, w2 : w1 = g[i - 1] /\ w2 = g[i] /\ w2 = WalkStep(f, path, i, w1)
    BY <1>4
  <2>5. \E b2 : Comes(m, a, f, path, i, w2, b2)
    BY <1>2, <2>2, <2>3, <2>4, WalkOn
  <2> QED
    BY <2>3, <2>4, <2>5
<1>9. \A i \in 0 .. n : i \in S
  <2> HIDE DEF S
  <2> QED
    BY ONLY <1>3, <1>7, <1>8, Climb
<1>10. PICK d, b : d = g[n] /\ Comes(m, a, f, path, n, d, b)
  BY <1>3, <1>9
<1>11. w = IF d.at = NoSpace THEN d ELSE [d EXCEPT !.block[d.at] = buf]
  BY <1>1, <1>10, WriteWalks
<1>12. Good(d, b) /\ Keeps(m, a, d, b, x) /\ (d.at = NoSpace \/ (d.at = b[x] /\ d.at # 0))
  BY <1>1, <1>3, <1>5, <1>10 DEF Comes
<1>13. \A y \in Node : y # x /\ ~IsIndex(y) => DataAt(d, b, y) = DataAt(m, a, y)
  BY <1>12 DEF DataAt, Keeps
<1>14. CASE d.at = NoSpace
  <2>1. DataAt(d, b, x) = DataAt(m, a, x)
    BY <1>5, <1>12, <1>14 DEF DataAt, Keeps
  <2>2. Writes(m, a, w, b, x, buf)
    BY <1>11, <1>12, <1>13, <1>14, <2>1 DEF Writes, Keeps
  <2> QED
    BY <1>5, <2>2
<1>15. CASE d.at # NoSpace
  <2>1. PICK c : c = d.at /\ c = b[x] /\ c # 0
    BY <1>12, <1>15
  <2>2. d \in State /\ Saved(d) /\ Describes(d, b) /\ Owned(d, b)
    BY <1>12 DEF Good
  <2>3. c \in Blk /\ b \in [Node -> Blk \cup {0}]
    BY <1>5, <2>1, <2>2 DEF Describes
  <2>4. PICK bl : bl = [d.block EXCEPT ![c] = buf]
    OBVIOUS
  <2>5. bl \in [Blk -> [Index -> Nat]] /\ bl[c] = buf /\ \A e \in Blk : e # c => bl[e] = d.block[e]
    <3>1. d.block \in [Blk -> [Index -> Nat]]
      BY <2>2, Fields
    <3> QED
      BY <2>3, <2>4, <3>1
  <2>6. w = [d EXCEPT !.block = bl]
    BY <1>11, <1>15, <2>1, <2>2, <2>4 DEF State
  <2>7. /\ w \in State /\ w.at = d.at /\ w.free = d.free /\ w.block = bl /\ w.iblock = d.iblock
        /\ w.size = d.size /\ w.dirty = d.dirty /\ w.raw = d.raw /\ w.total = d.total
    BY <2>2, <2>5, <2>6 DEF State
  <2>8. \A y \in Node : y # x /\ b[y] # 0 => bl[b[y]] = d.block[b[y]]
    BY <1>5, <2>1, <2>2, <2>3, <2>5 DEF Owned
  <2>9. \A y \in Below : b[y] = IF b[Up(y)] = 0 THEN 0 ELSE bl[b[Up(y)]][LastOf(y)]
    <3>1. \A y \in Below : Up(y) \in Node /\ Up(y) # x
      BY <1>5, BelowIs
    <3> QED
      BY <2>2, <2>8, <3>1 DEF Describes
  <2>10. Good(w, b)
    BY <2>2, <2>7, <2>9 DEF Good, Saved, Describes, Owned
  <2>11. \A y \in Node : y # x /\ ~IsIndex(y) => DataAt(w, b, y) = DataAt(d, b, y)
    BY <2>7, <2>8 DEF DataAt
  <2>12. DataAt(w, b, x) = buf
    BY <2>1, <2>5, <2>7 DEF DataAt
  <2>13. Writes(m, a, w, b, x, buf)
    BY <1>12, <1>13, <1>15, <2>7, <2>10, <2>11, <2>12 DEF Writes, Keeps
  <2> QED
    BY <1>5, <2>13
<1> QED
  BY <1>14, <1>15

-----------------------------------------------------------------------------
(***************************************************************************)
(* ext2_file_write, block after block.                                     *)
(***************************************************************************)
Pos == 0 .. (MaxLen - 1)

\* Word q of file g.
WordAt(m, a, g, q) == DataAt(m, a, Leaf(g, q \div P))[q % P]

LEMMA PosIs ==
    ASSUME NEW q \in Pos
    PROVE  q \in Nat /\ q \div P \in Lbk /\ q % P \in Index /\ q \div P \in Nat
           /\ q = (q \div P) * P + (q % P)
<1>1. q \in Nat /\ q < MaxBlocks * P
  BY Sizes DEF Pos
<1>2. q \div P \in 0 .. (MaxBlocks - 1)
  BY <1>1, Sizes, QuotientBelow
<1>3. q \div P \in Nat /\ q % P \in 0 .. (P - 1) /\ (q \div P) * P + (q % P) = q
  BY <1>1, Sizes, Division
<1>4. q \div P \in Lbk
  BY <1>2 DEF Lbk
<1>5. q % P \in Index
  BY <1>3 DEF Index
<1>6. q \in Nat
  BY <1>1
<1>7. q = (q \div P) * P + (q % P)
  <2>1. PICK u, k : u = q \div P /\ k = q % P
    OBVIOUS
  <2>2. u \in Nat /\ k \in 0 .. (P - 1) /\ u * P + k = q
    BY <1>3, <2>1
  <2> QED
    BY <1>6, <2>1, <2>2, Sizes
<1> QED
  BY ONLY <1>3, <1>4, <1>5, <1>6, <1>7

\* Word q is in block l, in terms of the block's first word.
LEMMA InBlock ==
    ASSUME NEW l \in Nat, NEW q \in Pos, NEW base, base = l * P
    PROVE  q \div P = l <=> base <= q /\ q < base + P
<1>1. PICK u, k : u = q \div P /\ k = q % P
  OBVIOUS
<1>2. u \in Nat /\ k \in 0 .. (P - 1) /\ q = u * P + k /\ q \in Nat
  <2>1. u \in Nat /\ k \in Index /\ q \in Nat
    BY <1>1, PosIs
  <2>2. q = u * P + k
    BY <1>1, <2>1, PosIs, Sizes
  <2> QED
    BY <2>1, <2>2 DEF Index
<1>3. P \in Nat \ {0} /\ base \in Nat
  BY Sizes
<1>4. ASSUME u = l
      PROVE  base <= q /\ q < base + P
  BY <1>2, <1>3, <1>4
<1>5. ASSUME base <= q, q < base + P
      PROVE  u = l
  <2>1. q - base \in 0 .. (P - 1) /\ q = l * P + (q - base)
    BY <1>2, <1>3, <1>5
  <2> QED
    BY <1>1, <1>3, <2>1, Quotient
<1> QED
  BY <1>1, <1>4, <1>5

Inside(l, off, len) == {k \in Index : l * P + k >= off /\ l * P + k < off + len}

\* One block of the write: d is in its words of the range now, or nothing has changed.
Chunks(m, a, f, l, off, len, d, w, b) ==
    /\ Good(w, b) /\ w.size = m.size /\ w.raw = m.raw
    /\ IF w.at = NoSpace
       THEN /\ w.total = m.total
            /\ \A g \in File, q \in Pos : WordAt(w, b, g, q) = WordAt(m, a, g, q)
       ELSE /\ l \in Lbk /\ w.total = m.total + Cardinality(Inside(l, off, len))
            /\ \A g \in File, q \in Pos :
                  WordAt(w, b, g, q) = IF g = f /\ q \div P = l /\ off <= q /\ q < off + len
                                       THEN d ELSE WordAt(m, a, g, q)

LEMMA DataTyped ==
    ASSUME NEW m, NEW a, Good(m, a), NEW x \in Node
    PROVE  DataAt(m, a, x) \in [Index -> Nat]
<1>1. a[x] \in Blk \cup {0} /\ m.block \in [Blk -> [Index -> Nat]]
  BY Fields DEF Good, Describes
<1> QED
  BY <1>1, ZerosIs DEF DataAt

LEMMA ChunkIs ==
    ASSUME NEW m, NEW a, Good(m, a), NEW f \in File, NEW l \in Nat, NEW off \in Nat,
           NEW len \in Nat, NEW d \in Nat, m.at # NoSpace,
           NEW w, w = WriteChunk(m, f, l, off, len, d)
    PROVE  \E b : Chunks(m, a, f, l, off, len, d, w, b)
<1>1. m \in State /\ Saved(m) /\ Describes(m, a) /\ Owned(m, a)
  BY DEF Good
<1>2. CASE ~Mapped(l)
  <2>1. w = [m EXCEPT !.at = NoSpace] /\ NoSpace \in Int
    BY <1>2 DEF WriteChunk, NoSpace
  <2>2. w \in State /\ w.at = NoSpace /\ w.free = m.free /\ w.block = m.block /\ w.iblock = m.iblock
        /\ w.size = m.size /\ w.dirty = m.dirty /\ w.raw = m.raw /\ w.total = m.total
    BY <1>1, <2>1 DEF State
  <2>3. Good(w, a)
    BY <1>1, <2>2 DEF Good, Saved, Describes, Owned
  <2>4. Chunks(m, a, f, l, off, len, d, w, a)
    BY <2>2, <2>3 DEF Chunks, WordAt, DataAt
  <2> QED
    BY <2>4
<1>3. CASE Mapped(l)
  <2>1. l \in Lbk
    BY <1>3, Sizes DEF Mapped, Lbk
  <2>2. PICK x, old, ins : x = Leaf(f, l) /\ old = DataAt(m, a, x) /\ ins = Inside(l, off, len)
    OBVIOUS
  <2>3. x \in Node /\ ~IsIndex(x) /\ old \in [Index -> Nat]
    BY <2>1, <2>2, LeafIs, DataTyped
  <2>4. PICK buf : buf = [k \in Index |-> IF k \in ins THEN d ELSE old[k]]
    OBVIOUS
  <2>5. buf \in [Index -> Nat]
    BY <2>3, <2>4
  <2>6. PICK v : v = ext2_write_block(m, f, l, buf)
    OBVIOUS
  <2>7. w = IF v.at = NoSpace THEN v ELSE [v EXCEPT !.total = @ + Cardinality(ins)]
    <3>1. Old(m, f, l) = old
      BY <2>1, <2>2, ReadIs DEF Old
    <3> QED
      BY <1>3, <2>2, <2>4, <2>6, <3>1 DEF WriteChunk, Inside
  <2>8. PICK b : Writes(m, a, v, b, x, buf)
    BY <2>1, <2>2, <2>5, <2>6, WriteIs
  <2>9. Good(v, b) /\ v.size = m.size /\ v.raw = m.raw /\ v.total = m.total
    BY <2>8 DEF Writes
  <2>10. ASSUME NEW g \in File, NEW q \in Pos
         PROVE  WordAt(v, b, g, q) =
                   IF v.at # NoSpace /\ g = f /\ q \div P = l /\ off <= q /\ q < off + len
                   THEN d ELSE WordAt(m, a, g, q)
    <3>1. q \div P \in Lbk /\ q % P \in Index /\ q = (q \div P) * P + (q % P)
      BY PosIs
    <3>2. PICK y : y = Leaf(g, q \div P) /\ y \in Node /\ ~IsIndex(y)
      BY <3>1, LeafIs
    <3>3. y = x <=> g = f /\ q \div P = l
      BY <2>1, <2>2, <3>1, <3>2, LeafOnce
    <3>4. CASE y # x
      BY <2>8, <3>2, <3>3, <3>4 DEF Writes, WordAt
    <3>5. CASE y = x /\ v.at = NoSpace
      BY <2>8, <3>2, <3>5 DEF Writes, WordAt
    <3>6. CASE y = x /\ v.at # NoSpace
      <4>1. WordAt(v, b, g, q) = buf[q % P] /\ WordAt(m, a, g, q) = old[q % P]
        BY <2>2, <2>8, <3>2, <3>6 DEF Writes, WordAt
      <4>2. q % P \in ins <=> off <= q /\ q < off + len
        <5>1. q = l * P + (q % P)
          BY <3>1, <3>3, <3>6
        <5>2. PICK k : k = q % P /\ k \in Index /\ q = l * P + k
          <6>1. PICK k : k = q % P
            OBVIOUS
          <6>2. k \in Index /\ k \in Nat
            BY <3>1, <6>1 DEF Index
          <6>3. q = l * P + k
            BY <5>1, <6>1, <6>2, Sizes
          <6> QED
            BY ONLY <6>1, <6>2, <6>3
        <5>3. k \in ins <=> l * P + k >= off /\ l * P + k < off + len
          BY <2>2, <5>2 DEF Inside
        <5>4. k \in ins <=> q >= off /\ q < off + len
          BY <5>2, <5>3
        <5>5. q \in Nat
          BY PosIs
        <5> QED
          BY <5>2, <5>4, <5>5
      <4>3. buf[q % P] = IF q % P \in ins THEN d ELSE old[q % P]
        BY <2>4, <3>1
      <4> QED
        BY <3>3, <3>6, <4>1, <4>2, <4>3
    <3> QED
      BY <3>4, <3>5, <3>6
  <2>11. CASE v.at = NoSpace
    <3>1. w = v
      BY <2>7, <2>11
    <3>2. \A g \in File, q \in Pos : WordAt(w, b, g, q) = WordAt(m, a, g, q)
      BY <2>10, <2>11, <3>1
    <3>3. Chunks(m, a, f, l, off, len, d, w, b)
      BY <2>9, <2>11, <3>1, <3>2 DEF Chunks
    <3> QED
      BY <3>3
  <2>12. CASE v.at # NoSpace
    <3>1. PICK t : t = v.total + Cardinality(ins)
      OBVIOUS
    <3>2. v \in State /\ Saved(v) /\ Describes(v, b) /\ Owned(v, b)
      BY <2>9 DEF Good
    <3>3. t \in Nat
      <4>1. ins \subseteq Index /\ IsFiniteSet(Index)
        <5>1. 0 \in Int /\ P - 1 \in Int
          BY Sizes
        <5>2. IsFiniteSet(0 .. (P - 1))
          BY <5>1, FS_Interval
        <5> QED
          BY <2>2, <5>2 DEF Inside, Index
      <4>2. Cardinality(ins) \in Nat
        BY <4>1, FS_Subset, FS_CardinalityType
      <4>3. v.total \in Nat
        BY <3>2, Fields
      <4> QED
        BY <3>1, <4>2, <4>3
    <3>4. w = [v EXCEPT !.total = t]
      BY <2>7, <2>12, <3>1, <3>2 DEF State
    <3>5. w \in State /\ w.at = v.at /\ w.free = v.free /\ w.block = v.block /\ w.iblock = v.iblock
          /\ w.size = v.size /\ w.dirty = v.dirty /\ w.raw = v.raw /\ w.total = t
      BY <3>2, <3>3, <3>4 DEF State
    <3>6. Good(w, b)
      BY <3>2, <3>5 DEF Good, Saved, Describes, Owned
    <3>7. \A g \in File, q \in Pos : WordAt(w, b, g, q) = WordAt(v, b, g, q)
      BY <3>5 DEF WordAt, DataAt
    <3>8. w.total = m.total + Cardinality(Inside(l, off, len))
      BY <2>2, <2>9, <3>1, <3>5
    <3>9. \A g \in File, q \in Pos :
              WordAt(w, b, g, q) = IF g = f /\ q \div P = l /\ off <= q /\ q < off + len
                                   THEN d ELSE WordAt(m, a, g, q)
      BY <2>10, <2>12, <3>7
    <3>10. Chunks(m, a, f, l, off, len, d, w, b)
      BY <2>1, <2>9, <2>12, <3>5, <3>6, <3>8, <3>9 DEF Chunks
    <3> QED
      BY <3>10
  <2> QED
    BY <2>11, <2>12
<1> QED
  BY <1>2, <1>3

ChunkStep(f, first, off, len, d, i, w) == WriteChunk(w, f, first + i - 1, off, len, d)
Looping(g, f, first, off, len, d, n) ==
    g = [i \in 0 .. n |-> IF i = 0 THEN FS ELSE ChunkStep(f, first, off, len, d, i, g[i - 1])]
Loops(f, first, off, len, d, n) == CHOOSE g : Looping(g, f, first, off, len, d, n)

Blocks(off, len) == (off + len - 1) \div P - (off \div P) + 1
Written(f, off, len, d) == Loops(f, off \div P, off, len, d, Blocks(off, len))[Blocks(off, len)]

LEMMA FileWriteIs ==
    ASSUME NEW f, NEW off, NEW len, NEW d
    PROVE  FileWrite(f, off, len, d) <=>
             LET m == Written(f, off, len, d)
             IN  /\ Becomes(IF m.at = NoSpace THEN m ELSE Finish(m, f, off + len))
                 /\ last' = IF m.total > 0 THEN <<m.total>> ELSE <<-1>>
BY DEF FileWrite, Written, Loops, Looping, ChunkStep, Blocks

LEMMA LoopOn ==
    ASSUME NEW f, NEW first, NEW off, NEW len, NEW d, NEW i \in Nat \ {0}, NEW g,
           Looping(g, f, first, off, len, d, i - 1)
    PROVE  \E h : Looping(h, f, first, off, len, d, i)
<1>1. PICK h : h = [j \in 0 .. i |-> IF j = i THEN ChunkStep(f, first, off, len, d, i, g[i - 1]) ELSE g[j]]
  OBVIOUS
<1>2. g = [j \in 0 .. (i - 1) |-> IF j = 0 THEN FS ELSE ChunkStep(f, first, off, len, d, j, g[j - 1])]
  BY DEF Looping
<1>3. \A j \in 0 .. (i - 1) : g[j] = IF j = 0 THEN FS ELSE ChunkStep(f, first, off, len, d, j, g[j - 1])
  BY <1>2
<1>4. \A j \in 0 .. i : h[j] = IF j = 0 THEN FS ELSE ChunkStep(f, first, off, len, d, j, h[j - 1])
  <2>1. SUFFICES ASSUME NEW j \in 0 .. i
                 PROVE  h[j] = IF j = 0 THEN FS ELSE ChunkStep(f, first, off, len, d, j, h[j - 1])
    OBVIOUS
  <2>2. \A k \in 0 .. (i - 1) : k \in 0 .. i /\ k # i /\ h[k] = g[k]
    BY <1>1
  <2>3. CASE j = 0
    <3>1. 0 \in 0 .. (i - 1)
      OBVIOUS
    <3> QED
      BY <1>3, <2>2, <2>3, <3>1
  <2>4. CASE j = i
    <3>1. i - 1 \in 0 .. (i - 1) /\ i # 0
      OBVIOUS
    <3>2. h[i - 1] = g[i - 1] /\ h[i] = ChunkStep(f, first, off, len, d, i, g[i - 1])
      BY <1>1, <2>2, <3>1
    <3> QED
      BY <2>4, <3>1, <3>2
  <2>5. CASE j # 0 /\ j # i
    <3>1. j \in 0 .. (i - 1) /\ j - 1 \in 0 .. (i - 1)
      BY <2>5
    <3> QED
      BY <1>3, <2>2, <2>5, <3>1
  <2> QED
    BY <2>3, <2>4, <2>5
<1>5. h = [j \in 0 .. i |-> IF j = 0 THEN FS ELSE ChunkStep(f, first, off, len, d, j, h[j - 1])]
  BY <1>1, <1>4
<1> QED
  BY <1>5 DEF Looping

LEMMA LoopIs ==
    ASSUME NEW f, NEW first, NEW off, NEW len, NEW d, NEW n \in Nat,
           NEW g, g = Loops(f, first, off, len, d, n)
    PROVE  \A i \in 0 .. n : g[i] = IF i = 0 THEN FS ELSE ChunkStep(f, first, off, len, d, i, g[i - 1])
<1> DEFINE S == {i \in 0 .. n : \E h : Looping(h, f, first, off, len, d, i)}
<1>1. 0 \in S
  <2>1. PICK h : h = [j \in 0 .. 0 |-> FS]
    OBVIOUS
  <2>2. h = [j \in 0 .. 0 |-> IF j = 0 THEN FS ELSE ChunkStep(f, first, off, len, d, j, h[j - 1])]
    BY <2>1
  <2>3. Looping(h, f, first, off, len, d, 0)
    BY <2>2 DEF Looping
  <2> QED
    BY <2>3
<1>2. \A i \in 1 .. n : i - 1 \in S => i \in S
  <2>1. SUFFICES ASSUME NEW i \in 1 .. n, i - 1 \in S
                 PROVE  i \in S
    OBVIOUS
  <2>2. PICK h : Looping(h, f, first, off, len, d, i - 1)
    BY <2>1
  <2>3. i \in Nat \ {0} /\ i \in 0 .. n
    OBVIOUS
  <2>4. \E k : Looping(k, f, first, off, len, d, i)
    BY ONLY <2>2, <2>3, LoopOn
  <2> QED
    BY <2>3, <2>4
<1>3. \A i \in 0 .. n : i \in S
  <2>1. n \in Nat
    OBVIOUS
  <2> HIDE DEF S
  <2> QED
    BY ONLY <2>1, <1>1, <1>2, Climb
<1>4. \E h : Looping(h, f, first, off, len, d, n)
  BY <1>3
<1>5. Looping(g, f, first, off, len, d, n)
  BY <1>4 DEF Loops
<1>6. g = [i \in 0 .. n |-> IF i = 0 THEN FS ELSE ChunkStep(f, first, off, len, d, i, g[i - 1])]
  BY <1>5 DEF Looping
<1> QED
  BY <1>6

\* The end of the range after i blocks of it.
End(off, len, i) ==
    IF i = 0 THEN off
    ELSE IF (off \div P + i) * P < off + len THEN (off \div P + i) * P ELSE off + len

\* What i blocks of the write have done.
Stores(a, f, off, len, d, w, b) ==
    /\ Good(w, b) /\ w.size = FS.size /\ w.raw = FS.raw
    /\ w.total \in 0 .. len /\ (w.total = 0 \/ off + w.total <= MaxLen)
    /\ \A g \in File, q \in Pos :
          WordAt(w, b, g, q) = IF g = f /\ off <= q /\ q < off + w.total
                               THEN d ELSE WordAt(FS, a, g, q)

Progress(a, f, off, len, d, i, w, b) ==
    /\ Stores(a, f, off, len, d, w, b)
    /\ IF w.at = NoSpace THEN w.total < len ELSE off + w.total = End(off, len, i)

\* Block l = first + i - 1 takes the words from where the last one stopped to its own end.
LEMMA EndStep ==
    ASSUME NEW off \in Nat, NEW len \in Nat \ {0}, NEW i \in 1 .. Blocks(off, len),
           NEW l, l = off \div P + i - 1, NEW base, base = l * P,
           NEW s, s = End(off, len, i - 1), NEW e, e = End(off, len, i)
    PROVE  /\ l \in Nat /\ base \in Nat /\ s \in Nat /\ e \in Nat
           /\ base <= s /\ off <= s /\ s < e /\ s < off + len /\ e <= off + len /\ e <= base + P
           /\ s = base \/ s = off
           /\ e = base + P \/ e = off + len
<1>1. PICK u, k : u = off \div P /\ k = off % P
  OBVIOUS
<1>2. u \in Nat /\ k \in 0 .. (P - 1) /\ off = u * P + k
  BY <1>1, Sizes, Division
<1>3. PICK v, z : v = (off + len - 1) \div P /\ z = (off + len - 1) % P
  OBVIOUS
<1>4. v \in Nat /\ z \in 0 .. (P - 1) /\ off + len - 1 = v * P + z
  <2>1. off + len - 1 \in Nat
    OBVIOUS
  <2> QED
    BY <1>3, <2>1, Sizes, Division
<1>5. i \in Nat /\ i >= 1 /\ i <= v - u + 1 /\ l = u + i - 1
  BY <1>1, <1>2, <1>3, <1>4 DEF Blocks
<1>6. l \in Nat /\ u <= l /\ l <= v
  BY <1>2, <1>4, <1>5
<1>7. PICK x, y : x = u * P /\ y = v * P
  OBVIOUS
<1>8. x \in Nat /\ y \in Nat /\ base \in Nat /\ P \in Nat \ {0}
  BY <1>2, <1>4, <1>6, <1>7, Sizes
<1>9. x <= base /\ base <= y /\ (u < l => x + P <= base)
  <2>1. PICK n1 \in Nat, n2 \in Nat : l = u + n1 /\ v = l + n2
    <3>1. l - u \in Nat /\ v - l \in Nat /\ l = u + (l - u) /\ v = l + (v - l)
      BY <1>2, <1>4, <1>6
    <3> QED
      BY <3>1
  <2>2. base = x + n1 * P /\ n1 * P \in Nat
    BY <1>2, <1>7, <1>8, <2>1
  <2>3. y = base + n2 * P /\ n2 * P \in Nat
    BY <1>6, <1>7, <1>8, <2>1
  <2>4. ASSUME u < l
        PROVE  x + P <= base
    <3>1. PICK n3 \in Nat : n1 = n3 + 1
      <4>1. n1 - 1 \in Nat /\ n1 = (n1 - 1) + 1
        BY <1>2, <1>6, <2>1, <2>4
      <4> QED
        BY <4>1
    <3>2. n1 * P = n3 * P + P /\ n3 * P \in Nat
      BY <1>8, <3>1
    <3> QED
      BY <1>8, <2>2, <3>2
  <2> QED
    BY <1>8, <2>2, <2>3, <2>4
<1>10. off = x + k /\ off + len - 1 = y + z
  BY <1>2, <1>4, <1>7
<1>11. base < off + len /\ off < x + P
  BY <1>2, <1>4, <1>8, <1>9, <1>10
<1>12. s = IF i = 1 THEN off ELSE IF base < off + len THEN base ELSE off + len
  <2>1. i - 1 = 0 <=> i = 1
    BY <1>5
  <2>2. off \div P + (i - 1) = l
    BY <1>1, <1>2, <1>5
  <2> QED
    BY <2>1, <2>2 DEF End
<1>13. e = IF base + P < off + len THEN base + P ELSE off + len
  <2>1. off \div P + i = l + 1 /\ i # 0
    BY <1>1, <1>2, <1>5
  <2>2. (l + 1) * P = base + P
    BY <1>6, <1>8
  <2> QED
    BY <2>1, <2>2 DEF End
<1>14. i = 1 => base = x
  BY <1>5, <1>7, <1>2
<1>15. i # 1 => x + P <= base
  BY <1>2, <1>5, <1>9
<1> QED
  BY <1>2, <1>5, <1>6, <1>8, <1>9, <1>10, <1>11, <1>12, <1>13, <1>14, <1>15

LEMMA EndLast ==
    ASSUME NEW off \in Nat, NEW len \in Nat \ {0}, NEW n, n = Blocks(off, len)
    PROVE  n \in Nat \ {0} /\ End(off, len, n) = off + len
<1>1. PICK u, k : u = off \div P /\ k = off % P
  OBVIOUS
<1>2. u \in Nat /\ k \in 0 .. (P - 1) /\ off = u * P + k
  BY <1>1, Sizes, Division
<1>3. PICK v, z : v = (off + len - 1) \div P /\ z = (off + len - 1) % P
  OBVIOUS
<1>4. v \in Nat /\ z \in 0 .. (P - 1) /\ off + len - 1 = v * P + z
  <2>1. off + len - 1 \in Nat
    OBVIOUS
  <2> QED
    BY <1>3, <2>1, Sizes, Division
<1>5. n = v - u + 1
  BY <1>1, <1>3 DEF Blocks
<1>6. P \in Nat \ {0} /\ u * P \in Nat /\ v * P \in Nat
  BY <1>2, <1>4, Sizes
<1>7. u <= v
  <2>1. ASSUME v < u
        PROVE  FALSE
    <3>1. PICK e \in Nat : u = v + 1 + e
      <4>1. u - v - 1 \in Nat /\ u = v + 1 + (u - v - 1)
        BY <1>2, <1>4, <2>1
      <4> QED
        BY <4>1
    <3>2. u * P = v * P + P + e * P /\ e * P \in Nat
      BY <1>4, <1>6, <3>1
    <3> QED
      BY <1>2, <1>4, <1>6, <3>2
  <2> QED
    BY <1>2, <1>4, <2>1
<1>8. n \in Nat \ {0} /\ u + n = v + 1
  BY <1>2, <1>4, <1>5, <1>7
<1>9. (v + 1) * P = v * P + P
  BY <1>4, <1>6
<1>10. ~ ((off \div P + n) * P < off + len)
  <2>1. (off \div P + n) * P = v * P + P
    BY <1>1, <1>8, <1>9
  <2>2. off + len <= v * P + P
    BY <1>4, <1>6
  <2> QED
    BY <1>6, <2>1, <2>2
<1> QED
  BY <1>8, <1>10 DEF End

LEMMA InsideSize ==
    ASSUME NEW l \in Nat, NEW off \in Nat, NEW len \in Nat, NEW base, base = l * P,
           NEW s \in Nat, NEW e \in Nat, base <= s, off <= s, s <= e, e <= base + P, e <= off + len,
           s = base \/ s = off, e = base + P \/ e = off + len
    PROVE  Cardinality(Inside(l, off, len)) = e - s
<1>1. base \in Nat /\ P \in Nat \ {0}
  BY Sizes
<1>2. PICK x, y : x = s - base /\ y = e - 1 - base
  OBVIOUS
<1>3. x \in Int /\ y \in Int
  BY <1>1, <1>2
<1>4. Inside(l, off, len) = x .. y
  <2>1. \A k \in Index : l * P + k >= off /\ l * P + k < off + len <=> x <= k /\ k <= y
    <3>1. SUFFICES ASSUME NEW k \in Index
                   PROVE  base + k >= off /\ base + k < off + len <=> x <= k /\ k <= y
      OBVIOUS
    <3>2. k \in Nat /\ k < P
      BY <1>1, <3>1 DEF Index
    <3> QED
      BY <1>1, <1>2, <3>2
  <2>2. x .. y \subseteq Index
    BY <1>1, <1>2 DEF Index
  <2>3. \A k \in Index : k \in x .. y <=> x <= k /\ k <= y
    BY <1>1, <1>3 DEF Index
  <2>4. Inside(l, off, len) \subseteq Index
    BY DEF Inside
  <2>5. \A k \in Index : k \in Inside(l, off, len) <=> l * P + k >= off /\ l * P + k < off + len
    BY DEF Inside
  <2> QED
    BY ONLY <2>1, <2>2, <2>3, <2>4, <2>5
<1>5. Cardinality(x .. y) = IF x > y THEN 0 ELSE y - x + 1
  BY <1>3, FS_Interval
<1> QED
  BY <1>1, <1>2, <1>3, <1>4, <1>5

LEMMA StoresOn ==
    ASSUME NEW a, Good(FS, a), NEW f \in File, NEW off \in Nat, NEW len \in Nat \ {0}, NEW d \in Nat,
           NEW i \in 1 .. Blocks(off, len), NEW w, NEW b, Progress(a, f, off, len, d, i - 1, w, b),
           NEW w2, w2 = ChunkStep(f, off \div P, off, len, d, i, w)
    PROVE  \E b2 : Progress(a, f, off, len, d, i, w2, b2)
<1>1. PICK l, base, s, e : /\ l = off \div P + i - 1 /\ base = l * P
                           /\ s = End(off, len, i - 1) /\ e = End(off, len, i)
  OBVIOUS
<1>2. /\ l \in Nat /\ base \in Nat /\ s \in Nat /\ e \in Nat
      /\ base <= s /\ off <= s /\ s < e /\ s < off + len /\ e <= off + len /\ e <= base + P
      /\ s = base \/ s = off
      /\ e = base + P \/ e = off + len
  BY <1>1, EndStep
<1>3. /\ Good(w, b) /\ w.size = FS.size /\ w.raw = FS.raw /\ w.total \in 0 .. len
      /\ (w.total = 0 \/ off + w.total <= MaxLen)
      /\ \A g \in File, q \in Pos :
            WordAt(w, b, g, q) = IF g = f /\ off <= q /\ q < off + w.total
                                 THEN d ELSE WordAt(FS, a, g, q)
  BY DEF Progress, Stores
<1>4. w2 = WriteChunk(w, f, l, off, len, d)
  BY <1>1 DEF ChunkStep
<1>5. CASE w.at = NoSpace
  <2>1. w2 = w /\ w.total < len
    BY <1>4, <1>5 DEF WriteChunk, Progress
  <2>2. Progress(a, f, off, len, d, i, w2, b)
    BY <1>5, <2>1 DEF Progress
  <2> QED
    BY <2>2
<1>6. CASE w.at # NoSpace
  <2>1. off + w.total = s
    BY <1>1, <1>6 DEF Progress
  <2>2. PICK b2 : Chunks(w, b, f, l, off, len, d, w2, b2)
    <3>1. Good(w, b) /\ l \in Nat /\ len \in Nat
      BY <1>2, <1>3
    <3> QED
      BY <1>4, <1>6, <3>1, ChunkIs
  <2>3. Good(w2, b2) /\ w2.size = FS.size /\ w2.raw = FS.raw
    BY <1>3, <2>2 DEF Chunks
  <2>4. CASE w2.at = NoSpace
    <3>1. /\ w2.total = w.total
          /\ \A g \in File, q \in Pos : WordAt(w2, b2, g, q) = WordAt(w, b, g, q)
      BY <2>2, <2>4 DEF Chunks
    <3>2. w.total < len
      BY <1>2, <1>3, <2>1
    <3>3. Stores(a, f, off, len, d, w2, b2)
      BY <1>3, <2>3, <3>1 DEF Stores
    <3>4. Progress(a, f, off, len, d, i, w2, b2)
      BY <2>4, <3>1, <3>2, <3>3 DEF Progress
    <3> QED
      BY <3>4
  <2>5. CASE w2.at # NoSpace
    <3>1. /\ l \in Lbk /\ w2.total = w.total + Cardinality(Inside(l, off, len))
          /\ \A g \in File, q \in Pos :
                WordAt(w2, b2, g, q) = IF g = f /\ q \div P = l /\ off <= q /\ q < off + len
                                       THEN d ELSE WordAt(w, b, g, q)
      BY <2>2, <2>5 DEF Chunks
    <3>2. Cardinality(Inside(l, off, len)) = e - s
      <4>1. /\ l \in Nat /\ off \in Nat /\ len \in Nat /\ base = l * P /\ s \in Nat /\ e \in Nat
            /\ base <= s /\ off <= s /\ s <= e /\ e <= base + P /\ e <= off + len
            /\ s = base \/ s = off
            /\ e = base + P \/ e = off + len
        BY <1>1, <1>2
      <4> QED
        BY ONLY <4>1, InsideSize
    <3>3. w2.total = e - off /\ w2.total \in 0 .. len /\ off + w2.total = e
      BY <1>2, <1>3, <2>1, <3>1, <3>2
    <3>4. e <= MaxLen
      <4>1. l <= MaxBlocks - 1
        BY <3>1, Sizes DEF Lbk
      <4>2. PICK n \in Nat : MaxBlocks = l + 1 + n
        <5>1. MaxBlocks - l - 1 \in Nat /\ MaxBlocks = l + 1 + (MaxBlocks - l - 1)
          BY <1>2, <4>1, Sizes
        <5> QED
          BY <5>1
      <4>3. MaxBlocks * P = base + P + n * P /\ n * P \in Nat
        BY <1>1, <1>2, <4>2, Sizes
      <4> QED
        BY <1>2, <4>3, Sizes
    <3>5. ASSUME NEW g \in File, NEW q \in Pos
          PROVE  WordAt(w2, b2, g, q) = IF g = f /\ off <= q /\ q < off + w2.total
                                        THEN d ELSE WordAt(FS, a, g, q)
      <4>1. q \in Nat /\ (q \div P = l <=> base <= q /\ q < base + P)
        BY <1>1, <1>2, InBlock, PosIs
      <4>2. q \div P = l /\ off <= q /\ q < off + len <=> s <= q /\ q < e
        BY <1>2, <4>1, Sizes
      <4>3. off <= q /\ q < off + w2.total <=> (off <= q /\ q < off + w.total) \/ (s <= q /\ q < e)
        BY <1>2, <1>3, <2>1, <3>3, <4>1
      <4> QED
        BY <1>3, <3>1, <4>2, <4>3
    <3>6. Stores(a, f, off, len, d, w2, b2)
      BY <2>3, <3>3, <3>4, <3>5 DEF Stores
    <3>7. Progress(a, f, off, len, d, i, w2, b2)
      BY <1>1, <2>5, <3>3, <3>6 DEF Progress
    <3> QED
      BY <3>7
  <2> QED
    BY <2>4, <2>5
<1> QED
  BY <1>5, <1>6

LEMMA FSIs ==
    /\ FS.free = free /\ FS.block = block /\ FS.iblock = iblock /\ FS.size = size
    /\ FS.dirty = dirty /\ FS.raw = raw /\ FS.at = Root /\ FS.total = 0
BY DEF FS

LEMMA WrittenIs ==
    ASSUME NEW a, Good(FS, a), NEW f \in File, NEW off \in Nat, NEW len \in Nat \ {0}, NEW d \in Nat,
           NEW m, m = Written(f, off, len, d)
    PROVE  \E b : Stores(a, f, off, len, d, m, b) /\ (m.at = NoSpace <=> m.total < len)
<1>1. PICK n, g : n = Blocks(off, len) /\ g = Loops(f, off \div P, off, len, d, n) /\ m = g[n]
  BY DEF Written
<1>2. n \in Nat \ {0} /\ n \in Nat /\ End(off, len, n) = off + len
  BY <1>1, EndLast
<1>3. \A i \in 0 .. n : g[i] = IF i = 0 THEN FS ELSE ChunkStep(f, off \div P, off, len, d, i, g[i - 1])
  BY <1>1, <1>2, LoopIs
<1> DEFINE S == {i \in 0 .. n : \E b : Progress(a, f, off, len, d, i, g[i], b)}
<1>4. 0 \in S
  <2>1. PICK w : w = FS
    OBVIOUS
  <2>2. w.total = 0 /\ w.at # NoSpace
    BY <2>1, FSIs, BlkIs
  <2>3. Stores(a, f, off, len, d, w, a)
    <3>1. \A q \in Pos : q \in Nat
      BY PosIs
    <3> QED
      BY <2>1, <2>2, <3>1 DEF Stores
  <2>4. Progress(a, f, off, len, d, 0, w, a)
    BY <2>2, <2>3 DEF Progress, End
  <2>5. g[0] = w /\ 0 \in 0 .. n
    BY <1>2, <1>3, <2>1
  <2> QED
    BY <2>4, <2>5
<1>5. \A i \in 1 .. n : i - 1 \in S => i \in S
  <2>1. SUFFICES ASSUME NEW i \in 1 .. n, i - 1 \in S
                 PROVE  i \in S
    OBVIOUS
  <2>2. PICK b : Progress(a, f, off, len, d, i - 1, g[i - 1], b)
    BY <2>1
  <2>3. i \in 1 .. Blocks(off, len) /\ i \in 0 .. n /\ i # 0
    BY <1>1, <1>2
  <2>4. PICK w, w2 : w = g[i - 1] /\ w2 = g[i] /\ w2 = ChunkStep(f, off \div P, off, len, d, i, w)
    BY <1>3, <2>3
  <2>5. \E b2 : Progress(a, f, off, len, d, i, w2, b2)
    BY <2>2, <2>3, <2>4, StoresOn
  <2> QED
    BY <2>3, <2>4, <2>5
<1>6. \A i \in 0 .. n : i \in S
  <2> HIDE DEF S
  <2> QED
    BY ONLY <1>2, <1>4, <1>5, Climb
<1>7. PICK b : Progress(a, f, off, len, d, n, m, b)
  BY <1>1, <1>2, <1>6
<1>8. Stores(a, f, off, len, d, m, b) /\ IF m.at = NoSpace THEN m.total < len ELSE off + m.total = off + len
  BY <1>2, <1>7 DEF Progress
<1>9. m.total \in Nat
  BY <1>8, Fields DEF Stores, Good
<1> QED
  BY <1>8, <1>9

-----------------------------------------------------------------------------
(***************************************************************************)
(* The blocks of a file, as the code walks them.                           *)
(***************************************************************************)
LEMMA ChildrenIs ==
    ASSUME NEW a, Describes(FS, a), NEW Q \in SUBSET Node, \A p \in Q : IsIndex(p), NEW S,
           \A b : b \in S <=> \E p \in Q : a[p] = b /\ b # 0
    PROVE  \A b : b \in Children(S) <=> \E x \in Below : Up(x) \in Q /\ a[x] = b /\ b # 0
<1>1. ASSUME NEW b, b \in Children(S)
      PROVE  \E x \in Below : Up(x) \in Q /\ a[x] = b /\ b # 0
  <2>1. PICK c \in S, k \in Index : block[c][k] = b /\ b # 0
    BY <1>1 DEF Children
  <2>2. PICK p \in Q : a[p] = c /\ c # 0
    BY <2>1
  <2>3. PICK x \in Below : Up(x) = p /\ LastOf(x) = k
    BY <2>2, EverySlot
  <2>4. a[x] = block[c][k]
    BY <2>2, <2>3, FSIs DEF Describes
  <2> QED
    BY <2>1, <2>2, <2>3, <2>4
<1>2. ASSUME NEW b, NEW x \in Below, Up(x) \in Q, a[x] = b, b # 0
      PROVE  b \in Children(S)
  <2>1. a[x] = (IF a[Up(x)] = 0 THEN 0 ELSE block[a[Up(x)]][LastOf(x)]) /\ LastOf(x) \in Index
    BY FSIs, BelowIs DEF Describes
  <2>2. a[Up(x)] # 0 /\ block[a[Up(x)]][LastOf(x)] = b
    BY <1>2, <2>1
  <2>3. a[Up(x)] \in S
    BY <1>2, <2>2
  <2>4. PICK c, k : c = a[Up(x)] /\ k = LastOf(x) /\ c \in S /\ k \in Index
    BY <2>1, <2>3
  <2>5. block[c][k] = b
    BY <2>2, <2>4
  <2> QED
    BY <1>2, <2>4, <2>5 DEF Children
<1> QED
  BY <1>1, <1>2

LEMMA TopIs ==
    ASSUME NEW a, Describes(FS, a), NEW f \in File, NEW K \in SUBSET (0 .. DIND),
           NEW Q, Q = {<<f, k, No, No>> : k \in K}
    PROVE  /\ Q \subseteq RootNode /\ Q \subseteq Node
           /\ \A b : b \in Top(f, K) <=> \E p \in Q : a[p] = b /\ b # 0
<1>1. Q \subseteq RootNode
  BY DEF RootNode
<1>2. \A k \in K : a[<<f, k, No, No>>] = iblock[f][k]
  BY FSIs DEF Describes
<1>3. \A b : b \in Top(f, K) <=> \E k \in K : iblock[f][k] = b /\ b # 0
  BY DEF Top
<1> QED
  BY <1>1, <1>2, <1>3 DEF Node

\* The places of a file, level by level.
LEMMA Levels ==
    ASSUME NEW f \in File, NEW x \in Node, x[1] = f
    PROVE  \/ x \in {<<f, k, No, No>> : k \in 0 .. (NDIR - 1)}
           \/ x = <<f, IND, No, No>> \/ x = <<f, DIND, No, No>>
           \/ x \in Below /\ Up(x) = <<f, IND, No, No>>
           \/ x \in Below /\ Up(x) = <<f, DIND, No, No>>
           \/ x \in Below /\ Up(x) \in Below /\ Up(Up(x)) = <<f, DIND, No, No>>
<1>1. CASE x \in RootNode
  <2>1. x[2] \in 0 .. DIND /\ x = <<f, x[2], No, No>>
    BY <1>1, RootIs
  <2>2. x[2] \in 0 .. (NDIR - 1) \/ x[2] = IND \/ x[2] = DIND
    BY <2>1, Sizes
  <2> QED
    BY <2>1, <2>2
<1>2. CASE x \in Below /\ x[4] = No
  BY <1>2, BelowIs
<1>3. CASE x \in Below /\ x[4] # No
  <2>1. Up(x) = <<f, DIND, x[3], No>> /\ Up(x) \in MidNode
    BY <1>3, BelowIs
  <2>2. Up(x) \in Below /\ Up(x)[4] = No /\ Up(x)[1] = f /\ Up(x)[2] = DIND
    BY <2>1 DEF Below
  <2>3. Up(Up(x)) = <<f, DIND, No, No>>
    BY <2>2, BelowIs
  <2> QED
    BY <1>3, <2>2, <2>3
<1> QED
  BY <1>1, <1>2, <1>3 DEF Node

LEMMA DoubleIndex ==
    ASSUME NEW f \in File, NEW x \in Below, Up(x) = <<f, DIND, No, No>>
    PROVE  x[1] = f /\ IsIndex(x)
<1>1. x[4] = No
  <2>1. CASE x[4] # No
    <3>1. x \in LowNode /\ x[3] \in Index
      BY <2>1 DEF Below, MidNode, LowNode
    <3>2. Up(x)[3] = x[3]
      BY <2>1 DEF Up
    <3> QED
      BY <3>1, <3>2, Sizes DEF Index, No
  <2> QED
    BY <2>1
<1>2. Up(x) = <<x[1], x[2], No, No>>
  BY <1>1 DEF Up
<1>3. x[1] = f /\ x[2] = DIND
  BY <1>2
<1> QED
  BY <1>1, <1>3 DEF IsIndex

LEMMA TreeIs ==
    ASSUME NEW a, Describes(FS, a), NEW f \in File
    PROVE  \A b : b \in Tree(f) <=> \E x \in Node : x[1] = f /\ a[x] = b /\ b # 0
<1>1. PICK q0, q1, q2 : /\ q0 = {<<f, k, No, No>> : k \in 0 .. (NDIR - 1)}
                        /\ q1 = {<<f, k, No, No>> : k \in {IND}}
                        /\ q2 = {<<f, k, No, No>> : k \in {DIND}}
  OBVIOUS
<1>2. PICK r1, r2, r3 : /\ r1 = {x \in Below : Up(x) \in q1}
                        /\ r2 = {x \in Below : Up(x) \in q2}
                        /\ r3 = {x \in Below : Up(x) \in r2}
  OBVIOUS
<1>3. PICK s0, s1, s2, s3 : /\ s0 = Top(f, 0 .. (NDIR - 1)) /\ s1 = Top(f, {IND})
                            /\ s2 = Top(f, {DIND}) /\ s3 = Top(f, {TIND})
  OBVIOUS
<1>4. 0 .. (NDIR - 1) \subseteq 0 .. DIND /\ {IND} \subseteq 0 .. DIND /\ {DIND} \subseteq 0 .. DIND
  BY Sizes
<1>5. q0 \subseteq Node /\ \A b : b \in s0 <=> \E p \in q0 : a[p] = b /\ b # 0
  <2>1. PICK K : K = 0 .. (NDIR - 1)
    OBVIOUS
  <2>2. K \in SUBSET (0 .. DIND) /\ q0 = {<<f, k, No, No>> : k \in K} /\ s0 = Top(f, K)
    BY <1>1, <1>3, <1>4, <2>1
  <2> QED
    BY <2>2, TopIs
<1>6. q1 \subseteq Node /\ \A b : b \in s1 <=> \E p \in q1 : a[p] = b /\ b # 0
  BY <1>1, <1>3, <1>4, TopIs
<1>7. q2 \subseteq Node /\ \A b : b \in s2 <=> \E p \in q2 : a[p] = b /\ b # 0
  BY <1>1, <1>3, <1>4, TopIs
<1>8. \A p \in q1 \cup q2 : IsIndex(p) /\ p[1] = f
  BY <1>1 DEF IsIndex
<1>9. r1 \subseteq Node /\ r2 \subseteq Node /\ r3 \subseteq Node
  BY <1>2 DEF Node
<1>10. \A x \in r2 : x[1] = f /\ IsIndex(x)
  <2>1. SUFFICES ASSUME NEW x \in r2
                 PROVE  x[1] = f /\ IsIndex(x)
    OBVIOUS
  <2>2. x \in Below /\ Up(x) = <<f, DIND, No, No>>
    BY <1>1, <1>2
  <2> QED
    BY <2>2, DoubleIndex
<1>11. \A b : b \in Children(s1) <=> \E x \in r1 : a[x] = b /\ b # 0
  <2>1. \A b : b \in Children(s1) <=> \E x \in Below : Up(x) \in q1 /\ a[x] = b /\ b # 0
    BY <1>6, <1>8, ChildrenIs
  <2> QED
    BY <1>2, <2>1
<1>12. \A b : b \in Children(s2) <=> \E x \in r2 : a[x] = b /\ b # 0
  <2>1. \A b : b \in Children(s2) <=> \E x \in Below : Up(x) \in q2 /\ a[x] = b /\ b # 0
    BY <1>7, <1>8, ChildrenIs
  <2> QED
    BY <1>2, <2>1
<1>13. \A b : b \in Children(Children(s2)) <=> \E x \in r3 : a[x] = b /\ b # 0
  <2>1. \A b : b \in Children(Children(s2)) <=> \E x \in Below : Up(x) \in r2 /\ a[x] = b /\ b # 0
    BY <1>9, <1>10, <1>12, ChildrenIs
  <2> QED
    BY <1>2, <2>1
<1>14. s3 = {}
  BY <1>3, FSIs DEF Top, Describes
<1>15. \A b : b \in Tree(f) <=> \/ b \in s0 \/ b \in s1 \/ b \in Children(s1)
                                \/ b \in s2 \/ b \in Children(s2) \/ b \in Children(Children(s2))
  <2>1. Children({}) = {}
    BY DEF Children
  <2>2. Branch(s1, 1) = s1 \cup Children(s1)
    BY DEF Branch
  <2>3. Branch(s2, 2) = s2 \cup Children(s2) \cup Children(Children(s2))
    BY DEF Branch
  <2>4. Branch(s3, 3) = {}
    BY <1>14, <2>1 DEF Branch
  <2> QED
    BY <1>3, <2>2, <2>3, <2>4 DEF Tree
<1>16. \A x \in r1 \cup r3 : x[1] = f
  <2>1. \A x \in Below : x[1] = Up(x)[1]
    BY BelowIs
  <2> QED
    BY <1>2, <1>8, <1>10, <2>1
<1>17. ASSUME NEW x \in Node, x[1] = f
       PROVE  x \in q0 \cup q1 \cup q2 \cup r1 \cup r2 \cup r3
  <2>1. \/ x \in q0 \/ x \in q1 \/ x \in q2
        \/ x \in Below /\ Up(x) \in q1
        \/ x \in Below /\ Up(x) \in q2
        \/ x \in Below /\ Up(x) \in Below /\ Up(Up(x)) \in q2
    BY <1>1, <1>17, Levels
  <2> QED
    BY <1>2, <2>1
<1>18. \A x \in q0 : x[1] = f
  BY <1>1
<1> QED
  BY <1>5, <1>6, <1>7, <1>8, <1>9, <1>10, <1>11, <1>12, <1>13, <1>15, <1>16, <1>17, <1>18

\* The index blocks.
LEMMA IndexesAre ==
    ASSUME NEW a, Describes(FS, a)
    PROVE  \A b : b \in UNION {Indexes(f) : f \in File} <=>
                    \E p \in Node : IsIndex(p) /\ a[p] = b /\ b # 0
<1>1. ASSUME NEW f \in File, NEW b
      PROVE  b \in Indexes(f) <=> \E p \in Node : IsIndex(p) /\ p[1] = f /\ a[p] = b /\ b # 0
  <2>1. PICK q, q2, r : /\ q = {<<f, k, No, No>> : k \in {IND, DIND}}
                        /\ q2 = {<<f, k, No, No>> : k \in {DIND}}
                        /\ r = {x \in Below : Up(x) \in q2}
    OBVIOUS
  <2>2. {IND, DIND} \subseteq 0 .. DIND /\ {DIND} \subseteq 0 .. DIND
    BY Sizes
  <2>3. q \subseteq RootNode /\ q \subseteq Node
        /\ (b \in Top(f, {IND, DIND}) <=> \E p \in q : a[p] = b /\ b # 0)
    BY <2>1, <2>2, TopIs
  <2>4. q2 \subseteq Node /\ \A c : c \in Top(f, {DIND}) <=> \E p \in q2 : a[p] = c /\ c # 0
    BY <2>1, <2>2, TopIs
  <2>5. \A p \in q2 : IsIndex(p)
    BY <2>1 DEF IsIndex
  <2>6. \A c : c \in Children(Top(f, {DIND})) <=> \E x \in Below : Up(x) \in q2 /\ a[x] = c /\ c # 0
    BY <2>4, <2>5, ChildrenIs
  <2>7. b \in Indexes(f) <=> (\E p \in q : a[p] = b /\ b # 0) \/ (\E x \in r : a[x] = b /\ b # 0)
    BY <2>1, <2>3, <2>6 DEF Indexes
  <2>8. \A p \in q : p \in Node /\ IsIndex(p) /\ p[1] = f
    BY <2>1, <2>3 DEF IsIndex
  <2>9. \A x \in r : x \in Node /\ IsIndex(x) /\ x[1] = f
    <3>1. SUFFICES ASSUME NEW x \in r
                   PROVE  x \in Node /\ IsIndex(x) /\ x[1] = f
      OBVIOUS
    <3>2. x \in Below /\ Up(x) = <<f, DIND, No, No>>
      BY <2>1
    <3> QED
      BY <3>2, DoubleIndex DEF Node
  <2>10. ASSUME NEW p \in Node, IsIndex(p), p[1] = f
         PROVE  p \in q \/ p \in r
    <3>1. CASE p \in RootNode
      <4>1. p = <<f, p[2], No, No>> /\ p[2] \in {IND, DIND}
        BY <2>10, <3>1, RootIs
      <4> QED
        BY <2>1, <4>1
    <3>2. CASE p \in Below
      <4>1. p[4] = No
        BY <2>10 DEF IsIndex
      <4>2. p[3] \in Index /\ p[3] # No
        BY <3>2, Sizes DEF Below, MidNode, LowNode, Index, No
      <4>3. p[2] = DIND
        BY <2>10, <4>2 DEF IsIndex
      <4>4. Up(p) = <<f, DIND, No, No>>
        BY <2>10, <4>1, <4>3 DEF Up
      <4> QED
        BY <2>1, <3>2, <4>4
    <3> QED
      BY <3>1, <3>2 DEF Node
  <2> QED
    BY <2>7, <2>8, <2>9, <2>10
<1>2. \A p \in Node : p[1] \in File
  BY RootIs, BelowIs DEF Node
<1> QED
  BY <1>1, <1>2

\* A block is free and named nowhere, or named in one slot.
LEMMA GoodOwners ==
    ASSUME NEW a, Good(FS, a)
    PROVE  OneOwner
<1>1. FS \in State /\ Describes(FS, a) /\ Owned(FS, a) /\ a \in [Node -> Blk \cup {0}]
  BY DEF Good, Describes
<1>2. PICK X : X = UNION {Indexes(f) : f \in File}
  OBVIOUS
<1>3. \A b : b \in X <=> \E p \in Node : IsIndex(p) /\ a[p] = b /\ b # 0
  BY <1>1, <1>2, IndexesAre
<1>4. ASSUME NEW b \in Blk, NEW A, A = {s \in File \X (0 .. TIND) : iblock[s[1]][s[2]] = b},
             NEW B, B = {s \in X \X Index : block[s[1]][s[2]] = b}
      PROVE  Cardinality(A) + Cardinality(B) = (IF b \in free THEN 0 ELSE 1)
  <2>1. b # 0
    BY BlkIs
  <2>2. ASSUME NEW s \in A
        PROVE  \E x \in RootNode : a[x] = b /\ s = <<x[1], x[2]>>
    <3>1. s[1] \in File /\ s[2] \in 0 .. TIND /\ iblock[s[1]][s[2]] = b /\ s = <<s[1], s[2]>>
      BY <1>4
    <3>2. s[2] # TIND
      BY <1>1, <2>1, <3>1, FSIs DEF Describes
    <3>3. s[2] \in 0 .. DIND
      BY <3>1, <3>2, Sizes
    <3>4. <<s[1], s[2], No, No>> \in RootNode /\ a[<<s[1], s[2], No, No>>] = b
      BY <1>1, <3>1, <3>3, FSIs DEF RootNode, Describes
    <3> QED
      BY <3>1, <3>4
  <2>3. ASSUME NEW s \in B
        PROVE  \E x \in Below : a[x] = b /\ s = <<a[Up(x)], LastOf(x)>>
    <3>1. s[1] \in X /\ s[2] \in Index /\ block[s[1]][s[2]] = b /\ s = <<s[1], s[2]>>
      BY <1>4
    <3>2. PICK p \in Node : IsIndex(p) /\ a[p] = s[1] /\ s[1] # 0
      BY <1>3, <3>1
    <3>3. PICK x \in Below : Up(x) = p /\ LastOf(x) = s[2]
      BY <3>1, <3>2, EverySlot
    <3>4. a[x] = block[s[1]][s[2]]
      BY <1>1, <3>2, <3>3, FSIs DEF Describes
    <3> QED
      BY <3>1, <3>2, <3>3, <3>4
  <2>4. \A x \in Node : a[x] = b => b \notin free
    BY <1>1, FSIs DEF Owned
  <2>5. RootNode \subseteq Node /\ Below \subseteq Node
    BY DEF Node
  <2>6. CASE b \in free
    <3>1. A = {} /\ B = {}
      BY <2>2, <2>3, <2>4, <2>5, <2>6
    <3> QED
      BY <2>6, <3>1, FS_EmptySet
  <2>7. CASE b \notin free
    <3>1. PICK x \in Node : a[x] = b
      BY <1>1, <2>7, FSIs DEF Owned
    <3>2. \A y \in Node : a[y] = b => y = x
      BY <1>1, <2>1, <3>1 DEF Owned
    <3>3. CASE x \in RootNode
      <4>1. x[1] \in File /\ x[2] \in 0 .. DIND /\ x = <<x[1], x[2], No, No>> /\ x \notin Below
        BY <3>3, RootIs
      <4>2. B = {}
        BY <2>3, <2>5, <3>2, <4>1
      <4>3. <<x[1], x[2]>> \in A
        <5>1. iblock[x[1]][x[2]] = b
          BY <1>1, <3>1, <4>1, FSIs DEF Describes
        <5>2. x[2] \in 0 .. TIND
          BY <4>1, Sizes
        <5> QED
          BY <1>4, <4>1, <5>1, <5>2
      <4>4. A = {<<x[1], x[2]>>}
        BY <2>2, <2>5, <3>2, <4>3
      <4>5. Cardinality(A) = 1 /\ Cardinality(B) = 0
        BY <4>2, <4>4, FS_Singleton, FS_EmptySet
      <4> QED
        BY <2>7, <4>5
    <3>4. CASE x \in Below
      <4>1. Up(x) \in Node /\ IsIndex(Up(x)) /\ LastOf(x) \in Index /\ x \notin RootNode
        BY <3>4, BelowIs, RootIs
      <4>2. A = {}
        BY <2>2, <2>5, <3>2, <4>1
      <4>3. a[Up(x)] # 0 /\ block[a[Up(x)]][LastOf(x)] = b
        BY <1>1, <2>1, <3>1, <3>4, FSIs DEF Describes
      <4>4. a[Up(x)] \in X
        BY <1>3, <4>1, <4>3
      <4>5. <<a[Up(x)], LastOf(x)>> \in B
        BY <1>4, <4>1, <4>3, <4>4
      <4>6. B = {<<a[Up(x)], LastOf(x)>>}
        BY <2>3, <2>5, <3>2, <4>5
      <4>7. Cardinality(B) = 1 /\ Cardinality(A) = 0
        BY <4>2, <4>6, FS_Singleton, FS_EmptySet
      <4> QED
        BY <2>7, <4>7
    <3> QED
      BY <3>3, <3>4 DEF Node
  <2> QED
    BY <2>6, <2>7
<1>5. \A f \in File : Tree(f) \subseteq Blk
  <2>1. SUFFICES ASSUME NEW f \in File, NEW b \in Tree(f)
                 PROVE  b \in Blk
    OBVIOUS
  <2>2. \E x \in Node : x[1] = f /\ a[x] = b /\ b # 0
    BY <1>1, TreeIs
  <2> QED
    BY <1>1, <2>2
<1> QED
  BY <1>2, <1>4, <1>5 DEF OneOwner

LEMMA GoodTyped ==
    ASSUME NEW a, Good(FS, a)
    PROVE  TypeOK
<1>1. FS \in State
  BY DEF Good
<1> QED
  BY <1>1, FSIs DEF State, Inode, TypeOK

-----------------------------------------------------------------------------
(***************************************************************************)
(* The steps.                                                              *)
(***************************************************************************)
LEMMA InitGood ==
    ASSUME Init
    PROVE  \E a : Good(FS, a) /\ \A g \in File, q \in Pos : WordAt(FS, a, g, q) = 0
<1>1. PICK a : a = [x \in Node |-> 0]
  OBVIOUS
<1>2. NoBlocks \in [0 .. TIND -> Blk \cup {0}] /\ \A k \in 0 .. TIND : NoBlocks[k] = 0
  BY DEF NoBlocks
<1>3. 0 \in 0 .. MaxLen /\ Stale \in Nat /\ Root \in Int
  BY Sizes, DataAssumption DEF Root
<1>4. FS \in State
  <2>1. free \in SUBSET Blk /\ block \in [Blk -> [Index -> Nat]]
    BY <1>3 DEF Init
  <2>2. iblock \in [File -> [0 .. TIND -> Blk \cup {0}]] /\ size \in [File -> 0 .. MaxLen]
        /\ dirty \in [File -> BOOLEAN]
    BY <1>2, <1>3 DEF Init
  <2>3. raw \in [File -> Inode]
    BY <1>2, <1>3 DEF Init, Inode
  <2> QED
    BY <1>3, <2>1, <2>2, <2>3 DEF FS, State
<1>5. Saved(FS)
  BY FSIs DEF Init, Saved
<1>6. Describes(FS, a)
  <2>1. \A f \in File, k \in 0 .. DIND : a[<<f, k, No, No>>] = iblock[f][k]
    <3>1. \A f \in File, k \in 0 .. DIND : <<f, k, No, No>> \in Node /\ k \in 0 .. TIND
      BY Sizes DEF Node, RootNode
    <3> QED
      BY <1>1, <1>2, <3>1 DEF Init
  <2>2. \A f \in File : iblock[f][TIND] = 0
    <3>1. TIND \in 0 .. TIND
      BY Sizes
    <3> QED
      BY <1>2, <3>1 DEF Init
  <2>3. \A x \in Below : a[x] = 0 /\ a[Up(x)] = 0
    BY <1>1, BelowIs DEF Node
  <2>4. a \in [Node -> Blk \cup {0}]
    BY <1>1
  <2> QED
    BY <2>1, <2>2, <2>3, <2>4, FSIs DEF Describes
<1>7. Owned(FS, a)
  BY <1>1, FSIs, BlkIs DEF Init, Owned
<1>8. ASSUME NEW g \in File, NEW q \in Pos
      PROVE  WordAt(FS, a, g, q) = 0
  <2>1. q \div P \in Lbk /\ q % P \in Index
    BY PosIs
  <2>2. Leaf(g, q \div P) \in Node
    BY <2>1, LeafIs
  <2> QED
    BY <1>1, <2>1, <2>2, ZerosIs DEF WordAt, DataAt
<1> QED
  BY <1>4, <1>5, <1>6, <1>7, <1>8 DEF Good

\* The next state is m, but for what belongs to the call.
LEMMA NowIs ==
    ASSUME NEW m, NEW b, Good(m, b), Becomes(m)
    PROVE  /\ Good(FS', b) /\ size' = m.size
           /\ \A g \in File, q \in Pos : WordAt(FS', b, g, q) = WordAt(m, b, g, q)
<1>1. PICK n : n = FS'
  OBVIOUS
<1>2. /\ n.free = m.free /\ n.block = m.block /\ n.iblock = m.iblock /\ n.size = m.size
      /\ n.dirty = m.dirty /\ n.raw = m.raw
      /\ n = [free |-> m.free, block |-> m.block, iblock |-> m.iblock, size |-> m.size,
              dirty |-> m.dirty, raw |-> m.raw, at |-> Root, total |-> 0]
  BY <1>1 DEF Becomes, FS
<1>3. m \in State /\ Saved(m) /\ Describes(m, b) /\ Owned(m, b)
  BY DEF Good
<1>4. Root \in Int
  BY DEF Root
<1>5. n \in State
  BY <1>2, <1>3, <1>4, Fields DEF State
<1>6. Good(n, b)
  BY <1>2, <1>3, <1>5 DEF Good, Saved, Describes, Owned
<1>7. \A g \in File, q \in Pos : WordAt(n, b, g, q) = WordAt(m, b, g, q)
  BY <1>2 DEF WordAt, DataAt
<1>8. size' = m.size
  BY DEF Becomes
<1> QED
  BY <1>1, <1>6, <1>7, <1>8

LEMMA SameState ==
    ASSUME UNCHANGED <<free, block, iblock, size, dirty, raw>>
    PROVE  FS' = FS
BY DEF FS

\* w is m with the inode of f written back.
SavesInode(m, b, f, w) ==
    /\ Good(w, b) /\ w.size = m.size /\ w.iblock = m.iblock /\ w.at = m.at /\ w.total = m.total
    /\ w.raw[f] = [iblock |-> m.iblock[f], size |-> m.size[f]] /\ w.dirty[f] = FALSE
    /\ \A g \in File, q \in Pos : WordAt(w, b, g, q) = WordAt(m, b, g, q)

\* The inodes on disk of the other files are those in memory.
OthersSaved(m, f) ==
    \A g \in File : g # f /\ ~m.dirty[g] => m.raw[g] = [iblock |-> m.iblock[g], size |-> m.size[g]]

\* ext2_write_inode in the state m.
LEMMA WriteInodeIs ==
    ASSUME NEW m, NEW b, m \in State, Describes(m, b), Owned(m, b), NEW f \in File,
           OthersSaved(m, f)
    PROVE  SavesInode(m, b, f, ext2_write_inode(m, f))
<1>0. PICK w : w = ext2_write_inode(m, f)
  OBVIOUS
<1>1. PICK i : i = [iblock |-> m.iblock[f], size |-> m.size[f]]
  OBVIOUS
<1>2. i \in Inode
  BY <1>1, Fields DEF Inode
<1>3. PICK ra, di : ra = [m.raw EXCEPT ![f] = i] /\ di = [m.dirty EXCEPT ![f] = FALSE]
  OBVIOUS
<1>4. ra \in [File -> Inode] /\ ra[f] = i /\ \A g \in File : g # f => ra[g] = m.raw[g]
  BY <1>2, <1>3, Fields
<1>5. di \in [File -> BOOLEAN] /\ di[f] = FALSE /\ \A g \in File : g # f => di[g] = m.dirty[g]
  BY <1>3, Fields
<1>6. w = [m EXCEPT !.raw = ra, !.dirty = di]
  BY <1>0, <1>1, <1>3 DEF ext2_write_inode, State
<1>7. /\ w \in State /\ w.free = m.free /\ w.block = m.block /\ w.iblock = m.iblock /\ w.size = m.size
      /\ w.dirty = di /\ w.raw = ra /\ w.at = m.at /\ w.total = m.total
  BY <1>4, <1>5, <1>6 DEF State
<1>8. Saved(w)
  BY <1>1, <1>4, <1>5, <1>7 DEF Saved, OthersSaved
<1>9. Good(w, b)
  BY <1>7, <1>8 DEF Good, Describes, Owned
<1>10. \A g \in File, q \in Pos : WordAt(w, b, g, q) = WordAt(m, b, g, q)
  BY <1>7 DEF WordAt, DataAt
<1>11. SavesInode(m, b, f, w)
  BY <1>1, <1>4, <1>5, <1>7, <1>9, <1>10 DEF SavesInode
<1> QED
  BY <1>0, <1>11

\* A write of which n words were stored, which is what there was to store if it grew the file.
Wrote(a, f, off, len, d, n, b) ==
    /\ n \in 0 .. len /\ (n > 0 => off + n <= MaxLen)
    /\ Good(FS', b)
    /\ last' = IF n > 0 THEN <<n>> ELSE <<-1>>
    /\ size' = [size EXCEPT ![f] = IF n = len /\ off + n > @ THEN off + n ELSE @]
    /\ \A g \in File, q \in Pos :
          WordAt(FS', b, g, q) = IF g = f /\ off <= q /\ q < off + n THEN d ELSE WordAt(FS, a, g, q)

LEMMA WriteStep ==
    ASSUME NEW a, Good(FS, a), NEW f \in File, NEW off \in Nat, NEW len \in Nat \ {0}, NEW d \in Nat,
           FileWrite(f, off, len, d)
    PROVE  \E b, n : Wrote(a, f, off, len, d, n, b)
<1>1. PICK m : m = Written(f, off, len, d)
  OBVIOUS
<1>2. PICK b : Stores(a, f, off, len, d, m, b) /\ (m.at = NoSpace <=> m.total < len)
  BY <1>1, WrittenIs
<1>3. PICK n : n = m.total
  OBVIOUS
<1>4. /\ Good(m, b) /\ m.size = size /\ n \in 0 .. len /\ (n = 0 \/ off + n <= MaxLen)
      /\ m.at = NoSpace <=> n < len
      /\ \A g \in File, q \in Pos :
            WordAt(m, b, g, q) = IF g = f /\ off <= q /\ q < off + n
                                 THEN d ELSE WordAt(FS, a, g, q)
  BY <1>2, <1>3, FSIs DEF Stores
<1>5. m \in State /\ Saved(m) /\ Describes(m, b) /\ Owned(m, b)
  BY <1>4 DEF Good
<1>6. /\ Becomes(IF m.at = NoSpace THEN m ELSE Finish(m, f, off + len))
      /\ last' = IF n > 0 THEN <<n>> ELSE <<-1>>
  BY <1>1, <1>3, FileWriteIs
<1>7. size \in [File -> 0 .. MaxLen]
  BY <1>4, <1>5, Fields
<1>8. CASE m.at = NoSpace
  <2>1. Becomes(m)
    BY <1>6, <1>8
  <2>2. /\ Good(FS', b) /\ size' = size
        /\ \A g \in File, q \in Pos : WordAt(FS', b, g, q) = WordAt(m, b, g, q)
    BY <1>4, <2>1, NowIs
  <2>3. n # len
    BY <1>4, <1>8
  <2>4. size' = [size EXCEPT ![f] = IF n = len /\ off + n > @ THEN off + n ELSE @]
    BY <1>7, <2>2, <2>3
  <2>5. \A g \in File, q \in Pos :
            WordAt(FS', b, g, q) = IF g = f /\ off <= q /\ q < off + n THEN d ELSE WordAt(FS, a, g, q)
    BY <1>4, <2>2
  <2>6. n \in 0 .. len /\ (n > 0 => off + n <= MaxLen)
    BY <1>4
  <2>7. Wrote(a, f, off, len, d, n, b)
    BY <1>6, <2>2, <2>4, <2>5, <2>6 DEF Wrote
  <2> QED
    BY <2>7
<1>9. CASE m.at # NoSpace
  <2>1. n = len /\ off + len <= MaxLen
    BY <1>4, <1>9
  <2>2. PICK gr : gr = IF off + len > m.size[f]
                       THEN [m EXCEPT !.size[f] = off + len, !.dirty[f] = TRUE] ELSE m
    OBVIOUS
  <2>3. PICK z : z = [size EXCEPT ![f] = IF off + len > @ THEN off + len ELSE @]
    OBVIOUS
  <2>4. z \in [File -> 0 .. MaxLen] /\ \A g \in File : g # f => z[g] = size[g]
    BY <1>7, <2>1, <2>3
  <2>5. /\ gr \in State /\ gr.free = m.free /\ gr.block = m.block /\ gr.iblock = m.iblock
        /\ gr.raw = m.raw /\ gr.at = m.at /\ gr.total = m.total /\ gr.size = z
        /\ \A g \in File : g # f => gr.dirty[g] = m.dirty[g]
        /\ ~gr.dirty[f] => gr = m
    <3>1. CASE off + len > m.size[f]
      <4>1. PICK di : di = [m.dirty EXCEPT ![f] = TRUE]
        OBVIOUS
      <4>2. di \in [File -> BOOLEAN] /\ di[f] = TRUE /\ \A g \in File : g # f => di[g] = m.dirty[g]
        BY <1>5, <4>1, Fields
      <4>3. z = [size EXCEPT ![f] = off + len]
        BY <1>4, <1>7, <2>3, <3>1
      <4>4. gr = [m EXCEPT !.size = z, !.dirty = di]
        BY <1>4, <1>5, <2>2, <3>1, <4>1, <4>3 DEF State
      <4> QED
        BY <1>5, <2>4, <4>2, <4>4 DEF State
    <3>2. CASE ~(off + len > m.size[f])
      <4>1. gr = m
        BY <2>2, <3>2
      <4>2. z = size
        BY <1>4, <1>7, <2>3, <3>2
      <4> QED
        BY <1>4, <1>5, <4>1, <4>2
    <3> QED
      BY <3>1, <3>2
  <2>6. Describes(gr, b) /\ Owned(gr, b)
    BY <1>5, <2>5 DEF Describes, Owned
  <2>7. \A g \in File, q \in Pos : WordAt(gr, b, g, q) = WordAt(m, b, g, q)
    BY <2>5 DEF WordAt, DataAt
  <2>8. PICK w : w = IF gr.dirty[f] THEN ext2_write_inode(gr, f) ELSE gr
    OBVIOUS
  <2>9. Becomes(w)
    BY <1>6, <1>9, <2>2, <2>8 DEF Finish
  <2>10. OthersSaved(gr, f)
    BY <1>4, <1>5, <2>4, <2>5 DEF Saved, OthersSaved
  <2>11. Good(w, b) /\ w.size = z /\ \A g \in File, q \in Pos : WordAt(w, b, g, q) = WordAt(gr, b, g, q)
    <3>1. CASE gr.dirty[f]
      <4>1. w = ext2_write_inode(gr, f) /\ gr \in State
        BY <2>5, <2>8, <3>1
      <4>2. SavesInode(gr, b, f, w)
        BY <2>6, <2>10, <4>1, WriteInodeIs
      <4> QED
        BY <2>5, <4>2 DEF SavesInode
    <3>2. CASE ~gr.dirty[f]
      BY <1>4, <2>5, <2>8, <3>2
    <3> QED
      BY <3>1, <3>2
  <2>12. /\ Good(FS', b) /\ size' = z
         /\ \A g \in File, q \in Pos : WordAt(FS', b, g, q) = WordAt(w, b, g, q)
    BY <2>9, <2>11, NowIs
  <2>13. size' = [size EXCEPT ![f] = IF n = len /\ off + n > @ THEN off + n ELSE @]
    BY <2>1, <2>3, <2>12
  <2>14. \A g \in File, q \in Pos :
            WordAt(FS', b, g, q) = IF g = f /\ off <= q /\ q < off + n THEN d ELSE WordAt(FS, a, g, q)
    BY <1>4, <2>7, <2>11, <2>12
  <2>15. n \in 0 .. len /\ (n > 0 => off + n <= MaxLen)
    BY <1>4
  <2>16. Wrote(a, f, off, len, d, n, b)
    BY <1>6, <2>12, <2>13, <2>14, <2>15 DEF Wrote
  <2> QED
    BY <2>16
<1> QED
  BY <1>8, <1>9

ReloadStepIs(a, f) ==
    /\ Good(FS', a) /\ size' = size
    /\ \A g \in File, q \in Pos : WordAt(FS', a, g, q) = WordAt(FS, a, g, q)

LEMMA ReloadStep ==
    ASSUME NEW a, Good(FS, a), NEW f \in File, Reload(f)
    PROVE  ReloadStepIs(a, f)
<1>1. FS \in State /\ Saved(FS) /\ Describes(FS, a) /\ Owned(FS, a)
  BY DEF Good
<1>2. PICK m : m = IF dirty[f] THEN ext2_write_inode(FS, f) ELSE FS
  OBVIOUS
<1>3. /\ Good(m, a) /\ m.size = size
      /\ m.raw[f] = [iblock |-> m.iblock[f], size |-> m.size[f]]
      /\ \A g \in File, q \in Pos : WordAt(m, a, g, q) = WordAt(FS, a, g, q)
  <2>1. CASE dirty[f]
    <3>1. OthersSaved(FS, f)
      BY <1>1 DEF Saved, OthersSaved
    <3>2. m = ext2_write_inode(FS, f)
      BY <1>2, <2>1
    <3>3. SavesInode(FS, a, f, m)
      BY <1>1, <3>1, <3>2, WriteInodeIs
    <3> QED
      BY <3>3, FSIs DEF SavesInode
  <2>2. CASE ~dirty[f]
    BY <1>1, <1>2, <2>2, FSIs DEF Saved
  <2> QED
    BY <2>1, <2>2
<1>4. m \in State /\ Saved(m) /\ Describes(m, a) /\ Owned(m, a)
  BY <1>3 DEF Good
<1>5. PICK z : z = [m EXCEPT !.iblock[f] = m.raw[f].iblock, !.size[f] = m.raw[f].size,
                             !.dirty[f] = FALSE]
  OBVIOUS
<1>6. PICK di : di = [m.dirty EXCEPT ![f] = FALSE]
  OBVIOUS
<1>7. di \in [File -> BOOLEAN] /\ \A g \in File : g # f => di[g] = m.dirty[g]
  BY <1>4, <1>6, Fields
<1>8. z = [m EXCEPT !.dirty = di]
  <2>1. m.raw[f].iblock = m.iblock[f] /\ m.raw[f].size = m.size[f]
    BY <1>3
  <2>2. [m.iblock EXCEPT ![f] = m.raw[f].iblock] = m.iblock
    BY <1>4, <2>1, Fields
  <2>3. [m.size EXCEPT ![f] = m.raw[f].size] = m.size
    BY <1>4, <2>1, Fields
  <2> QED
    BY <1>4, <1>5, <1>6, <2>2, <2>3 DEF State
<1>9. /\ z \in State /\ z.free = m.free /\ z.block = m.block /\ z.iblock = m.iblock /\ z.size = m.size
      /\ z.raw = m.raw /\ z.dirty = di
  BY <1>4, <1>7, <1>8 DEF State
<1>10. Saved(z)
  BY <1>3, <1>4, <1>7, <1>9 DEF Saved
<1>11. Good(z, a)
  BY <1>4, <1>9, <1>10 DEF Good, Describes, Owned
<1>12. Becomes(z)
  BY <1>2, <1>5 DEF Reload
<1>13. /\ Good(FS', a) /\ size' = z.size
       /\ \A g \in File, q \in Pos : WordAt(FS', a, g, q) = WordAt(z, a, g, q)
  BY <1>11, <1>12, NowIs
<1>14. \A g \in File, q \in Pos : WordAt(z, a, g, q) = WordAt(m, a, g, q)
  BY <1>9 DEF WordAt, DataAt
<1> QED
  BY <1>3, <1>9, <1>13, <1>14 DEF ReloadStepIs

\* The file f is empty now.
Truncated(a, f, b) ==
    /\ Good(FS', b) /\ size' = [size EXCEPT ![f] = 0]
    /\ \A g \in File, q \in Pos : WordAt(FS', b, g, q) = IF g = f THEN 0 ELSE WordAt(FS, a, g, q)

LEMMA TruncateStep ==
    ASSUME NEW a, Good(FS, a), NEW f \in File, Truncate(f)
    PROVE  \E b : Truncated(a, f, b)
<1>1. FS \in State /\ Saved(FS) /\ Describes(FS, a) /\ Owned(FS, a)
  BY DEF Good
<1>2. PICK b : b = [x \in Node |-> IF x[1] = f THEN 0 ELSE a[x]]
  OBVIOUS
<1>3. a \in [Node -> Blk \cup {0}]
  BY <1>1 DEF Describes
<1>4. \A c : c \in Tree(f) <=> \E x \in Node : x[1] = f /\ a[x] = c /\ c # 0
  BY <1>1, TreeIs
<1>5. PICK fr : fr = free \cup Tree(f)
  OBVIOUS
<1>6. fr \in SUBSET Blk
  <2>1. free \subseteq Blk
    BY <1>1, Fields, FSIs
  <2> QED
    BY <1>3, <1>4, <1>5, <2>1
<1>7. NoBlocks \in [0 .. TIND -> Blk \cup {0}] /\ \A k \in 0 .. TIND : NoBlocks[k] = 0
  BY DEF NoBlocks
<1>8. PICK ib, sz, di : /\ ib = [iblock EXCEPT ![f] = NoBlocks] /\ sz = [size EXCEPT ![f] = 0]
                        /\ di = [dirty EXCEPT ![f] = TRUE]
  OBVIOUS
<1>9. /\ iblock \in [File -> [0 .. TIND -> Blk \cup {0}]] /\ size \in [File -> 0 .. MaxLen]
      /\ dirty \in [File -> BOOLEAN]
  BY <1>1, Fields, FSIs
<1>10. 0 \in 0 .. MaxLen
  BY Sizes
<1>11. ib \in [File -> [0 .. TIND -> Blk \cup {0}]] /\ sz \in [File -> 0 .. MaxLen] /\ di \in [File -> BOOLEAN]
  BY <1>7, <1>8, <1>9, <1>10
<1>12. /\ ib[f] = NoBlocks /\ \A g \in File : g # f => ib[g] = iblock[g]
       /\ \A g \in File : g # f => sz[g] = size[g]
       /\ \A g \in File : g # f => di[g] = dirty[g]
  BY <1>8, <1>9
<1>13. PICK z : z = [FS EXCEPT !.free = @ \cup Freed(f), !.iblock[f] = NoBlocks,
                               !.size[f] = 0, !.dirty[f] = TRUE]
  OBVIOUS
<1>14. z = [FS EXCEPT !.free = fr, !.iblock = ib, !.size = sz, !.dirty = di]
  BY <1>1, <1>5, <1>8, <1>13, FSIs DEF State, Freed
<1>15. /\ z \in State /\ z.free = fr /\ z.block = block /\ z.iblock = ib /\ z.size = sz
       /\ z.raw = raw /\ z.dirty = di
  BY <1>1, <1>6, <1>11, <1>14, FSIs DEF State
<1>16. Describes(z, b)
  <2>1. b \in [Node -> Blk \cup {0}]
    BY <1>2, <1>3
  <2>2. ASSUME NEW g \in File, NEW k \in 0 .. DIND
        PROVE  b[<<g, k, No, No>>] = ib[g][k]
    <3>1. <<g, k, No, No>> \in Node /\ k \in 0 .. TIND
      BY Sizes DEF Node, RootNode
    <3>2. a[<<g, k, No, No>>] = iblock[g][k]
      BY <1>1, FSIs DEF Describes
    <3>3. b[<<g, k, No, No>>] = IF g = f THEN 0 ELSE a[<<g, k, No, No>>]
      BY <1>2, <3>1
    <3>4. CASE g = f
      BY <1>7, <1>12, <3>1, <3>3, <3>4
    <3>5. CASE g # f
      BY <1>12, <3>2, <3>3, <3>5
    <3> QED
      BY <3>4, <3>5
  <2>3. ASSUME NEW g \in File
        PROVE  ib[g][TIND] = 0
    <3>1. TIND \in 0 .. TIND
      BY Sizes
    <3>2. iblock[g][TIND] = 0
      BY <1>1, FSIs DEF Describes
    <3> QED
      BY <1>7, <1>12, <3>1, <3>2
  <2>4. ASSUME NEW x \in Below
        PROVE  b[x] = IF b[Up(x)] = 0 THEN 0 ELSE block[b[Up(x)]][LastOf(x)]
    <3>1. Up(x) \in Node /\ Up(x)[1] = x[1] /\ x \in Node
      BY BelowIs DEF Node
    <3>2. a[x] = IF a[Up(x)] = 0 THEN 0 ELSE block[a[Up(x)]][LastOf(x)]
      BY <1>1, FSIs DEF Describes
    <3>3. /\ b[x] = IF x[1] = f THEN 0 ELSE a[x]
          /\ b[Up(x)] = IF x[1] = f THEN 0 ELSE a[Up(x)]
      BY <1>2, <3>1
    <3> QED
      BY <3>2, <3>3
  <2> QED
    BY <1>15, <2>1, <2>2, <2>3, <2>4 DEF Describes
<1>17. Owned(z, b)
  <2>1. \A x \in Node : b[x] = IF x[1] = f THEN 0 ELSE a[x]
    BY <1>2
  <2>2. \A x, y \in Node : b[x] = b[y] /\ b[x] # 0 => x = y
    BY <1>1, <2>1 DEF Owned
  <2>3. ASSUME NEW x \in Node
        PROVE  b[x] \notin fr
    <3>1. CASE x[1] = f
      <4>1. b[x] = 0
        BY <2>1, <3>1
      <4> QED
        BY <1>6, <4>1, BlkIs
    <3>2. CASE x[1] # f
      <4>1. b[x] = a[x] /\ a[x] \notin free
        BY <1>1, <2>1, <3>2, FSIs DEF Owned
      <4>2. a[x] \notin Tree(f)
        <5>1. SUFFICES ASSUME a[x] \in Tree(f)
                       PROVE  FALSE
          OBVIOUS
        <5>2. PICK y \in Node : y[1] = f /\ a[y] = a[x] /\ a[x] # 0
          BY <1>4, <5>1
        <5>3. x = y
          BY <1>1, <5>2 DEF Owned
        <5> QED
          BY <3>2, <5>2, <5>3
      <4> QED
        BY <1>5, <4>1, <4>2
    <3> QED
      BY <3>1, <3>2
  <2>4. ASSUME NEW c \in Blk \ fr
        PROVE  \E x \in Node : b[x] = c
    <3>1. c \in Blk \ free /\ c \notin Tree(f)
      BY <1>5
    <3>2. PICK x \in Node : a[x] = c
      BY <1>1, <3>1, FSIs DEF Owned
    <3>3. c # 0
      BY BlkIs
    <3>4. x[1] # f
      BY <1>4, <3>1, <3>2, <3>3
    <3> QED
      BY <2>1, <3>2, <3>4
  <2> QED
    BY <1>15, <2>2, <2>3, <2>4 DEF Owned
<1>18. OthersSaved(z, f)
  <2>1. ASSUME NEW g \in File, g # f, ~di[g]
        PROVE  raw[g] = [iblock |-> ib[g], size |-> sz[g]]
    BY <1>1, <1>12, <2>1, FSIs DEF Saved
  <2> QED
    BY <1>15, <2>1 DEF OthersSaved
<1>19. PICK w : w = ext2_write_inode(z, f)
  OBVIOUS
<1>20. z \in State
  BY <1>15
<1>21. SavesInode(z, b, f, w)
  BY <1>16, <1>17, <1>18, <1>19, <1>20, WriteInodeIs
<1>22. Good(w, b) /\ w.size = sz /\ \A g \in File, q \in Pos : WordAt(w, b, g, q) = WordAt(z, b, g, q)
  BY <1>15, <1>21 DEF SavesInode
<1>23. Becomes(w)
  BY <1>13, <1>19 DEF Truncate
<1>24. /\ Good(FS', b) /\ size' = w.size
       /\ \A g \in File, q \in Pos : WordAt(FS', b, g, q) = WordAt(w, b, g, q)
  BY <1>22, <1>23, NowIs
<1>25. ASSUME NEW g \in File, NEW q \in Pos
       PROVE  WordAt(z, b, g, q) = IF g = f THEN 0 ELSE WordAt(FS, a, g, q)
  <2>1. q \div P \in Lbk /\ q % P \in Index
    BY PosIs
  <2>2. Leaf(g, q \div P) \in Node /\ Leaf(g, q \div P)[1] = g
    BY <2>1, LeafIs
  <2>3. b[Leaf(g, q \div P)] = IF g = f THEN 0 ELSE a[Leaf(g, q \div P)]
    BY <1>2, <2>2
  <2>4. CASE g = f
    BY <2>1, <2>3, <2>4, ZerosIs DEF WordAt, DataAt
  <2>5. CASE g # f
    BY <1>15, <2>3, <2>5, FSIs DEF WordAt, DataAt
  <2> QED
    BY <2>4, <2>5
<1>26. Truncated(a, f, b)
  BY <1>8, <1>22, <1>24, <1>25 DEF Truncated
<1> QED
  BY <1>26

-----------------------------------------------------------------------------
(***************************************************************************)
(* What a caller sees.                                                     *)
(***************************************************************************)
\* The words of the files of m, as Contents has them.
ContentsOf(m) ==
    [g \in File |-> [q \in 0 .. (MaxLen - 1) |-> ext2_read_block(m, g, q \div P)[q % P]]]

LEMMA ContentsIs ==
    ASSUME NEW m, NEW a, Good(m, a)
    PROVE  ContentsOf(m) = [g \in File |-> [q \in Pos |-> WordAt(m, a, g, q)]]
<1>1. ASSUME NEW g \in File, NEW q \in Pos
      PROVE  ext2_read_block(m, g, q \div P)[q % P] = WordAt(m, a, g, q)
  <2>1. q \div P \in Lbk
    BY PosIs
  <2>2. ext2_read_block(m, g, q \div P) = DataAt(m, a, Leaf(g, q \div P))
    BY <2>1, ReadIs
  <2> QED
    BY <2>2 DEF WordAt
<1> QED
  BY <1>1 DEF ContentsOf, Pos

LEMMA ContentsNow ==
    Contents = ContentsOf(FS) /\ Contents' = ContentsOf(FS')
<1>1. Contents = ContentsOf(FS)
  BY DEF Contents, ContentsOf
<1>2. Contents' = ContentsOf(FS')
  BY DEF Contents, ContentsOf
<1> QED
  BY <1>1, <1>2

\* The next contents, from the words.
LEMMA ContentsNext ==
    ASSUME NEW a, Good(FS, a), NEW b, Good(FS', b)
    PROVE  /\ Contents = [g \in File |-> [q \in Pos |-> WordAt(FS, a, g, q)]]
           /\ Contents' = [g \in File |-> [q \in Pos |-> WordAt(FS', b, g, q)]]
<1>1. Contents = [g \in File |-> [q \in Pos |-> WordAt(FS, a, g, q)]]
  BY ContentsNow, ContentsIs
<1>2. PICK m : m = FS'
  OBVIOUS
<1>3. Good(m, b)
  BY <1>2
<1>4. ContentsOf(m) = [g \in File |-> [q \in Pos |-> WordAt(m, b, g, q)]]
  BY <1>3, ContentsIs
<1>5. Contents' = ContentsOf(m)
  BY <1>2, ContentsNow
<1> QED
  BY <1>1, <1>2, <1>4, <1>5

LEMMA InitSimulates ==
    ASSUME Init
    PROVE  IInv /\ Files!Init
<1>1. PICK a : Good(FS, a) /\ \A g \in File, q \in Pos : WordAt(FS, a, g, q) = 0
  BY InitGood
<1>2. Contents = [g \in File |-> [q \in Pos |-> WordAt(FS, a, g, q)]]
  BY <1>1, ContentsNow, ContentsIs
<1>3. Contents = [g \in File |-> [q \in 0 .. (MaxLen - 1) |-> 0]]
  BY <1>1, <1>2 DEF Pos
<1>4. size = [f \in File |-> 0] /\ last = <<>>
  BY DEF Init
<1> QED
  BY <1>1, <1>3, <1>4 DEF IInv, Files!Init, Files!Pos

\* ext2_file_read returns the words of the file.
LEMMA ReadSimulates ==
    ASSUME NEW a, Good(FS, a), NEW f \in File, NEW off \in Nat, NEW len \in Nat \ {0},
           FileRead(f, off, len)
    PROVE  Good(FS', a) /\ Files!Read(f, off, len)
<1>1. UNCHANGED <<free, block, iblock, size, dirty, raw>>
  BY DEF FileRead
<1>2. FS' = FS
  BY <1>1, SameState
<1>3. Good(FS', a)
  BY <1>2
<1>4. Contents' = Contents
  BY <1>2, ContentsNow
<1>5. size[f] \in 0 .. MaxLen
  BY Fields, FSIs DEF Good
<1>6. PICK n : n = ReadLen(f, off, len)
  OBVIOUS
<1>7. n = (IF off >= size[f] THEN 0 ELSE IF off + len > size[f] THEN size[f] - off ELSE len)
  BY <1>6 DEF ReadLen
<1>8. ASSUME NEW i \in 1 .. n
      PROVE  ext2_read_block(FS, f, (off + i - 1) \div P)[(off + i - 1) % P]
             = Contents[f][off + i - 1]
  <2>1. MaxLen \in Nat
    BY Sizes
  <2>2. off + i - 1 \in 0 .. (MaxLen - 1)
    BY <1>5, <1>7, <2>1
  <2>3. PICK q : q = off + i - 1 /\ q \in 0 .. (MaxLen - 1)
    BY <2>2
  <2>4. ext2_read_block(FS, f, q \div P)[q % P] = Contents[f][q]
    BY <2>3 DEF Contents
  <2> QED
    BY <2>3, <2>4
<1>9. last' = [i \in 1 .. n |-> ext2_read_block(FS, f, (off + i - 1) \div P)[(off + i - 1) % P]]
  BY <1>6 DEF FileRead
<1>10. last' = [i \in 1 .. n |-> Contents[f][off + i - 1]]
  BY <1>8, <1>9
<1> QED
  BY <1>1, <1>3, <1>4, <1>7, <1>10 DEF Files!Read

\* ext2_file_write stores the first words of what it is given, all of them if
\* there is room; if there is not, it may leave the end where it was.
LEMMA WriteSimulates ==
    ASSUME NEW a, Good(FS, a), NEW f \in File, NEW off \in Nat, NEW len \in Nat \ {0}, NEW d \in Nat,
           FileWrite(f, off, len, d)
    PROVE  /\ IInv'
           /\ \E n \in 0 .. len :
                 \/ /\ n > 0 => off + n <= MaxLen
                    /\ Files!Write(f, off, [k \in 1 .. len |-> d], n)
                 \/ ShortWrite(f, off, [k \in 1 .. len |-> d], n)
<1>1. PICK b, n : Wrote(a, f, off, len, d, n, b)
  BY WriteStep
<1>2. /\ n \in 0 .. len /\ (n > 0 => off + n <= MaxLen) /\ Good(FS', b)
      /\ last' = IF n > 0 THEN <<n>> ELSE <<-1>>
      /\ size' = [size EXCEPT ![f] = IF n = len /\ off + n > @ THEN off + n ELSE @]
  BY <1>1 DEF Wrote
<1>3. \A g \in File, q \in Pos :
         WordAt(FS', b, g, q) = IF g = f /\ off <= q /\ q < off + n THEN d ELSE WordAt(FS, a, g, q)
  BY <1>1 DEF Wrote
<1>4. PICK ws : ws = [k \in 1 .. len |-> d]
  OBVIOUS
<1>5. Len(ws) = len
  BY <1>4
<1>0. size \in [File -> 0 .. MaxLen] /\ MaxLen \in Nat
  BY Fields, FSIs, Sizes DEF Good
<1>6. ASSUME n = 0 \/ n = len \/ off + n <= size[f]
      PROVE  size' = [size EXCEPT ![f] = IF n > 0 THEN Files!Larger(@, off + n) ELSE @]
  <2>1. size[f] \in 0 .. MaxLen
    BY <1>0
  <2>2. (IF n = len /\ off + n > size[f] THEN off + n ELSE size[f])
        = (IF n > 0 THEN Files!Larger(size[f], off + n) ELSE size[f])
    BY <1>0, <1>2, <1>6, <2>1 DEF Files!Larger
  <2> QED
    BY <1>0, <1>2, <2>2
<1>7. /\ Contents = [g \in File |-> [q \in Pos |-> WordAt(FS, a, g, q)]]
      /\ Contents' = [g \in File |-> [q \in Pos |-> WordAt(FS', b, g, q)]]
  BY <1>2, ContentsNext
<1>8. ASSUME NEW q \in Pos
      PROVE  WordAt(FS', b, f, q)
             = IF q >= off /\ q < off + n THEN ws[q - off + 1] ELSE Contents[f][q]
  <2>1. q \in Nat
    BY PosIs
  <2>2. Contents[f][q] = WordAt(FS, a, f, q)
    BY <1>7
  <2>3. CASE q >= off /\ q < off + n
    <3>1. q - off + 1 \in 1 .. len
      BY <1>2, <2>1, <2>3
    <3>2. ws[q - off + 1] = d
      BY <1>4, <3>1
    <3>3. WordAt(FS', b, f, q) = d
      BY <1>3, <2>3
    <3> QED
      BY <2>3, <3>2, <3>3
  <2>4. CASE ~(q >= off /\ q < off + n)
    BY <1>3, <2>2, <2>4
  <2> QED
    BY <2>3, <2>4
<1>9. Contents' = [Contents EXCEPT ![f] =
                     [q \in Pos |-> IF q >= off /\ q < off + n THEN ws[q - off + 1] ELSE @[q]]]
  <2>1. PICK c, c2 : /\ c = [q \in Pos |-> IF q >= off /\ q < off + n
                                           THEN ws[q - off + 1] ELSE Contents[f][q]]
                     /\ c2 = [Contents EXCEPT ![f] = c]
    OBVIOUS
  <2>2. DOMAIN Contents = File
    BY <1>7
  <2>3. [q \in Pos |-> WordAt(FS', b, f, q)] = c
    BY <1>8, <2>1
  <2>4. ASSUME NEW g \in File, g # f
        PROVE  [q \in Pos |-> WordAt(FS', b, g, q)] = Contents[g]
    <3>1. \A q \in Pos : WordAt(FS', b, g, q) = WordAt(FS, a, g, q)
      BY <1>3, <2>4
    <3>2. Contents[g] = [q \in Pos |-> WordAt(FS, a, g, q)]
      BY <1>7
    <3> QED
      BY <3>1, <3>2
  <2>5. c2 = [g \in File |-> IF g = f THEN c ELSE Contents[g]]
    BY <2>1, <2>2
  <2>6. Contents' = c2
    BY <1>7, <2>3, <2>4, <2>5
  <2> QED
    BY <2>1, <2>6
<1>10. Files!Stored(f, off, ws, n)
  BY <1>9 DEF Files!Stored, Files!Pos, Pos
<1>11. CASE n = 0 \/ n = len \/ off + n <= size[f]
  <2>1. Files!Write(f, off, ws, n)
    BY <1>2, <1>6, <1>10, <1>11 DEF Files!Write
  <2> QED
    BY <1>2, <1>4, <2>1 DEF IInv
<1>12. CASE ~ (n = 0 \/ n = len \/ off + n <= size[f])
  <2>1. /\ 0 < n /\ n < len /\ size[f] < off + n /\ off + n <= MaxLen
        /\ size[f] \in 0 .. MaxLen
    BY <1>0, <1>2, <1>12
  <2>2. size' = size
    BY <1>0, <1>2, <2>1
  <2>3. ShortWrite(f, off, ws, n)
    BY <1>2, <1>5, <1>10, <2>1, <2>2 DEF ShortWrite
  <2> QED
    BY <1>2, <1>4, <2>3 DEF IInv
<1> QED
  BY <1>11, <1>12

\* Writing an inode back and reading it anew changes nothing a caller sees.
LEMMA ReloadSimulates ==
    ASSUME NEW a, Good(FS, a), NEW f \in File, Reload(f)
    PROVE  IInv' /\ UNCHANGED <<Contents, size, last>>
<1>1. ReloadStepIs(a, f)
  BY ReloadStep
<1>2. /\ Good(FS', a) /\ size' = size
      /\ \A g \in File, q \in Pos : WordAt(FS', a, g, q) = WordAt(FS, a, g, q)
  BY <1>1 DEF ReloadStepIs
<1>3. /\ Contents = [g \in File |-> [q \in Pos |-> WordAt(FS, a, g, q)]]
      /\ Contents' = [g \in File |-> [q \in Pos |-> WordAt(FS', a, g, q)]]
  BY <1>2, ContentsNext
<1>4. Contents' = Contents
  BY <1>2, <1>3
<1>5. last' = last
  BY DEF Reload
<1> QED
  BY <1>2, <1>4, <1>5 DEF IInv

\* An unlinked file is empty, and no other has lost a word.
LEMMA TruncateSimulates ==
    ASSUME NEW a, Good(FS, a), NEW f \in File, Truncate(f)
    PROVE  IInv' /\ Files!Delete(f)
<1>1. PICK b : Truncated(a, f, b)
  BY TruncateStep
<1>2. /\ Good(FS', b) /\ size' = [size EXCEPT ![f] = 0]
      /\ \A g \in File, q \in Pos :
            WordAt(FS', b, g, q) = IF g = f THEN 0 ELSE WordAt(FS, a, g, q)
  BY <1>1 DEF Truncated
<1>3. /\ Contents = [g \in File |-> [q \in Pos |-> WordAt(FS, a, g, q)]]
      /\ Contents' = [g \in File |-> [q \in Pos |-> WordAt(FS', b, g, q)]]
  BY <1>2, ContentsNext
<1>4. Contents' = [Contents EXCEPT ![f] = [q \in Pos |-> 0]]
  <2>1. PICK c : c = [q \in Pos |-> 0]
    OBVIOUS
  <2>2. DOMAIN Contents = File
    BY <1>3
  <2>3. [q \in Pos |-> WordAt(FS', b, f, q)] = c
    BY <1>2, <2>1
  <2>4. ASSUME NEW g \in File, g # f
        PROVE  [q \in Pos |-> WordAt(FS', b, g, q)] = Contents[g]
    <3>1. \A q \in Pos : WordAt(FS', b, g, q) = WordAt(FS, a, g, q)
      BY <1>2, <2>4
    <3>2. Contents[g] = [q \in Pos |-> WordAt(FS, a, g, q)]
      BY <1>3
    <3> QED
      BY <3>1, <3>2
  <2>5. [Contents EXCEPT ![f] = c] = [g \in File |-> IF g = f THEN c ELSE Contents[g]]
    BY <2>2
  <2>6. Contents' = [g \in File |-> IF g = f THEN c ELSE Contents[g]]
    BY <1>3, <2>3, <2>4
  <2> QED
    BY <2>1, <2>5, <2>6
<1>5. last' = last
  BY DEF Truncate
<1> QED
  BY <1>2, <1>4, <1>5 DEF IInv, Files!Delete, Files!Pos, Pos

-----------------------------------------------------------------------------
(***************************************************************************)
(* The theorems.                                                           *)
(***************************************************************************)
LEMMA StepSimulates ==
    ASSUME IInv, [Next]_vars
    PROVE  IInv' /\ [Files!Next \/ ShortWrites]_(Files!vars)
<1>1. PICK a : Good(FS, a)
  BY DEF IInv
<1>2. CASE UNCHANGED vars
  <2>1. UNCHANGED <<free, block, iblock, size, dirty, raw>> /\ last' = last
    BY <1>2 DEF vars
  <2>2. FS' = FS
    BY <2>1, SameState
  <2>3. Contents' = Contents
    BY <2>2, ContentsNow
  <2> QED
    BY <1>1, <2>1, <2>2, <2>3 DEF IInv, Files!vars
<1>3. ASSUME NEW f \in File, NEW off \in Offset, NEW len \in Length, FileRead(f, off, len)
      PROVE  IInv' /\ Files!Next
  <2>1. off \in Nat /\ len \in Nat \ {0}
    BY CallAssumption
  <2>2. Good(FS', a) /\ Files!Read(f, off, len)
    BY <1>1, <1>3, <2>1, ReadSimulates
  <2> QED
    BY <2>2 DEF IInv, Files!Next
<1>4. ASSUME NEW f \in File, NEW off \in Offset, NEW len \in Length, NEW d \in Data,
             FileWrite(f, off, len, d)
      PROVE  IInv' /\ (Files!Next \/ ShortWrites)
  <2>1. off \in Nat /\ len \in Nat \ {0} /\ d \in Nat
    BY CallAssumption, DataAssumption
  <2>2. PICK ws, n : /\ IInv' /\ ws = [k \in 1 .. len |-> d] /\ n \in 0 .. len
                     /\ \/ (n > 0 => off + n <= MaxLen) /\ Files!Write(f, off, ws, n)
                        \/ ShortWrite(f, off, ws, n)
    BY <1>1, <1>4, <2>1, WriteSimulates
  <2>3. CASE (n > 0 => off + n <= MaxLen) /\ Files!Write(f, off, ws, n)
    BY <2>2, <2>3 DEF Files!Next
  <2>4. CASE ShortWrite(f, off, ws, n)
    <3>1. n \in 1 .. len
      BY <2>1, <2>2, <2>4 DEF ShortWrite
    <3> QED
      BY <2>2, <2>4, <3>1 DEF ShortWrites
  <2> QED
    BY <2>2, <2>3, <2>4
<1>5. ASSUME NEW f \in File, Reload(f)
      PROVE  IInv' /\ UNCHANGED Files!vars
  BY <1>1, <1>5, ReloadSimulates DEF Files!vars
<1>6. ASSUME NEW f \in File, Truncate(f)
      PROVE  IInv' /\ Files!Next
  <2>1. IInv' /\ Files!Delete(f)
    BY <1>1, <1>6, TruncateSimulates
  <2> QED
    BY <2>1 DEF Files!Next
<1> QED
  BY <1>2, <1>3, <1>4, <1>5, <1>6 DEF Next

\* The places of the files' trees and the blocks found there stay a bijection
\* onto the blocks in use: over every call, also one that ends without space.
THEOREM Inductive == Spec => []IInv
<1>1. Init => IInv
  BY InitSimulates
<1>2. IInv /\ [Next]_vars => IInv'
  BY StepSimulates
<1> QED
  BY <1>1, <1>2, PTL DEF Spec

\* Slots hold block numbers of the device or 0, sizes stay within the block map.
THEOREM TypeCorrect == Spec => []TypeOK
<1>1. IInv => TypeOK
  BY GoodTyped DEF IInv
<1> QED
  BY <1>1, Inductive, PTL

\* ext2_write_block, ext2_alloc_block and ext2_free_branch together never let two
\* slots name one block and never lose one.
THEOREM BlocksHaveOneOwner == Spec => []OneOwner
<1>1. IInv => OneOwner
  BY GoodOwners DEF IInv
<1> QED
  BY <1>1, Inductive, PTL

\* ext2_file_read returns what ext2_file_write stored, whatever way the block map
\* takes to it: every call is one of the array of words of FileStore, or no change, or a
\* ShortWrite, which stores words behind an end that it does not move.
THEOREM FilesAreArrays == Spec => ImplementsFileStore
<1>1. Init => Files!Init
  BY InitSimulates
<1>2. IInv /\ [Next]_vars => [Files!Next \/ ShortWrites]_(Files!vars)
  BY StepSimulates
<1> QED
  BY <1>1, <1>2, Inductive, PTL DEF Spec, ImplementsFileStore

=============================================================================
