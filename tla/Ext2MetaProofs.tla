--------------------------- MODULE Ext2MetaProofs ---------------------------
(***************************************************************************)
(* Proofs about the metadata of ext2.  First Ext2Alloc, the bitmaps and    *)
(* their counts, for every geometry of groups and table blocks; then       *)
(* Ext2Dir, names and inodes, for every number of inodes and blocks, every *)
(* length of a block and every set of names.                               *)
(***************************************************************************)
EXTENDS Ext2Alloc, Ext2Dir, FiniteSetTheorems, SequenceTheorems, WellFoundedInduction, TLAPS

-----------------------------------------------------------------------------
(***************************************************************************)
(* Arithmetic of the group layout                                          *)
(***************************************************************************)
\* Quotient and remainder are the one way to write a number as q * d + r.
LEMMA DivMod ==
    ASSUME NEW n \in Nat, NEW d \in Nat \ {0}
    PROVE  /\ n \div d \in Nat
           /\ n % d \in 0 .. (d - 1)
           /\ (n \div d) * d + (n % d) = n
<1>1. n \div d \in Int /\ n % d \in 0 .. (d - 1)
  OBVIOUS
<1>2. n = d * (n \div d) + (n % d)
  OBVIOUS
<1>3. n \div d \in Nat
  BY <1>1
<1> QED
  BY <1>1, <1>2, <1>3

\* Of two numbers in different groups the one in the later group is larger.
LEMMA GroupsAscend ==
    ASSUME NEW d \in Nat \ {0}, NEW f \in Nat, NEW g \in Nat, f < g,
           NEW j \in 0 .. (d - 1), NEW k \in 0 .. (d - 1)
    PROVE  f * d + j < g * d + k
<1>1. PICK n \in Nat : g = f + 1 + n
  <2>1. g - f - 1 \in Nat /\ g = f + 1 + (g - f - 1)
    OBVIOUS
  <2> QED
    BY <2>1
<1>2. g * d = f * d + d + n * d
  BY <1>1
<1>3. f * d \in Nat /\ n * d \in Nat /\ g * d \in Nat
  BY <1>1
<1> QED
  BY <1>2, <1>3

LEMMA DivModUnique ==
    ASSUME NEW d \in Nat \ {0}, NEW f \in Nat, NEW g \in Nat,
           NEW j \in 0 .. (d - 1), NEW k \in 0 .. (d - 1),
           f * d + j = g * d + k
    PROVE  f = g /\ j = k
<1>1. f * d \in Nat /\ g * d \in Nat
  OBVIOUS
<1>2. ~(f < g) /\ ~(g < f)
  BY <1>1, GroupsAscend
<1> QED
  BY <1>1, <1>2

\* Every group begins before the end and has between one and PerGroup units.
LEMMA SizeOfGroup ==
    ASSUME NEW g \in Group
    PROVE  /\ Base(g) \in Nat /\ Base(g) >= First /\ Base(g) < End
           /\ Size(g) \in 1 .. PerGroup
           /\ Base(g) + Size(g) <= End
<1> USE FirstAssumption, PerGroupAssumption, NGroupAssumption DEF Group
<1>1. g \in Nat /\ g <= NGroup - 1 /\ g * PerGroup \in Nat
  OBVIOUS
<1>2. g * PerGroup <= (NGroup - 1) * PerGroup
  <2>1. CASE g = NGroup - 1
    <3>1. (NGroup - 1) * PerGroup \in Nat
      OBVIOUS
    <3> QED
      BY <2>1, <3>1
  <2>2. CASE g < NGroup - 1
    BY <1>1, <2>2, GroupsAscend, 0 \in 0 .. (PerGroup - 1), NGroup - 1 \in Nat,
       (NGroup - 1) * PerGroup \in Nat
  <2> QED
    BY <1>1, <2>1, <2>2
<1>3. (NGroup - 1) * PerGroup \in Nat
  OBVIOUS
<1>4. Base(g) \in Nat /\ Base(g) >= First /\ Base(g) < End
  BY <1>1, <1>2, <1>3 DEF Base
<1> QED
  BY <1>4 DEF Size

\* Every bit below the size of a group stands for a unit of its own ...
LEMMA UnitOfBit ==
    ASSUME NEW g \in Group, NEW k \in 0 .. (Size(g) - 1)
    PROVE  /\ Base(g) + k \in Unit
           /\ k \in Bit
<1>1. Base(g) \in Nat /\ Base(g) >= First /\ Size(g) \in 1 .. PerGroup
      /\ Base(g) + Size(g) <= End
  BY SizeOfGroup
<1> QED
  BY <1>1, FirstAssumption, PerGroupAssumption, NGroupAssumption DEF Unit, Bit

\* ... and every unit has one.
LEMMA BitOfUnit ==
    ASSUME NEW u \in Unit
    PROVE  /\ GroupOf(u) \in Group
           /\ BitOf(u) \in Bit
           /\ BitOf(u) < Size(GroupOf(u))
           /\ Base(GroupOf(u)) + BitOf(u) = u
<1> DEFINE n == u - First
           g == n \div PerGroup
           k == n % PerGroup
<1> USE FirstAssumption, PerGroupAssumption, NGroupAssumption
<1>1. n \in Nat /\ u = First + n /\ u < End
  BY DEF Unit
<1>2. GroupOf(u) = g /\ BitOf(u) = k
  BY DEF GroupOf, BitOf
<1> HIDE DEF n
<1>3. g \in Nat /\ k \in 0 .. (PerGroup - 1) /\ g * PerGroup + k = n
  BY <1>1, DivMod
<1> HIDE DEF g, k
<1>4. g < NGroup
  <2> SUFFICES ASSUME g >= NGroup PROVE FALSE
    BY <1>3
  <2>1. NGroup * PerGroup + 0 <= g * PerGroup + k
    <3>1. CASE g = NGroup
      BY <1>3, <3>1, NGroup * PerGroup \in Nat
    <3>2. CASE NGroup < g
      BY <1>3, <3>2, GroupsAscend, 0 \in 0 .. (PerGroup - 1), NGroup * PerGroup \in Nat,
         g * PerGroup \in Nat
    <3> QED
      BY <1>3, <3>1, <3>2
  <2> QED
    BY <1>1, <1>3, <2>1, NGroup * PerGroup \in Nat
<1>5. g \in Group
  BY <1>3, <1>4 DEF Group
<1>6. Base(g) + k = u
  BY <1>1, <1>3, g * PerGroup \in Nat DEF Base
<1>7. k < Size(g)
  BY <1>1, <1>3, <1>5, <1>6, SizeOfGroup DEF Size
<1> QED
  BY <1>2, <1>3, <1>5, <1>6, <1>7 DEF Bit

\* Units in a later group have larger numbers, so no two bits share a unit.
LEMMA UnitsAscend ==
    ASSUME NEW f \in Group, NEW g \in Group, f < g, NEW j \in Bit, NEW k \in Bit
    PROVE  Base(f) + j < Base(g) + k
<1> USE FirstAssumption, PerGroupAssumption, NGroupAssumption DEF Group, Bit
<1>1. f * PerGroup \in Nat /\ g * PerGroup \in Nat
  OBVIOUS
<1>2. f * PerGroup + j < g * PerGroup + k
  BY GroupsAscend
<1> QED
  BY <1>1, <1>2 DEF Base

LEMMA UnitUnique ==
    ASSUME NEW f \in Group, NEW g \in Group, NEW j \in Bit, NEW k \in Bit,
           Base(f) + j = Base(g) + k
    PROVE  f = g /\ j = k
<1> USE FirstAssumption, PerGroupAssumption, NGroupAssumption DEF Group, Bit
<1>1. f * PerGroup \in Nat /\ g * PerGroup \in Nat
  OBVIOUS
<1>2. f * PerGroup + j = g * PerGroup + k
  BY <1>1 DEF Base
<1> QED
  BY <1>2, DivModUnique

TableBlocks == 0 .. TableBlock(NGroup - 1)
Offsets     == 0 .. (DescPerBlock - 1)

\* The descriptor of each group has a place of its own in the table blocks.
LEMMA PlaceOfDescriptor ==
    ASSUME NEW g \in Group
    PROVE  /\ TableBlock(g) \in TableBlocks
           /\ TableOffset(g) \in Offsets
           /\ \A b \in TableBlocks, o \in Offsets :
                 b * DescPerBlock + o = g <=> b = TableBlock(g) /\ o = TableOffset(g)
<1> USE DescAssumption, NGroupAssumption DEF Group
<1> DEFINE b == g \div DescPerBlock
           o == g % DescPerBlock
           l == (NGroup - 1) \div DescPerBlock
           m == (NGroup - 1) % DescPerBlock
<1>1. b \in Nat /\ o \in Offsets /\ b * DescPerBlock + o = g
  <2>1. g \in Nat
    OBVIOUS
  <2> QED
    BY <2>1, DivMod DEF Offsets
<1>2. l \in Nat /\ m \in Offsets /\ l * DescPerBlock + m = NGroup - 1
  BY DivMod, NGroup - 1 \in Nat DEF Offsets
<1>3. TableBlock(g) = b /\ TableOffset(g) = o /\ TableBlocks = 0 .. l
  BY DEF TableBlock, TableOffset, TableBlocks
<1> HIDE DEF b, o, l, m
<1>4. b <= l
  <2> SUFFICES ASSUME l < b PROVE FALSE
    BY <1>1, <1>2
  <2>1. l * DescPerBlock + m < b * DescPerBlock + o
    BY <1>1, <1>2, GroupsAscend DEF Offsets
  <2> QED
    BY <1>1, <1>2, <2>1
<1>5. ASSUME NEW c \in TableBlocks, NEW p \in Offsets, c * DescPerBlock + p = g
      PROVE  c = b /\ p = o
  <2>1. c \in Nat
    BY <1>2, <1>3
  <2> QED
    BY <1>1, <1>5, <2>1, DivModUnique DEF Offsets
<1>6. \A c \in TableBlocks, p \in Offsets :
         c * DescPerBlock + p = g <=> c = b /\ p = o
  BY <1>1, <1>5
<1>7. b \in TableBlocks
  BY <1>1, <1>2, <1>3, <1>4
<1> QED
  BY <1>1, <1>3, <1>6, <1>7

-----------------------------------------------------------------------------
(***************************************************************************)
(* The inductive invariant.  What a call needs beyond the agreement of the *)
(* records: no unit handed out is one mkfs reserved, or freeing it would   *)
(* clear the bit of metadata; and the table blocks hold a count at every   *)
(* place.                                                                  *)
(***************************************************************************)
AllocIInv ==
    /\ AllocTypeOK
    /\ RecordsAgree
    /\ owned \cap Reserved = {}
    /\ gdt \in [TableBlocks -> [Offsets -> Nat]]

FreeUnits == Unit \ (Reserved \cup owned)

LEMMA BitsFinite ==
    ASSUME NEW g \in Group, NEW T \in SUBSET (0 .. (Size(g) - 1))
    PROVE  /\ IsFiniteSet(T)
           /\ Cardinality(T) \in 0 .. PerGroup
           /\ T \subseteq Bit
<1> USE PerGroupAssumption
<1>1. Size(g) \in 1 .. PerGroup
  BY SizeOfGroup
<1>2. IsFiniteSet(0 .. (Size(g) - 1)) /\ Cardinality(0 .. (Size(g) - 1)) = Size(g)
  BY <1>1, FS_Interval
<1>3. IsFiniteSet(T) /\ Cardinality(T) <= Size(g)
  BY <1>2, FS_Subset
<1>4. Cardinality(T) \in Nat
  BY <1>3, FS_CardinalityType
<1>5. T \subseteq Bit
  BY <1>1 DEF Bit
<1> QED
  BY <1>1, <1>3, <1>4, <1>5

LEMMA UnitsFinite ==
    ASSUME NEW T \in SUBSET Unit
    PROVE  IsFiniteSet(T) /\ Cardinality(T) \in 0 .. (End - First)
<1> USE FirstAssumption, NGroupAssumption
<1>1. Base(0) \in Nat /\ Base(0) >= First /\ Base(0) < End
  BY SizeOfGroup DEF Group
<1>2. IsFiniteSet(Unit) /\ Cardinality(Unit) = End - First
  <2>1. First \in Int /\ End - 1 \in Int /\ ~(First > End - 1)
    BY <1>1
  <2>2. IsFiniteSet(First .. (End - 1))
        /\ Cardinality(First .. (End - 1)) = (End - 1) - First + 1
    BY <2>1, FS_Interval
  <2> QED
    BY <2>2 DEF Unit
<1>3. IsFiniteSet(T) /\ Cardinality(T) <= End - First
  BY <1>2, FS_Subset
<1> QED
  BY <1>1, <1>3, FS_CardinalityType

\* A group can serve a call exactly if one of its units is free.
LEMMA UsableIff ==
    ASSUME AllocIInv, NEW g \in Group
    PROVE  Usable(g) <=> Zeros(g) # {}
<1>1. Zeros(g) \in SUBSET (0 .. (Size(g) - 1))
  BY DEF Zeros
<1>2. gbTable[g] = Cardinality(Zeros(g))
  BY DEF AllocIInv, RecordsAgree, CountsMatchBitmap
<1>3. Cardinality(Zeros(g)) = 0 <=> Zeros(g) = {}
  BY <1>1, BitsFinite, FS_EmptySet
<1> QED
  BY <1>2, <1>3 DEF Usable

\* The zero bits are the free units.
LEMMA ZeroIsFree ==
    ASSUME AllocIInv, NEW g \in Group, NEW k \in Zeros(g)
    PROVE  /\ k \in 0 .. (Size(g) - 1) /\ k \in Bit /\ k \notin bitmap[g]
           /\ Base(g) + k \in FreeUnits
<1>1. k \in 0 .. (Size(g) - 1) /\ k \notin bitmap[g]
  BY DEF Zeros
<1>2. Base(g) + k \in Unit /\ k \in Bit
  BY <1>1, UnitOfBit
<1> QED
  BY <1>1, <1>2 DEF AllocIInv, RecordsAgree, BitmapMatchesOwners, FreeUnits

LEMMA FreeIsZero ==
    ASSUME AllocIInv, NEW u \in FreeUnits
    PROVE  GroupOf(u) \in Group /\ BitOf(u) \in Zeros(GroupOf(u))
<1>1. u \in Unit /\ u \notin Reserved \cup owned
  BY DEF FreeUnits
<1>2. /\ GroupOf(u) \in Group /\ BitOf(u) \in Bit
      /\ BitOf(u) < Size(GroupOf(u))
      /\ Base(GroupOf(u)) + BitOf(u) = u
  BY <1>1, BitOfUnit
<1>3. Size(GroupOf(u)) \in 1 .. PerGroup
  BY <1>2, SizeOfGroup
<1>4. BitOf(u) \notin bitmap[GroupOf(u)]
  BY <1>1, <1>2, <1>3, PerGroupAssumption
     DEF AllocIInv, RecordsAgree, BitmapMatchesOwners, Bit
<1> QED
  BY <1>2, <1>3, <1>4, PerGroupAssumption DEF Zeros, Bit

-----------------------------------------------------------------------------
(***************************************************************************)
(* Accounting: if a call changes the number of zero bits of its group by d *)
(* and no other group, the copies of the counts agree again after it.      *)
(***************************************************************************)
LEMMA AccountInv ==
    ASSUME AllocIInv, NEW g \in Group, NEW d \in {-1, 1}, Account(g, d),
           \A h \in Group : Cardinality(Zeros(h)') = IF h = g THEN Cardinality(Zeros(g)) + d
                                                    ELSE Cardinality(Zeros(h))
    PROVE  /\ gbTable' \in [Group -> 0 .. PerGroup]
           /\ \A h \in Group : gbTable'[h] = Cardinality(Zeros(h)')
           /\ gdt' \in [TableBlocks -> [Offsets -> Nat]]
           /\ \A b \in DOMAIN gdt' : \A o \in DOMAIN gdt'[b] :
                 gdt'[b][o] = IF b * DescPerBlock + o \in Group
                              THEN gbTable'[b * DescPerBlock + o] ELSE 0
<1>1. \A h \in Group : Cardinality(Zeros(h)') \in 0 .. PerGroup
  <2> TAKE h \in Group
  <2>1. Zeros(h)' \in SUBSET (0 .. (Size(h) - 1))
    BY DEF Zeros
  <2> QED
    BY <2>1, BitsFinite
<1>2. /\ gbTable \in [Group -> 0 .. PerGroup]
      /\ \A h \in Group : gbTable[h] = Cardinality(Zeros(h))
      /\ gbTable' = [gbTable EXCEPT ![g] = @ + d]
  BY DEF AllocIInv, AllocTypeOK, RecordsAgree, CountsMatchBitmap, Account
<1>3. \A h \in Group : gbTable'[h] = Cardinality(Zeros(h)')
  BY <1>2
<1>4. gbTable' \in [Group -> 0 .. PerGroup]
  BY <1>1, <1>2, <1>3
<1> DEFINE B == TableBlock(g)
           O == TableOffset(g)
<1>5. B \in TableBlocks /\ O \in Offsets
      /\ \A b \in TableBlocks, o \in Offsets :
            b * DescPerBlock + o = g <=> b = B /\ o = O
  BY PlaceOfDescriptor
<1>6. gdt' = [gdt EXCEPT ![B][O] = gbTable'[g]]
  BY DEF Account
<1> HIDE DEF B, O
<1>7. gdt \in [TableBlocks -> [Offsets -> Nat]]
  BY DEF AllocIInv
<1>8. gbTable'[g] \in Nat
  BY <1>4, PerGroupAssumption
<1>9. gdt' \in [TableBlocks -> [Offsets -> Nat]]
  BY <1>5, <1>6, <1>7, <1>8
<1>10. ASSUME NEW b \in TableBlocks, NEW o \in Offsets
       PROVE  gdt'[b][o] = IF b * DescPerBlock + o \in Group
                           THEN gbTable'[b * DescPerBlock + o] ELSE 0
  <2>1. CASE b = B /\ o = O
    BY <1>5, <1>6, <1>7, <2>1
  <2>2. CASE ~(b = B /\ o = O)
    <3>1. b * DescPerBlock + o # g
      BY <1>5, <2>2
    <3>2. gdt'[b][o] = gdt[b][o]
      BY <1>5, <1>6, <1>7, <2>2
    <3>3. gdt[b][o] = IF b * DescPerBlock + o \in Group
                      THEN gbTable[b * DescPerBlock + o] ELSE 0
      BY <1>7 DEF AllocIInv, RecordsAgree, CountsMatchBitmap
    <3> QED
      BY <1>2, <3>1, <3>2, <3>3
  <2> QED
    BY <2>1, <2>2
<1>11. DOMAIN gdt' = TableBlocks /\ \A b \in TableBlocks : DOMAIN gdt'[b] = Offsets
  BY <1>9
<1> QED
  BY <1>3, <1>4, <1>9, <1>10, <1>11

-----------------------------------------------------------------------------
(***************************************************************************)
(* The steps                                                               *)
(***************************************************************************)
LEMMA AllocInitInv == AllocInit => AllocIInv
<1> SUFFICES ASSUME AllocInit PROVE AllocIInv
  OBVIOUS
<1> USE FirstAssumption, PerGroupAssumption, NGroupAssumption, DescAssumption
<1>1. \A g \in Group : /\ gbTable[g] = Cardinality(Zeros(g))
                       /\ Cardinality(Zeros(g)) \in 0 .. PerGroup
  <2> TAKE g \in Group
  <2>1. Zeros(g) \in SUBSET (0 .. (Size(g) - 1))
    BY DEF Zeros
  <2> QED
    BY <2>1, BitsFinite DEF AllocInit
<1>2. sbFree = Cardinality(Unit \ Reserved) /\ sbFree \in 0 .. (End - First)
  <2>1. Unit \ Reserved \in SUBSET Unit
    OBVIOUS
  <2> QED
    BY <2>1, UnitsFinite DEF AllocInit
<1>3. AllocTypeOK
  <2>1. bitmap \in [Group -> SUBSET Bit]
    BY DEF AllocInit
  <2>2. gbTable \in [Group -> 0 .. PerGroup]
    BY <1>1 DEF AllocInit
  <2>3. result \in [op : {"none", "alloc", "free"}, unit : Nat]
    BY DEF AllocInit, NoUnit
  <2> QED
    BY <1>2, <2>1, <2>2, <2>3 DEF AllocTypeOK, AllocInit
<1>4. /\ gdt \in [TableBlocks -> [Offsets -> Nat]]
      /\ \A b \in TableBlocks, o \in Offsets :
            gdt[b][o] = IF b * DescPerBlock + o \in Group
                        THEN gbTable[b * DescPerBlock + o] ELSE 0
  <2>1. gdt = [b \in TableBlocks |-> [o \in Offsets |->
                 IF b * DescPerBlock + o \in Group THEN gbTable[b * DescPerBlock + o] ELSE 0]]
    BY DEF AllocInit, TableBlocks, Offsets
  <2>2. \A g \in Group : gbTable[g] \in Nat
    BY <1>1
  <2> QED
    BY <2>1, <2>2
<1>5. CountsMatchBitmap
  <2>1. Reserved \cup owned = Reserved
    BY DEF AllocInit
  <2>2. DOMAIN gdt = TableBlocks /\ \A b \in TableBlocks : DOMAIN gdt[b] = Offsets
    BY <1>4
  <2> QED
    BY <1>1, <1>2, <1>4, <2>1, <2>2 DEF CountsMatchBitmap
<1>6. BitmapMatchesOwners
  BY DEF AllocInit, BitmapMatchesOwners
<1> QED
  BY <1>3, <1>4, <1>5, <1>6 DEF AllocIInv, RecordsAgree, AllocInit

\* A bit that was zero is set, and its unit handed out.
LEMMA AllocPreserves ==
    ASSUME AllocIInv, NEW g \in Group, NEW k \in Bit, Alloc(g, k)
    PROVE  AllocIInv'
<1> DEFINE u == Base(g) + k
<1> USE FirstAssumption, PerGroupAssumption, NGroupAssumption
<1>1. /\ k \in Zeros(g) /\ k \notin bitmap[g] /\ k \in 0 .. (Size(g) - 1)
      /\ u \in FreeUnits
  BY ZeroIsFree DEF Alloc
<1>2. /\ bitmap \in [Group -> SUBSET Bit]
      /\ bitmap' = [bitmap EXCEPT ![g] = @ \cup {k}]
      /\ Account(g, -1)
      /\ owned' = owned \cup {u}
      /\ result' = [op |-> "alloc", unit |-> u]
  BY DEF Alloc, Mark, AllocIInv, AllocTypeOK
<1>3. u \in Unit /\ u \notin Reserved /\ u \notin owned /\ u \in Nat
  BY <1>1 DEF FreeUnits, Unit
<1>4. \A h \in Group : Zeros(h)' = IF h = g THEN Zeros(g) \ {k} ELSE Zeros(h)
  BY <1>2 DEF Zeros
<1>5. \A h \in Group : Cardinality(Zeros(h)') = IF h = g THEN Cardinality(Zeros(g)) + (-1)
                                                ELSE Cardinality(Zeros(h))
  <2>1. Zeros(g) \in SUBSET (0 .. (Size(g) - 1))
    BY DEF Zeros
  <2>2. Cardinality(Zeros(g) \ {k}) = Cardinality(Zeros(g)) - 1
    BY <1>1, <2>1, BitsFinite, FS_RemoveElement
  <2>3. Cardinality(Zeros(g)) \in Nat
    BY <2>1, BitsFinite, FS_CardinalityType
  <2> QED
    BY <1>4, <2>2, <2>3
<1>6. /\ gbTable' \in [Group -> 0 .. PerGroup]
      /\ \A h \in Group : gbTable'[h] = Cardinality(Zeros(h)')
      /\ gdt' \in [TableBlocks -> [Offsets -> Nat]]
      /\ \A b \in DOMAIN gdt' : \A o \in DOMAIN gdt'[b] :
            gdt'[b][o] = IF b * DescPerBlock + o \in Group
                         THEN gbTable'[b * DescPerBlock + o] ELSE 0
  BY <1>2, <1>5, AccountInv, -1 \in {-1, 1}
<1>7. FreeUnits' = FreeUnits \ {u}
  BY <1>2 DEF FreeUnits
<1>8. sbFree' = Cardinality(FreeUnits') /\ sbFree' \in 0 .. (End - First)
  <2>1. FreeUnits \in SUBSET Unit /\ FreeUnits' \in SUBSET Unit
    BY <1>7 DEF FreeUnits
  <2>2. Cardinality(FreeUnits \ {u}) = Cardinality(FreeUnits) - 1
    BY <1>1, <2>1, UnitsFinite, FS_RemoveElement
  <2>3. sbFree' = sbFree + (-1) /\ sbFree = Cardinality(FreeUnits)
    BY <1>2 DEF Account, AllocIInv, RecordsAgree, CountsMatchBitmap, FreeUnits
  <2>4. Cardinality(FreeUnits') \in 0 .. (End - First) /\ sbFree \in 0 .. (End - First)
    BY <2>1, UnitsFinite DEF AllocIInv, AllocTypeOK
  <2> QED
    BY <1>7, <2>2, <2>3, <2>4
<1>9. AllocTypeOK'
  BY <1>2, <1>3, <1>6, <1>8 DEF AllocIInv, AllocTypeOK
<1>10. BitmapMatchesOwners'
  <2> SUFFICES ASSUME NEW h \in Group, NEW j \in Bit
               PROVE  j \in bitmap'[h] <=>
                         j >= Size(h) \/ Base(h) + j \in Reserved \cup owned \cup {u}
    BY <1>2 DEF BitmapMatchesOwners
  <2>1. j \in bitmap[h] <=> j >= Size(h) \/ Base(h) + j \in Reserved \cup owned
    BY DEF AllocIInv, RecordsAgree, BitmapMatchesOwners
  <2>2. Base(h) + j = u <=> h = g /\ j = k
    BY UnitUnique
  <2>3. j \in bitmap'[h] <=> j \in bitmap[h] \/ (h = g /\ j = k)
    BY <1>2
  <2> QED
    BY <2>1, <2>2, <2>3
<1>11. CountsMatchBitmap'
  BY <1>6, <1>8 DEF CountsMatchBitmap, FreeUnits
<1> QED
  BY <1>2, <1>3, <1>6, <1>9, <1>10, <1>11 DEF AllocIInv, RecordsAgree

\* The bit of a unit that was handed out is cleared.
LEMMA FreePreserves ==
    ASSUME AllocIInv, NEW u \in owned, Free(u)
    PROVE  AllocIInv'
<1> DEFINE g == GroupOf(u)
           k == BitOf(u)
<1> USE FirstAssumption, PerGroupAssumption, NGroupAssumption
<1>1. u \in Unit /\ u \in Nat /\ u \notin Reserved
  BY DEF AllocIInv, AllocTypeOK, Unit
<1>2. g \in Group /\ k \in Bit /\ k < Size(g) /\ Base(g) + k = u
  BY <1>1, BitOfUnit
<1>3. /\ bitmap \in [Group -> SUBSET Bit]
      /\ bitmap' = [bitmap EXCEPT ![g] = @ \ {k}]
      /\ Account(g, 1)
      /\ owned' = owned \ {u}
      /\ result' = [op |-> "free", unit |-> u]
  BY DEF Free, AllocIInv, AllocTypeOK
<1> HIDE DEF g, k
<1>4. Size(g) \in 1 .. PerGroup
  BY <1>2, SizeOfGroup
<1>5. k \in 0 .. (Size(g) - 1) /\ k \in bitmap[g]
  BY <1>2, <1>4 DEF AllocIInv, RecordsAgree, BitmapMatchesOwners, Bit
<1>6. \A h \in Group : Zeros(h)' = IF h = g THEN Zeros(g) \cup {k} ELSE Zeros(h)
  BY <1>2, <1>3, <1>5 DEF Zeros
<1>7. \A h \in Group : Cardinality(Zeros(h)') = IF h = g THEN Cardinality(Zeros(g)) + 1
                                                ELSE Cardinality(Zeros(h))
  <2>1. Zeros(g) \in SUBSET (0 .. (Size(g) - 1)) /\ k \notin Zeros(g)
    BY <1>5 DEF Zeros
  <2>2. Cardinality(Zeros(g) \cup {k}) = Cardinality(Zeros(g)) + 1
    BY <1>2, <2>1, BitsFinite, FS_AddElement
  <2> QED
    BY <1>6, <2>2
<1>8. /\ gbTable' \in [Group -> 0 .. PerGroup]
      /\ \A h \in Group : gbTable'[h] = Cardinality(Zeros(h)')
      /\ gdt' \in [TableBlocks -> [Offsets -> Nat]]
      /\ \A b \in DOMAIN gdt' : \A o \in DOMAIN gdt'[b] :
            gdt'[b][o] = IF b * DescPerBlock + o \in Group
                         THEN gbTable'[b * DescPerBlock + o] ELSE 0
  BY <1>2, <1>3, <1>7, AccountInv, 1 \in {-1, 1}
<1>9. FreeUnits' = FreeUnits \cup {u} /\ u \notin FreeUnits
  BY <1>1, <1>3 DEF FreeUnits
<1>10. sbFree' = Cardinality(FreeUnits') /\ sbFree' \in 0 .. (End - First)
  <2>1. FreeUnits \in SUBSET Unit /\ FreeUnits' \in SUBSET Unit
    BY <1>1, <1>9 DEF FreeUnits
  <2>2. Cardinality(FreeUnits \cup {u}) = Cardinality(FreeUnits) + 1
    BY <1>9, <2>1, UnitsFinite, FS_AddElement
  <2>3. sbFree' = sbFree + 1 /\ sbFree = Cardinality(FreeUnits)
    BY <1>3 DEF Account, AllocIInv, RecordsAgree, CountsMatchBitmap, FreeUnits
  <2>4. Cardinality(FreeUnits') \in 0 .. (End - First)
    BY <2>1, UnitsFinite
  <2> QED
    BY <1>9, <2>2, <2>3, <2>4
<1>11. AllocTypeOK'
  BY <1>1, <1>3, <1>8, <1>10 DEF AllocIInv, AllocTypeOK
<1>12. BitmapMatchesOwners'
  <2> SUFFICES ASSUME NEW h \in Group, NEW j \in Bit
               PROVE  j \in bitmap'[h] <=>
                         j >= Size(h) \/ Base(h) + j \in Reserved \cup (owned \ {u})
    BY <1>3 DEF BitmapMatchesOwners
  <2>1. j \in bitmap[h] <=> j >= Size(h) \/ Base(h) + j \in Reserved \cup owned
    BY DEF AllocIInv, RecordsAgree, BitmapMatchesOwners
  <2>2. Base(h) + j = u <=> h = g /\ j = k
    BY <1>2, UnitUnique
  <2>3. j \in bitmap'[h] <=> j \in bitmap[h] /\ ~(h = g /\ j = k)
    BY <1>2, <1>3
  <2>4. h = g /\ j = k => ~(j >= Size(h))
    BY <1>4, <1>5
  <2> QED
    BY <1>1, <2>1, <2>2, <2>3, <2>4
<1>13. CountsMatchBitmap'
  BY <1>8, <1>10 DEF CountsMatchBitmap, FreeUnits
<1> QED
  BY <1>3, <1>8, <1>11, <1>12, <1>13 DEF AllocIInv, RecordsAgree

\* Failing and ignored calls change nothing but the call's result.
LEMMA RefusedPreserves ==
    ASSUME AllocIInv, UNCHANGED <<bitmap, gbTable, gdt, sbFree, owned>>,
           result' \in [op : {"none", "alloc", "free"}, unit : Nat]
    PROVE  AllocIInv'
<1>1. AllocTypeOK'
  BY DEF AllocIInv, AllocTypeOK
<1>2. RecordsAgree'
  BY DEF AllocIInv, RecordsAgree, CountsMatchBitmap, BitmapMatchesOwners, Zeros
<1> QED
  BY <1>1, <1>2 DEF AllocIInv

LEMMA AllocStepInv == AllocIInv /\ [AllocNext]_allocVars => AllocIInv'
<1> SUFFICES ASSUME AllocIInv, [AllocNext]_allocVars PROVE AllocIInv'
  OBVIOUS
<1>1. ASSUME NEW g \in Group, NEW k \in Bit, Alloc(g, k)
      PROVE  AllocIInv'
  BY <1>1, AllocPreserves
<1>2. CASE AllocFails
  BY <1>2, RefusedPreserves DEF AllocFails, counts, NoUnit
<1>3. ASSUME NEW u \in owned, Free(u)
      PROVE  AllocIInv'
  BY <1>3, FreePreserves
<1>4. ASSUME NEW u \in {NoUnit, Base(NGroup)}, FreeIgnored(u)
      PROVE  AllocIInv'
  <2>1. u \in Nat
    BY FirstAssumption, PerGroupAssumption, NGroupAssumption DEF NoUnit, Base
  <2> QED
    BY <1>4, <2>1, RefusedPreserves DEF FreeIgnored, counts
<1>5. CASE UNCHANGED allocVars
  BY <1>5, RefusedPreserves DEF allocVars, counts, AllocIInv, AllocTypeOK
<1> QED
  BY <1>1, <1>2, <1>3, <1>4, <1>5 DEF AllocNext

LEMMA AllocInvariance == AllocSpec => []AllocIInv
BY AllocInitInv, AllocStepInv, PTL DEF AllocSpec

-----------------------------------------------------------------------------
(***************************************************************************)
(* The theorems                                                            *)
(***************************************************************************)
\* The type invariant: no count of ext2_alloc_block, ext2_alloc_inode and their
\* frees goes below zero or above the size of a group.
THEOREM AllocTypeCorrect == AllocSpec => []AllocTypeOK
<1>1. AllocIInv => AllocTypeOK
  BY DEF AllocIInv
<1> QED
  BY <1>1, AllocInvariance, PTL

\* The bitmaps, both tables of group counts, the superblock's sum and what has been
\* handed out agree after every sequence of calls.
THEOREM RecordsStayInAgreement == AllocSpec => []RecordsAgree
<1>1. AllocIInv => RecordsAgree
  BY DEF AllocIInv
<1> QED
  BY <1>1, AllocInvariance, PTL

\* A scan that takes the first group it can use, and the first clear bit there, finds
\* the lowest free number.
LEMMA FirstFree ==
    ASSUME AllocIInv, NEW g \in Group, NEW k \in Bit, Alloc(g, k), NEW u \in FreeUnits
    PROVE  Base(g) + k <= u
<1> USE FirstAssumption, PerGroupAssumption, NGroupAssumption
<1> DEFINE h == GroupOf(u)
           j == BitOf(u)
<1>1. h \in Group /\ j \in Zeros(h) /\ j \in Bit /\ Base(h) + j = u
  <2>1. u \in Unit
    BY DEF FreeUnits
  <2> QED
    BY <2>1, FreeIsZero, BitOfUnit
<1> HIDE DEF h, j
<1>2. Usable(h)
  BY <1>1, UsableIff
<1>3. ~(h < g)
  BY <1>1, <1>2 DEF Alloc
<1>4. Base(g) \in Nat /\ k \in Nat /\ j \in Nat /\ u \in Nat
  BY <1>1, SizeOfGroup DEF Bit, FreeUnits, Unit
<1>5. CASE h = g
  BY <1>1, <1>4, <1>5 DEF Alloc
<1>6. CASE g < h
  BY <1>1, <1>4, <1>6, UnitsAscend
<1> QED
  BY <1>1, <1>3, <1>5, <1>6 DEF Group

\* ext2_alloc_block and ext2_alloc_inode fail only on a full device, and otherwise
\* return the lowest free number.
THEOREM AllocatesLowest == AllocSpec => FirstFit
<1>1. AllocIInv /\ [AllocNext]_allocVars =>
         (result'.op = "alloc" /\ result' # result =>
             IF FreeUnits = {} THEN result'.unit = NoUnit
             ELSE result'.unit \in FreeUnits /\ \A u \in FreeUnits : result'.unit <= u)
  <2> SUFFICES ASSUME AllocIInv, AllocNext, result'.op = "alloc"
               PROVE  IF FreeUnits = {} THEN result'.unit = NoUnit
                      ELSE result'.unit \in FreeUnits /\ \A u \in FreeUnits : result'.unit <= u
    BY DEF allocVars
  <2>1. ASSUME NEW g \in Group, NEW k \in Bit, Alloc(g, k)
        PROVE  /\ result'.unit \in FreeUnits
               /\ \A u \in FreeUnits : result'.unit <= u
    <3>1. result'.unit = Base(g) + k /\ k \in Zeros(g)
      BY <2>1 DEF Alloc
    <3> QED
      BY <2>1, <3>1, FirstFree, ZeroIsFree
  <2>2. CASE AllocFails
    <3>1. \A g \in Group : Zeros(g) = {}
      BY <2>2, UsableIff DEF AllocFails
    <3>2. FreeUnits = {}
      BY <3>1, FreeIsZero
    <3> QED
      BY <2>2, <3>2 DEF AllocFails
  <2>3. ASSUME NEW u, Free(u) \/ FreeIgnored(u)
        PROVE  FALSE
    BY <2>3 DEF Free, FreeIgnored
  <2> QED
    BY <2>1, <2>2, <2>3 DEF AllocNext
<1> QED
  BY <1>1, AllocInvariance, PTL DEF AllocSpec, FirstFit, FreeUnits

-----------------------------------------------------------------------------
(***************************************************************************)
(* Ext2Dir: the least number, induction, and the first place.              *)
(***************************************************************************)
LEMMA LeastNumber ==
    ASSUME NEW S \in SUBSET Nat, S # {}
    PROVE  \E n \in S : \A k \in S : n <= k
<1> DEFINE R == OpToRel(<, Nat)
<1>1. IsWellFoundedOn(R, Nat)
  BY NatLessThanWellFounded
<1>2. \A x, y \in Nat : <<x, y>> \in R <=> x < y
  BY DEF OpToRel
<1> HIDE DEF R
<1>3. \E n \in S : \A k \in S : ~ (<<k, n>> \in R)
  BY <1>1, WFMin
<1>4. PICK n \in S : \A k \in S : ~ (<<k, n>> \in R)
  BY <1>3
<1>5. ASSUME NEW k \in S
      PROVE  n <= k
  <2>1. k \in Nat /\ n \in Nat
    OBVIOUS
  <2>2. ~ (k < n)
    BY <1>2, <1>4, <2>1
  <2> QED
    BY <2>1, <2>2
<1> QED
  BY <1>5

LEMMA Climb ==
    ASSUME NEW n \in Nat, NEW S, 0 \in S, \A i \in 1 .. n : i - 1 \in S => i \in S
    PROVE  \A i \in 0 .. n : i \in S
<1> DEFINE B == {i \in 0 .. n : i \notin S}
<1>1. CASE B = {}
  BY <1>1
<1>2. CASE B # {}
  <2>1. B \in SUBSET Nat
    OBVIOUS
  <2>2. PICK i \in B : \A k \in B : i <= k
    BY <1>2, <2>1, LeastNumber
  <2>3. i \in 0 .. n /\ i \notin S /\ i # 0
    BY <2>2
  <2>4. i \in 1 .. n /\ i - 1 \in 0 .. n /\ ~ (i <= i - 1)
    BY <2>3
  <2>5. i - 1 \in S
    BY <2>2, <2>4
  <2> QED
    BY <2>3, <2>4, <2>5
<1> QED
  BY <1>1, <1>2

LEMMA LowestIn ==
    ASSUME NEW S \in SUBSET Nat, S # {}
    PROVE  Lowest(S) \in S
<1>1. PICK n \in S : \A k \in S : n <= k
  BY LeastNumber
<1> QED
  BY <1>1 DEF Lowest

LEMMA FirstOfIn ==
    ASSUME NEW S \in SUBSET (Nat \X Nat), S # {}
    PROVE  FirstOf(S) \in S
<1> DEFINE A == {p[1] : p \in S}
<1>1. A \in SUBSET Nat /\ A # {}
  OBVIOUS
<1>2. PICK a \in A : \A c \in A : a <= c
  BY <1>1, LeastNumber
<1> DEFINE B == {p[2] : p \in {q \in S : q[1] = a}}
<1>3. B \in SUBSET Nat /\ B # {}
  BY <1>2
<1>4. PICK u \in B : \A c \in B : u <= c
  BY <1>3, LeastNumber
<1>5. PICK p \in S : p[1] = a /\ p[2] = u
  BY <1>4
<1>6. ASSUME NEW q \in S
      PROVE  p[1] < q[1] \/ (p[1] = q[1] /\ p[2] <= q[2])
  <2>1. a <= q[1] /\ a \in Nat /\ q[1] \in Nat
    BY <1>1, <1>2
  <2>2. CASE a = q[1]
    <3>1. q[2] \in B
      BY <2>2
    <3> QED
      BY <1>4, <1>5, <2>2, <3>1
  <2>3. CASE a # q[1]
    BY <1>5, <2>1, <2>3
  <2> QED
    BY <2>2, <2>3
<1>7. \E r \in S : \A q \in S : r[1] < q[1] \/ (r[1] = q[1] /\ r[2] <= q[2])
  BY <1>6
<1> QED
  BY <1>7 DEF FirstOf

-----------------------------------------------------------------------------
(***************************************************************************)
(* Chains of entries.                                                      *)
(***************************************************************************)
EntryType == [ino : Ino \cup {0}, name : AnyName, rec : 1 .. BS]
Chain == Seq(EntryType)

\* The entries of a block fill it, and each is long enough for its name.
Tiled(c) ==
    /\ Ends(c)[Len(c)] = BS
    /\ \A k \in 1 .. Len(c) : c[k].rec >= Needed[c[k].name]

LEMMA EntryIs ==
    ASSUME NEW e \in EntryType
    PROVE  /\ e.ino \in Ino \cup {0} /\ e.name \in AnyName /\ e.rec \in 1 .. BS
           /\ e.rec \in Nat /\ Needed[e.name] \in 1 .. BS /\ BS \in Nat
BY SizeAssumption, NameAssumption DEF EntryType

LEMMA NeededIs ==
    ASSUME NEW n \in AnyName
    PROVE  Needed[n] \in 1 .. BS /\ Needed[n] \in Nat /\ Needed[n] >= 1 /\ BS \in Nat /\ BS >= 1
<1>1. Needed[n] \in 1 .. BS /\ BS \in Nat
  BY SizeAssumption, NameAssumption
<1> QED
  BY <1>1

Summing(g, c, n) == g = [k \in 0 .. n |-> IF k = 0 THEN 0 ELSE g[k - 1] + c[k].rec]

LEMMA SumOn ==
    ASSUME NEW c, NEW n \in Nat \ {0}, NEW g, Summing(g, c, n - 1)
    PROVE  \E h : Summing(h, c, n)
<1>1. PICK h : h = [k \in 0 .. n |-> IF k = n THEN g[n - 1] + c[n].rec ELSE g[k]]
  OBVIOUS
<1>2. \A k \in 0 .. (n - 1) : g[k] = IF k = 0 THEN 0 ELSE g[k - 1] + c[k].rec
  BY DEF Summing
<1>3. \A k \in 0 .. n : h[k] = IF k = 0 THEN 0 ELSE h[k - 1] + c[k].rec
  <2>1. SUFFICES ASSUME NEW k \in 0 .. n
                 PROVE  h[k] = IF k = 0 THEN 0 ELSE h[k - 1] + c[k].rec
    OBVIOUS
  <2>2. \A j \in 0 .. (n - 1) : j \in 0 .. n /\ j # n /\ h[j] = g[j]
    BY <1>1
  <2>3. CASE k = n
    <3>1. n - 1 \in 0 .. (n - 1) /\ n # 0
      OBVIOUS
    <3>2. h[k] = g[n - 1] + c[n].rec /\ h[n - 1] = g[n - 1]
      BY <1>1, <2>2, <2>3, <3>1
    <3> QED
      BY <2>3, <3>1, <3>2
  <2>4. CASE k # n
    <3>1. k \in 0 .. (n - 1) /\ (k # 0 => k - 1 \in 0 .. (n - 1))
      BY <2>4
    <3> QED
      BY <1>2, <2>2, <3>1
  <2> QED
    BY <2>3, <2>4
<1>4. h = [k \in 0 .. n |-> IF k = 0 THEN 0 ELSE h[k - 1] + c[k].rec]
  BY <1>1, <1>3
<1> QED
  BY <1>4 DEF Summing

LEMMA EndsIs ==
    ASSUME NEW c, Len(c) \in Nat, NEW e, e = Ends(c)
    PROVE  e[0] = 0 /\ \A k \in 1 .. Len(c) : e[k] = e[k - 1] + c[k].rec
<1>1. PICK L : L = Len(c)
  OBVIOUS
<1>2. L \in Nat
  BY <1>1
<1> DEFINE S == {n \in 0 .. L : \E h : Summing(h, c, n)}
<1>3. 0 \in S
  <2>1. PICK h : h = [k \in 0 .. 0 |-> 0]
    OBVIOUS
  <2>2. h = [k \in 0 .. 0 |-> IF k = 0 THEN 0 ELSE h[k - 1] + c[k].rec]
    BY <2>1
  <2>3. Summing(h, c, 0)
    BY <2>2 DEF Summing
  <2>4. 0 \in 0 .. L
    BY <1>2
  <2> QED
    BY <2>3, <2>4
<1>4. \A n \in 1 .. L : n - 1 \in S => n \in S
  <2>1. SUFFICES ASSUME NEW n \in 1 .. L, n - 1 \in S
                 PROVE  n \in S
    OBVIOUS
  <2>2. PICK h : Summing(h, c, n - 1)
    BY <2>1
  <2>3. n \in Nat \ {0} /\ n \in 0 .. L
    BY <1>2
  <2>4. \E k : Summing(k, c, n)
    BY ONLY <2>2, <2>3, SumOn
  <2> QED
    BY <2>3, <2>4
<1>5. \A n \in 0 .. L : n \in S
  <2> HIDE DEF S
  <2> QED
    BY ONLY <1>2, <1>3, <1>4, Climb
<1>6. \E h : Summing(h, c, L)
  BY <1>2, <1>5
<1>7. e = [k \in 0 .. L |-> IF k = 0 THEN 0 ELSE e[k - 1] + c[k].rec]
  BY <1>1, <1>6 DEF Ends, Summing
<1>8. \A k \in 0 .. L : e[k] = IF k = 0 THEN 0 ELSE e[k - 1] + c[k].rec
  BY <1>7
<1>9. \A k \in 1 .. L : k \in 0 .. L /\ k # 0
  BY <1>2
<1> QED
  BY <1>1, <1>2, <1>8, <1>9

\* There is one way to add up a chain.
LEMMA EndsUnique ==
    ASSUME NEW c, NEW n \in Nat, Len(c) = n, NEW g,
           g[0] = 0, \A k \in 1 .. n : g[k] = g[k - 1] + c[k].rec
    PROVE  Ends(c)[n] = g[n]
<1>1. PICK e : e = Ends(c)
  OBVIOUS
<1>2. e[0] = 0 /\ \A k \in 1 .. n : e[k] = e[k - 1] + c[k].rec
  BY <1>1, EndsIs
<1> DEFINE S == {k \in 0 .. n : e[k] = g[k]}
<1>3. 0 \in S
  BY <1>2
<1>4. \A k \in 1 .. n : k - 1 \in S => k \in S
  BY <1>2
<1>5. \A k \in 0 .. n : k \in S
  <2> HIDE DEF S
  <2>1. n \in Nat
    OBVIOUS
  <2> QED
    BY ONLY <2>1, <1>3, <1>4, Climb
<1> QED
  BY <1>1, <1>5

\* Every entry takes room, so a block has at most BS of them.
LEMMA EndsAscend ==
    ASSUME NEW c \in Chain, NEW e, e = Ends(c)
    PROVE  /\ Len(c) \in Nat /\ \A k \in 1 .. Len(c) : c[k] \in EntryType /\ c[k].rec \in Nat \ {0}
           /\ e[0] = 0 /\ \A k \in 1 .. Len(c) : e[k] = e[k - 1] + c[k].rec
           /\ \A k \in 0 .. Len(c) : e[k] \in Nat /\ e[k] >= k
           /\ \A j, k \in 0 .. Len(c) : j <= k => e[j] <= e[k]
<1>1. PICK L : L = Len(c)
  OBVIOUS
<1>2. L \in Nat /\ \A k \in 1 .. L : c[k] \in EntryType
  BY <1>1 DEF Chain
<1>3. \A k \in 1 .. L : c[k].rec \in Nat \ {0}
  BY <1>2, EntryIs
<1>4. e[0] = 0 /\ \A k \in 1 .. L : e[k] = e[k - 1] + c[k].rec
  BY <1>1, <1>2, EndsIs
<1> DEFINE S == {k \in 0 .. L : e[k] \in Nat /\ e[k] >= k /\ \A j \in 0 .. k : e[j] \in Nat /\ e[j] <= e[k]}
<1>5. 0 \in S
  BY <1>2, <1>4
<1>6. \A k \in 1 .. L : k - 1 \in S => k \in S
  <2>1. SUFFICES ASSUME NEW k \in 1 .. L, k - 1 \in S
                 PROVE  k \in S
    OBVIOUS
  <2>2. PICK r \in Nat \ {0} : e[k] = e[k - 1] + r
    BY <1>3, <1>4
  <2>3. e[k - 1] \in Nat /\ e[k - 1] >= k - 1 /\ k \in 0 .. L
    BY <1>2, <2>1
  <2>4. e[k] \in Nat /\ e[k] >= k
    BY <2>2, <2>3
  <2>5. ASSUME NEW j \in 0 .. k
        PROVE  e[j] \in Nat /\ e[j] <= e[k]
    <3>1. CASE j = k
      BY <2>4, <3>1
    <3>2. CASE j # k
      <4>1. j \in 0 .. (k - 1)
        BY <3>2
      <4>2. e[j] \in Nat /\ e[j] <= e[k - 1]
        BY <2>1, <4>1
      <4> QED
        BY <2>2, <2>3, <4>2
    <3> QED
      BY <3>1, <3>2
  <2> QED
    BY <2>3, <2>4, <2>5
<1>7. \A k \in 0 .. L : k \in S
  <2> HIDE DEF S
  <2> QED
    BY ONLY <1>2, <1>5, <1>6, Climb
<1>8. ASSUME NEW j \in 0 .. L, NEW k \in 0 .. L, j <= k
      PROVE  e[j] <= e[k]
  <2>1. j \in 0 .. k
    BY <1>8
  <2> QED
    BY <1>7, <2>1
<1> QED
  BY <1>1, <1>2, <1>3, <1>4, <1>7, <1>8

LEMMA TiledLength ==
    ASSUME NEW c \in Chain, Tiled(c)
    PROVE  Len(c) \in 0 .. BS /\ (BS >= 1 => Len(c) >= 1)
<1>1. PICK e : e = Ends(c)
  OBVIOUS
<1>2. Len(c) \in Nat /\ e[0] = 0 /\ \A k \in 0 .. Len(c) : e[k] \in Nat /\ e[k] >= k
  BY <1>1, EndsAscend
<1>3. e[Len(c)] = BS
  BY <1>1 DEF Tiled
<1>4. Len(c) \in 0 .. Len(c) /\ BS \in Nat
  BY <1>2, SizeAssumption
<1> QED
  BY <1>2, <1>3, <1>4

-----------------------------------------------------------------------------
(***************************************************************************)
(* Splitting, merging and clearing entries.                                *)
(***************************************************************************)
LEMMA InsertAtIs ==
    ASSUME NEW T, NEW s \in Seq(T), NEW q \in 1 .. (Len(s) + 1), NEW x \in T,
           NEW t, t = InsertAt(s, q, x)
    PROVE  /\ t \in Seq(T) /\ Len(s) \in Nat /\ Len(t) = Len(s) + 1
           /\ \A k \in 1 .. (q - 1) : t[k] = s[k]
           /\ t[q] = x
           /\ \A k \in q .. Len(s) : t[k + 1] = s[k]
<1> DEFINE u == SubSeq(s, 1, q - 1)
           v == SubSeq(s, q, Len(s))
           w == u \o <<x>>
<1>1. Len(s) \in Nat /\ \A k \in 1 .. Len(s) : s[k] \in T
  BY LenProperties, ElementOfSeq
<1>2. u \in Seq(T) /\ Len(u) = q - 1 /\ \A k \in 1 .. (q - 1) : u[k] = s[k]
  <2>1. \A k \in 1 .. (q - 1) : s[k] \in T
    BY <1>1
  <2> QED
    BY <1>1, <2>1, SubSeqProperties
<1>3. v \in Seq(T) /\ Len(v) = Len(s) - q + 1 /\ \A k \in 1 .. (Len(s) - q + 1) : v[k] = s[q + k - 1]
  <2>1. \A k \in q .. Len(s) : s[k] \in T
    BY <1>1
  <2> QED
    BY <1>1, <2>1, SubSeqProperties
<1>4. <<x>> \in Seq(T) /\ Len(<<x>>) = 1 /\ <<x>>[1] = x
  OBVIOUS
<1> HIDE DEF u, v
<1>5. /\ w \in Seq(T) /\ Len(w) = q
      /\ \A k \in 1 .. q : w[k] = IF k <= q - 1 THEN u[k] ELSE <<x>>[k - (q - 1)]
  <2>1. w \in Seq(T) /\ Len(w) = Len(u) + Len(<<x>>)
        /\ \A k \in 1 .. (Len(u) + Len(<<x>>)) : w[k] = IF k <= Len(u) THEN u[k] ELSE <<x>>[k - Len(u)]
    BY <1>2, <1>4, ConcatProperties
  <2>2. Len(u) + Len(<<x>>) = q
    BY <1>1, <1>2, <1>4
  <2> QED
    BY <1>2, <2>1, <2>2
<1> HIDE DEF w
<1>6. t = w \o v
  BY DEF InsertAt, u, v, w
<1>7. /\ t \in Seq(T) /\ Len(t) = Len(w) + Len(v)
      /\ \A k \in 1 .. (Len(w) + Len(v)) : t[k] = IF k <= Len(w) THEN w[k] ELSE v[k - Len(w)]
  <2>1. PICK r : r = w \o v
    OBVIOUS
  <2>2. /\ r \in Seq(T) /\ Len(r) = Len(w) + Len(v)
        /\ \A k \in 1 .. (Len(w) + Len(v)) : r[k] = IF k <= Len(w) THEN w[k] ELSE v[k - Len(w)]
    BY <1>3, <1>5, <2>1, ConcatProperties
  <2> QED
    BY <2>1, <2>2, <1>6
<1>8. Len(t) = Len(s) + 1
  BY <1>1, <1>3, <1>5, <1>7
<1>9. \A k \in 1 .. (Len(s) + 1) : t[k] = IF k <= q THEN w[k] ELSE v[k - q]
  BY <1>1, <1>3, <1>5, <1>7, <1>8
<1>10. ASSUME NEW k \in 1 .. (q - 1)
       PROVE  t[k] = s[k]
  <2>1. k \in 1 .. q /\ k <= q - 1 /\ k \in 1 .. (Len(s) + 1)
    BY <1>1
  <2> QED
    BY <1>2, <1>5, <1>9, <2>1
<1>11. t[q] = x
  <2>1. q \in 1 .. q /\ ~ (q <= q - 1) /\ q - (q - 1) = 1
    BY <1>1
  <2> QED
    BY <1>4, <1>5, <1>9, <2>1
<1>12. ASSUME NEW k \in q .. Len(s)
       PROVE  t[k + 1] = s[k]
  <2>1. k + 1 \in 1 .. (Len(s) + 1) /\ ~ (k + 1 <= q) /\ (k + 1) - q \in 1 .. (Len(s) - q + 1)
        /\ q + ((k + 1) - q) - 1 = k
    BY <1>1
  <2> QED
    BY <1>3, <1>9, <2>1
<1> QED
  BY <1>1, <1>7, <1>8, <1>10, <1>11, <1>12

LEMMA RemoveAtIs ==
    ASSUME NEW T, NEW s \in Seq(T), NEW q \in 1 .. Len(s), NEW t, t = RemoveAt(s, q)
    PROVE  /\ t \in Seq(T) /\ Len(s) \in Nat /\ Len(t) = Len(s) - 1
           /\ \A k \in 1 .. (q - 1) : t[k] = s[k]
           /\ \A k \in q .. (Len(s) - 1) : t[k] = s[k + 1]
<1> DEFINE u == SubSeq(s, 1, q - 1)
           v == SubSeq(s, q + 1, Len(s))
<1>1. Len(s) \in Nat /\ \A k \in 1 .. Len(s) : s[k] \in T
  BY LenProperties, ElementOfSeq
<1>2. u \in Seq(T) /\ Len(u) = q - 1 /\ \A k \in 1 .. (q - 1) : u[k] = s[k]
  <2>1. \A k \in 1 .. (q - 1) : s[k] \in T
    BY <1>1
  <2> QED
    BY <1>1, <2>1, SubSeqProperties
<1>3. v \in Seq(T) /\ Len(v) = Len(s) - q /\ \A k \in 1 .. (Len(s) - q) : v[k] = s[q + k]
  <2>1. \A k \in (q + 1) .. Len(s) : s[k] \in T
    BY <1>1
  <2> QED
    BY <1>1, <2>1, SubSeqProperties
<1> HIDE DEF u, v
<1>4. t = u \o v
  BY DEF RemoveAt, u, v
<1>5. /\ t \in Seq(T) /\ Len(t) = Len(u) + Len(v)
      /\ \A k \in 1 .. (Len(u) + Len(v)) : t[k] = IF k <= Len(u) THEN u[k] ELSE v[k - Len(u)]
  <2>1. PICK r : r = u \o v
    OBVIOUS
  <2>2. /\ r \in Seq(T) /\ Len(r) = Len(u) + Len(v)
        /\ \A k \in 1 .. (Len(u) + Len(v)) : r[k] = IF k <= Len(u) THEN u[k] ELSE v[k - Len(u)]
    BY <1>2, <1>3, <2>1, ConcatProperties
  <2> QED
    BY <2>1, <2>2, <1>4
<1>6. Len(t) = Len(s) - 1
  BY <1>1, <1>2, <1>3, <1>5
<1>7. \A k \in 1 .. (Len(s) - 1) : t[k] = IF k <= q - 1 THEN u[k] ELSE v[k - (q - 1)]
  BY <1>1, <1>2, <1>3, <1>5, <1>6
<1>8. ASSUME NEW k \in 1 .. (q - 1)
      PROVE  t[k] = s[k]
  <2>1. k \in 1 .. (Len(s) - 1) /\ k <= q - 1
    BY <1>1
  <2> QED
    BY <1>2, <1>7, <2>1
<1>9. ASSUME NEW k \in q .. (Len(s) - 1)
      PROVE  t[k] = s[k + 1]
  <2>1. k \in 1 .. (Len(s) - 1) /\ ~ (k <= q - 1) /\ k - (q - 1) \in 1 .. (Len(s) - q)
        /\ q + (k - (q - 1)) = k + 1
    BY <1>1
  <2> QED
    BY <1>3, <1>7, <2>1
<1> QED
  BY <1>1, <1>5, <1>6, <1>8, <1>9

\* Chain f has one entry more than chain c, behind the q-th.
Longer(c, f, q) ==
    /\ q \in 0 .. Len(c) /\ Len(f) = Len(c) + 1
    /\ \A k \in 1 .. q : f[k].ino = c[k].ino /\ f[k].name = c[k].name
    /\ \A k \in (q + 1) .. Len(c) : f[k + 1].ino = c[k].ino /\ f[k + 1].name = c[k].name

\* What ext2_dir_add_entry makes of the chain when it finds slack behind entry q.
LEMMA SplitTiled ==
    ASSUME NEW c \in Chain, Tiled(c), NEW q \in 1 .. Len(c), NEW n \in AnyName, NEW i \in Ino,
           Slack(c[q]) >= Needed[n],
           NEW f, f = InsertAt([c EXCEPT ![q].rec = c[q].rec - Slack(c[q])], q + 1, Entry(i, n, Slack(c[q])))
    PROVE  f \in Chain /\ Tiled(f) /\ Longer(c, f, q) /\ f[q + 1].ino = i /\ f[q + 1].name = n
<1>1. PICK e : e = Ends(c)
  OBVIOUS
<1>2. /\ Len(c) \in Nat /\ \A k \in 1 .. Len(c) : c[k] \in EntryType /\ c[k].rec \in Nat \ {0}
      /\ e[0] = 0 /\ \A k \in 1 .. Len(c) : e[k] = e[k - 1] + c[k].rec
      /\ \A k \in 0 .. Len(c) : e[k] \in Nat
  BY <1>1, EndsAscend
<1>3. PICK L : L = Len(c)
  OBVIOUS
<1>4. L \in Nat /\ q \in 1 .. L
  BY <1>2, <1>3
<1>5. PICK a : a = c[q].name
  OBVIOUS
<1>6. c[q].ino \in Ino \cup {0} /\ a \in AnyName /\ c[q].rec \in 1 .. BS
  BY <1>2, <1>5, EntryIs
<1>7. PICK u \in Nat : u = Needed[a]
  BY <1>6, NeededIs
<1>8. PICK r \in Nat : r = c[q].rec
  BY <1>6, NeededIs
<1>9. PICK v \in Nat : v = Needed[n]
  BY NeededIs
<1>10. u >= 1 /\ v >= 1 /\ BS \in Nat /\ r <= BS /\ Slack(c[q]) = r - u /\ r - u >= v
  BY <1>5, <1>6, <1>7, <1>8, <1>9, NeededIs DEF Slack
<1>11. PICK w \in Nat : w = r - u
  BY <1>10
<1>12. w \in 1 .. BS /\ u \in 1 .. BS /\ w >= v /\ u + w = r
  BY <1>10, <1>11
<1>13. PICK s : s = [c EXCEPT ![q].rec = u]
  OBVIOUS
<1>14. /\ s \in Chain /\ Len(s) = L
       /\ \A k \in 1 .. L : k # q => s[k] = c[k]
       /\ s[q].ino = c[q].ino /\ s[q].name = a /\ s[q].rec = u
  <2>1. PICK g : g = [c[q] EXCEPT !.rec = u]
    OBVIOUS
  <2>2. g \in EntryType /\ g.ino = c[q].ino /\ g.name = a /\ g.rec = u
    BY <1>2, <1>5, <1>12, <2>1 DEF EntryType
  <2>3. s = [c EXCEPT ![q] = g]
    BY <1>13, <2>1
  <2>4. s \in Chain /\ Len(s) = Len(c) /\ \A k \in 1 .. Len(c) : s[k] = IF k = q THEN g ELSE c[k]
    BY <2>2, <2>3 DEF Chain
  <2> QED
    BY <1>3, <1>4, <2>2, <2>4
<1>15. PICK x : x = Entry(i, n, w)
  OBVIOUS
<1>16. x \in EntryType /\ x.ino = i /\ x.name = n /\ x.rec = w
  BY <1>12, <1>15 DEF Entry, EntryType
<1>17. f = InsertAt(s, q + 1, x)
  <2>1. c[q].rec - Slack(c[q]) = u /\ Slack(c[q]) = w
    BY <1>8, <1>10, <1>11
  <2> QED
    BY <1>13, <1>15, <2>1
<1>18. /\ f \in Chain /\ Len(f) = L + 1
       /\ \A k \in 1 .. q : f[k] = s[k]
       /\ f[q + 1] = x
       /\ \A k \in (q + 1) .. L : f[k + 1] = s[k]
  <2>1. PICK j : j = q + 1
    OBVIOUS
  <2>2. j \in 1 .. (Len(s) + 1) /\ j - 1 = q /\ s \in Seq(EntryType) /\ x \in EntryType /\ f = InsertAt(s, j, x)
    BY <1>4, <1>14, <1>16, <1>17, <2>1 DEF Chain
  <2>3. /\ f \in Seq(EntryType) /\ Len(f) = Len(s) + 1
        /\ \A k \in 1 .. (j - 1) : f[k] = s[k]
        /\ f[j] = x
        /\ \A k \in j .. Len(s) : f[k + 1] = s[k]
    <3>1. PICK T : T = EntryType
      OBVIOUS
    <3>2. s \in Seq(T) /\ j \in 1 .. (Len(s) + 1) /\ x \in T /\ f = InsertAt(s, j, x)
      BY <2>2, <3>1
    <3>3. /\ f \in Seq(T) /\ Len(f) = Len(s) + 1
          /\ \A k \in 1 .. (j - 1) : f[k] = s[k]
          /\ f[j] = x
          /\ \A k \in j .. Len(s) : f[k + 1] = s[k]
      BY ONLY <3>2, InsertAtIs
    <3> QED
      BY <3>1, <3>3
  <2> QED
    BY <1>14, <2>1, <2>2, <2>3 DEF Chain
<1>19. Longer(c, f, q)
  <2>1. q \in 0 .. L
    BY <1>4
  <2>2. ASSUME NEW k \in 1 .. q
        PROVE  f[k].ino = c[k].ino /\ f[k].name = c[k].name
    <3>1. k \in 1 .. L
      BY <1>4
    <3> QED
      BY <1>5, <1>14, <1>18, <3>1
  <2>3. ASSUME NEW k \in (q + 1) .. L
        PROVE  f[k + 1] = c[k]
    <3>1. k \in 1 .. L /\ k # q
      BY <1>4
    <3> QED
      BY <1>14, <1>18, <3>1
  <2> QED
    BY <1>3, <1>18, <2>1, <2>2, <2>3 DEF Longer
<1>20. ASSUME NEW k \in 1 .. (L + 1)
       PROVE  f[k].rec >= Needed[f[k].name]
  <2>0. \A j \in 1 .. L : c[j].rec >= Needed[c[j].name]
    BY <1>3 DEF Tiled
  <2>1. CASE k = q + 1
    BY <1>9, <1>12, <1>16, <1>18, <2>1
  <2>2. CASE k = q
    <3>1. q \in 1 .. q
      BY <1>4
    <3>2. f[k].rec = u /\ f[k].name = a
      BY <1>14, <1>18, <2>2, <3>1
    <3> QED
      BY <1>7, <3>2
  <2>3. CASE k < q
    <3>1. k \in 1 .. q /\ k \in 1 .. L /\ k # q
      BY <1>4, <2>3
    <3> QED
      BY <1>14, <1>18, <2>0, <3>1
  <2>4. CASE k > q + 1
    <3>1. k - 1 \in (q + 1) .. L /\ k - 1 \in 1 .. L /\ k - 1 # q /\ (k - 1) + 1 = k
      BY <1>4, <2>4
    <3>2. f[k] = c[k - 1]
      BY <1>14, <1>18, <3>1
    <3> QED
      BY <2>0, <3>1, <3>2
  <2> QED
    BY <1>4, <2>1, <2>2, <2>3, <2>4
<1>21. Ends(f)[L + 1] = BS
  <2>1. PICK g : g = [k \in 0 .. (L + 1) |-> IF k < q THEN e[k] ELSE IF k = q THEN e[q - 1] + u ELSE e[k - 1]]
    OBVIOUS
  <2>2. g[0] = 0
    BY <1>2, <1>4, <2>1
  <2>3. ASSUME NEW k \in 1 .. (L + 1)
        PROVE  g[k] = g[k - 1] + f[k].rec
    <3>0. k \in 0 .. (L + 1) /\ k - 1 \in 0 .. (L + 1)
      BY <1>4
    <3>1. CASE k < q
      <4>1. k \in 1 .. q /\ k \in 1 .. L /\ k # q /\ k - 1 < q
        BY <1>4, <3>1
      <4>2. f[k] = c[k] /\ g[k] = e[k] /\ g[k - 1] = e[k - 1]
        BY <1>14, <1>18, <2>1, <3>0, <4>1, <3>1
      <4> QED
        BY <1>2, <1>3, <4>1, <4>2
    <3>2. CASE k = q
      <4>1. ~ (k < q) /\ k - 1 < q /\ k \in 1 .. q
        BY <1>4, <3>2
      <4>2. f[k].rec = u
        BY <1>14, <1>18, <3>2, <4>1
      <4> QED
        BY <2>1, <3>0, <3>2, <4>1, <4>2
    <3>3. CASE k = q + 1
      <4>1. ~ (k < q) /\ k # q /\ ~ (k - 1 < q) /\ k - 1 = q /\ q \in 1 .. L
        BY <1>4, <3>3
      <4>2. f[k].rec = w
        BY <1>16, <1>18, <3>3
      <4>3. g[k] = e[q] /\ g[k - 1] = e[q - 1] + u
        BY <2>1, <3>0, <4>1
      <4>4. e[q] = e[q - 1] + r /\ q - 1 \in 0 .. L
        BY <1>2, <1>3, <1>8, <4>1
      <4>5. e[q - 1] \in Nat
        BY <1>2, <1>3, <4>4
      <4>6. PICK x1 \in Nat : x1 = e[q - 1]
        BY <4>5
      <4>7. g[k] = x1 + r /\ g[k - 1] = x1 + u /\ f[k].rec = w
        BY <4>2, <4>3, <4>4, <4>6
      <4>8. x1 + r = (x1 + u) + w
        BY ONLY <1>7, <1>8, <1>11, <1>12, <4>6
      <4> QED
        BY <4>7, <4>8
    <3>4. CASE k > q + 1
      <4>1. k - 1 \in (q + 1) .. L /\ k - 1 \in 1 .. L /\ k - 1 # q /\ (k - 1) + 1 = k
            /\ ~ (k < q) /\ k # q /\ ~ (k - 1 < q) /\ k - 1 - 1 = k - 2
        BY <1>4, <3>4
      <4>2. f[k] = c[k - 1]
        BY <1>14, <1>18, <4>1
      <4>3. g[k] = e[k - 1] /\ g[k - 1] = e[k - 2]
        BY <2>1, <3>0, <4>1
      <4> QED
        BY <1>2, <1>3, <4>1, <4>2, <4>3
    <3> QED
      BY <1>4, <3>1, <3>2, <3>3, <3>4
  <2>4. g[L + 1] = e[L]
    <3>1. L + 1 \in 0 .. (L + 1) /\ ~ (L + 1 < q) /\ L + 1 # q /\ (L + 1) - 1 = L
      BY <1>4
    <3> QED
      BY <2>1, <3>1
  <2>5. L + 1 \in Nat /\ Len(f) = L + 1
    BY <1>4, <1>18
  <2>6. Ends(f)[L + 1] = g[L + 1]
    BY ONLY <2>2, <2>3, <2>5, EndsUnique
  <2>7. e[L] = BS
    BY <1>1, <1>3 DEF Tiled
  <2> QED
    BY <2>4, <2>6, <2>7
<1>22. Tiled(f)
  BY <1>18, <1>20, <1>21 DEF Tiled
<1> QED
  BY <1>16, <1>18, <1>19, <1>22

\* What ext2_unlink makes of it when it takes entry q, which is not the first, away.
LEMMA MergeTiled ==
    ASSUME NEW c \in Chain, Tiled(c), NEW q \in 2 .. Len(c), NEW f, f = Merged(c, q)
    PROVE  f \in Chain /\ Tiled(f) /\ Longer(f, c, q - 1)
<1>1. PICK e : e = Ends(c)
  OBVIOUS
<1>2. /\ Len(c) \in Nat /\ \A k \in 1 .. Len(c) : c[k] \in EntryType /\ c[k].rec \in Nat \ {0}
      /\ e[0] = 0 /\ \A k \in 1 .. Len(c) : e[k] = e[k - 1] + c[k].rec
      /\ \A k \in 0 .. Len(c) : e[k] \in Nat
      /\ \A j, k \in 0 .. Len(c) : j <= k => e[j] <= e[k]
  BY <1>1, EndsAscend
<1>3. PICK L : L = Len(c)
  OBVIOUS
<1>4. L \in Nat /\ q \in 2 .. L /\ q \in 1 .. L /\ q - 1 \in 1 .. L /\ q - 2 \in 0 .. L /\ q - 1 \in 0 .. L
      /\ q \in 0 .. L /\ L \in 0 .. L
  BY <1>2, <1>3
<1>5. PICK a : a = c[q - 1].name
  OBVIOUS
<1>6. c[q - 1].ino \in Ino \cup {0} /\ a \in AnyName /\ c[q - 1].rec \in 1 .. BS
  BY <1>2, <1>3, <1>4, <1>5, EntryIs
<1>7. PICK r, t \in Nat \ {0} : r = c[q - 1].rec /\ t = c[q].rec
  BY <1>2, <1>3, <1>4
<1>8. PICK x, y, z \in Nat : x = e[q - 2] /\ y = e[q] /\ z = e[L]
  BY <1>2, <1>3, <1>4
<1>9. z = BS
  BY <1>1, <1>3, <1>8 DEF Tiled
<1>10. y = x + (r + t) /\ y <= z
  <2>1. (q - 1) - 1 = q - 2
    BY <1>4
  <2>2. e[q] = e[q - 1] + c[q].rec /\ e[q - 1] = e[q - 2] + c[q - 1].rec
    BY <1>2, <1>3, <1>4, <2>1
  <2>3. e[q] <= e[L]
    BY <1>2, <1>3, <1>4
  <2> QED
    BY <1>7, <1>8, <2>2, <2>3
<1>11. r + t \in 1 .. BS
  BY <1>9, <1>10
<1>12. PICK s : s = [c EXCEPT ![q - 1].rec = r + t]
  OBVIOUS
<1>13. /\ s \in Chain /\ Len(s) = L
       /\ \A k \in 1 .. L : k # q - 1 => s[k] = c[k]
       /\ s[q - 1].ino = c[q - 1].ino /\ s[q - 1].name = a /\ s[q - 1].rec = r + t
  <2>1. PICK g : g = [c[q - 1] EXCEPT !.rec = r + t]
    OBVIOUS
  <2>2. c[q - 1] \in EntryType
    BY <1>2, <1>3, <1>4
  <2>3. g \in EntryType /\ g.ino = c[q - 1].ino /\ g.name = a /\ g.rec = r + t
    BY <1>5, <1>11, <2>1, <2>2 DEF EntryType
  <2>4. s = [c EXCEPT ![q - 1] = g]
    BY <1>12, <2>1
  <2>5. s \in Chain /\ Len(s) = Len(c) /\ \A k \in 1 .. Len(c) : s[k] = IF k = q - 1 THEN g ELSE c[k]
    BY <1>3, <1>4, <2>3, <2>4 DEF Chain
  <2> QED
    BY <1>3, <1>4, <2>3, <2>5
<1>14. f = RemoveAt(s, q)
  BY <1>7, <1>12 DEF Merged
<1>15. /\ f \in Chain /\ Len(f) = L - 1
       /\ \A k \in 1 .. (q - 1) : f[k] = s[k]
       /\ \A k \in q .. (L - 1) : f[k] = s[k + 1]
  <2>1. q \in 1 .. Len(s) /\ s \in Seq(EntryType)
    BY <1>4, <1>13 DEF Chain
  <2>2. /\ f \in Seq(EntryType) /\ Len(f) = Len(s) - 1
        /\ \A k \in 1 .. (q - 1) : f[k] = s[k]
        /\ \A k \in q .. (Len(s) - 1) : f[k] = s[k + 1]
    <3>1. PICK T : T = EntryType
      OBVIOUS
    <3>2. s \in Seq(T) /\ q \in 1 .. Len(s) /\ f = RemoveAt(s, q)
      BY <1>14, <2>1, <3>1
    <3>3. /\ f \in Seq(T) /\ Len(f) = Len(s) - 1
          /\ \A k \in 1 .. (q - 1) : f[k] = s[k]
          /\ \A k \in q .. (Len(s) - 1) : f[k] = s[k + 1]
      BY ONLY <3>2, RemoveAtIs
    <3> QED
      BY <3>1, <3>3
  <2> QED
    BY <1>13, <2>2 DEF Chain
<1>16. ASSUME NEW k \in 1 .. (q - 1)
       PROVE  f[k].ino = c[k].ino /\ f[k].name = c[k].name /\ (k < q - 1 => f[k] = c[k])
  <2>1. k \in 1 .. L
    BY <1>4
  <2> QED
    BY <1>5, <1>13, <1>15, <2>1
<1>17. ASSUME NEW k \in q .. (L - 1)
       PROVE  f[k] = c[k + 1]
  <2>1. k + 1 \in 1 .. L /\ k + 1 # q - 1
    BY <1>4
  <2> QED
    BY <1>13, <1>15, <2>1
<1>18. Longer(f, c, q - 1)
  <2>1. q - 1 \in 0 .. (L - 1) /\ L = (L - 1) + 1
    BY <1>4
  <2>2. ASSUME NEW k \in ((q - 1) + 1) .. (L - 1)
        PROVE  c[k + 1] = f[k]
    <3>1. k \in q .. (L - 1)
      BY <1>4
    <3> QED
      BY <1>17, <3>1
  <2> QED
    BY <1>3, <1>15, <1>16, <2>1, <2>2 DEF Longer
<1>19. ASSUME NEW k \in 1 .. (L - 1)
       PROVE  f[k].rec >= Needed[f[k].name]
  <2>0. \A j \in 1 .. L : c[j].rec >= Needed[c[j].name]
    BY <1>3 DEF Tiled
  <2>1. CASE k < q - 1
    <3>1. k \in 1 .. L /\ k \in 1 .. (q - 1)
      BY <1>4, <2>1
    <3> QED
      BY <1>16, <2>0, <2>1, <3>1
  <2>2. CASE k = q - 1
    <3>1. PICK v \in Nat : v = Needed[a]
      BY <1>6, NeededIs
    <3>2. r >= v
      BY <1>4, <1>5, <1>7, <2>0, <3>1
    <3>3. k \in 1 .. (q - 1) /\ f[k].rec = r + t /\ f[k].name = a
      BY <1>4, <1>13, <1>15, <2>2
    <3>4. r + t >= v
      BY ONLY <1>7, <3>1, <3>2
    <3> QED
      BY <3>1, <3>3, <3>4
  <2>3. CASE k > q - 1
    <3>1. k \in q .. (L - 1) /\ k + 1 \in 1 .. L
      BY <1>4, <2>3
    <3> QED
      BY <1>17, <2>0, <3>1
  <2> QED
    BY <1>4, <2>1, <2>2, <2>3
<1>20. Ends(f)[L - 1] = BS
  <2>1. PICK g : g = [k \in 0 .. (L - 1) |-> IF k < q - 1 THEN e[k] ELSE e[k + 1]]
    OBVIOUS
  <2>2. g[0] = 0
    <3>1. 0 \in 0 .. (L - 1) /\ 0 < q - 1
      BY <1>4
    <3> QED
      BY <1>2, <2>1, <3>1
  <2>3. ASSUME NEW k \in 1 .. (L - 1)
        PROVE  g[k] = g[k - 1] + f[k].rec
    <3>0. k \in 0 .. (L - 1) /\ k - 1 \in 0 .. (L - 1) /\ k \in 1 .. L
      BY <1>4
    <3>1. CASE k < q - 1
      <4>1. k \in 1 .. (q - 1) /\ k - 1 < q - 1
        BY <1>4, <3>1
      <4>2. f[k] = c[k] /\ g[k] = e[k] /\ g[k - 1] = e[k - 1]
        BY <1>16, <2>1, <3>0, <3>1, <4>1
      <4> QED
        BY <1>2, <1>3, <3>0, <4>2
    <3>2. CASE k = q - 1
      <4>1. k \in 1 .. (q - 1) /\ ~ (k < q - 1) /\ k - 1 < q - 1 /\ k + 1 = q /\ k - 1 = q - 2
        BY <1>4, <3>2
      <4>2. f[k].rec = r + t
        BY <1>13, <1>15, <3>2, <4>1
      <4>3. g[k] = e[q] /\ g[k - 1] = e[q - 2]
        BY <2>1, <3>0, <4>1
      <4> QED
        BY <1>8, <1>10, <4>2, <4>3
    <3>3. CASE k > q - 1
      <4>1. k \in q .. (L - 1) /\ k + 1 \in 1 .. L /\ ~ (k < q - 1) /\ ~ (k - 1 < q - 1)
            /\ (k - 1) + 1 = k /\ (k + 1) - 1 = k
        BY <1>4, <3>3
      <4>2. f[k] = c[k + 1] /\ g[k] = e[k + 1] /\ g[k - 1] = e[k]
        BY <1>17, <2>1, <3>0, <4>1
      <4> QED
        BY <1>2, <1>3, <4>1, <4>2
    <3> QED
      BY <1>4, <3>1, <3>2, <3>3
  <2>4. g[L - 1] = e[L]
    <3>1. L - 1 \in 0 .. (L - 1) /\ ~ (L - 1 < q - 1) /\ (L - 1) + 1 = L
      BY <1>4
    <3> QED
      BY <2>1, <3>1
  <2>5. L - 1 \in Nat /\ Len(f) = L - 1
    BY <1>4, <1>15
  <2>6. Ends(f)[L - 1] = g[L - 1]
    BY ONLY <2>2, <2>3, <2>5, EndsUnique
  <2> QED
    BY <1>8, <1>9, <2>4, <2>6
<1>21. Tiled(f)
  BY <1>15, <1>19, <1>20 DEF Tiled
<1> QED
  BY <1>15, <1>18, <1>21

\* The first entry of a block only loses its inode number.
Cleared(c) == [c EXCEPT ![1].ino = 0]
Without(c, f) == Len(f) = Len(c) /\ (\A k \in 2 .. Len(c) : f[k] = c[k]) /\ f[1].ino = 0

LEMMA ClearTiled ==
    ASSUME NEW c \in Chain, Tiled(c), Len(c) >= 1, NEW f, f = Cleared(c)
    PROVE  f \in Chain /\ Tiled(f) /\ Without(c, f)
<1>1. PICK e : e = Ends(c)
  OBVIOUS
<1>2. /\ Len(c) \in Nat /\ \A k \in 1 .. Len(c) : c[k] \in EntryType
      /\ e[0] = 0 /\ \A k \in 1 .. Len(c) : e[k] = e[k - 1] + c[k].rec
  BY <1>1, EndsAscend
<1>3. PICK g : g = [c[1] EXCEPT !.ino = 0]
  OBVIOUS
<1>4. 1 \in 1 .. Len(c)
  BY <1>2
<1>5. g \in EntryType /\ g.ino = 0 /\ g.name = c[1].name /\ g.rec = c[1].rec
  BY <1>2, <1>3, <1>4 DEF EntryType
<1>6. f = [c EXCEPT ![1] = g]
  BY <1>3 DEF Cleared
<1>7. f \in Chain /\ Len(f) = Len(c) /\ \A k \in 1 .. Len(c) : f[k] = IF k = 1 THEN g ELSE c[k]
  BY <1>4, <1>5, <1>6 DEF Chain
<1>8. \A k \in 1 .. Len(c) : f[k].rec = c[k].rec /\ f[k].name = c[k].name
  BY <1>5, <1>7
<1>9. Ends(f)[Len(c)] = e[Len(c)]
  <2>1. \A k \in 1 .. Len(c) : e[k] = e[k - 1] + f[k].rec
    BY <1>2, <1>8
  <2>2. Len(c) \in Nat /\ Len(f) = Len(c) /\ e[0] = 0
    BY <1>2, <1>7
  <2> QED
    BY ONLY <2>1, <2>2, EndsUnique
<1>10. Tiled(f)
  BY <1>1, <1>7, <1>8, <1>9 DEF Tiled
<1>11. \A k \in 2 .. Len(c) : f[k] = c[k]
  BY <1>7
<1> QED
  BY <1>4, <1>5, <1>7, <1>10, <1>11 DEF Without

-----------------------------------------------------------------------------
(***************************************************************************)
(* Links, seen as a function g from places to <<directory, name, inode>>,  *)
(* and what it means that h has one more.                                  *)
(***************************************************************************)
Count(g, i)  == Cardinality({x \in DOMAIN g : g[x][3] = i})
Named(g)     == {g[x] : x \in DOMAIN g}
OneName(g)   == \A x, y \in DOMAIN g : g[x][2] \in Name /\ g[y][2] \in Name /\ g[x][3] = g[y][3] => x = y

\* h is g with the link z more; f says where the links of g have moved.
Moves(g, h, f, z) ==
    /\ z \in DOMAIN h
    /\ f \in [DOMAIN g -> DOMAIN h]
    /\ \A x, y \in DOMAIN g : f[x] = f[y] => x = y
    /\ \A x \in DOMAIN g : f[x] # z /\ h[f[x]] = g[x]
    /\ \A y \in DOMAIN h : y # z => \E x \in DOMAIN g : f[x] = y

Gains(g, h, t) == \E f, z : Moves(g, h, f, z) /\ h[z] = t

LEMMA GainCount ==
    ASSUME NEW g, NEW h, NEW t, Gains(g, h, t), IsFiniteSet(DOMAIN g), NEW i
    PROVE  /\ Count(g, i) \in Nat
           /\ Count(h, i) = Count(g, i) + (IF t[3] = i THEN 1 ELSE 0)
<1>1. PICK f, z : Moves(g, h, f, z) /\ h[z] = t
  BY DEF Gains
<1> DEFINE S == {x \in DOMAIN g : g[x][3] = i}
           T == {y \in DOMAIN h : h[y][3] = i}
           R == {y \in DOMAIN h : h[y][3] = i /\ y # z}
<1>2. IsFiniteSet(S)
  BY FS_Subset
<1>3. ExistsBijection(S, R)
  <2>1. PICK e : e = [x \in S |-> f[x]]
    OBVIOUS
  <2>2. \A x \in S : e[x] \in R
    BY <1>1, <2>1 DEF Moves
  <2>3. \A x, y \in S : e[x] = e[y] => x = y
    BY <1>1, <2>1 DEF Moves
  <2>4. \A y \in R : \E x \in S : e[x] = y
    <3>1. SUFFICES ASSUME NEW y \in R
                   PROVE  \E x \in S : e[x] = y
      OBVIOUS
    <3>2. PICK x \in DOMAIN g : f[x] = y
      BY <1>1, <3>1 DEF Moves
    <3>3. h[y] = g[x]
      BY <1>1, <3>2 DEF Moves
    <3>4. x \in S
      BY <3>1, <3>3
    <3> QED
      BY <2>1, <3>2, <3>4
  <2>5. e \in [S -> R]
    BY <2>1, <2>2
  <2> HIDE DEF S, R
  <2>6. e \in Bijection(S, R)
    BY <2>3, <2>4, <2>5 DEF Bijection, Injection, Surjection, IsInjective
  <2> QED
    BY <2>6 DEF ExistsBijection
<1>4. IsFiniteSet(R) /\ Cardinality(R) = Cardinality(S)
  <2> HIDE DEF S, R
  <2> QED
    BY <1>2, <1>3, FS_Bijection
<1>5. Cardinality(S) \in Nat
  BY <1>2, FS_CardinalityType
<1>6. CASE t[3] = i
  <2>1. T = R \cup {z} /\ z \notin R
    BY <1>1, <1>6 DEF Moves
  <2>2. Cardinality(T) = Cardinality(R) + 1
    <3> HIDE DEF R, T
    <3> QED
      BY <1>4, <2>1, FS_AddElement
  <2> QED
    BY <1>4, <1>5, <1>6, <2>2 DEF Count
<1>7. CASE t[3] # i
  <2>1. T = R
    BY <1>1, <1>7
  <2> QED
    BY <1>4, <1>5, <1>7, <2>1 DEF Count
<1> QED
  BY <1>6, <1>7

LEMMA GainNamed ==
    ASSUME NEW g, NEW h, NEW t, Gains(g, h, t)
    PROVE  Named(h) = Named(g) \cup {t}
<1>1. PICK f, z : Moves(g, h, f, z) /\ h[z] = t
  BY DEF Gains
<1>2. ASSUME NEW u \in Named(g)
      PROVE  u \in Named(h)
  <2>1. PICK x \in DOMAIN g : g[x] = u
    BY DEF Named
  <2>2. f[x] \in DOMAIN h /\ h[f[x]] = u
    BY <1>1, <2>1 DEF Moves
  <2> QED
    BY <2>2 DEF Named
<1>3. t \in Named(h)
  BY <1>1 DEF Moves, Named
<1>4. ASSUME NEW u \in Named(h)
      PROVE  u \in Named(g) \cup {t}
  <2>1. PICK y \in DOMAIN h : h[y] = u
    BY DEF Named
  <2>2. CASE y = z
    BY <1>1, <2>1, <2>2
  <2>3. CASE y # z
    <3>1. PICK x \in DOMAIN g : f[x] = y
      BY <1>1, <2>3 DEF Moves
    <3>2. g[x] = u
      BY <1>1, <2>1, <3>1 DEF Moves
    <3> QED
      BY <3>2 DEF Named
  <2> QED
    BY <2>2, <2>3
<1> QED
  BY <1>2, <1>3, <1>4

\* A proper name for an inode that has none leaves every inode with at most one.
LEMMA GainOneName ==
    ASSUME NEW g, NEW h, NEW t, Gains(g, h, t), OneName(g),
           \A x \in DOMAIN g : t[2] \in Name /\ g[x][3] = t[3] => g[x][2] \notin Name
    PROVE  OneName(h)
<1>1. PICK f, z : Moves(g, h, f, z) /\ h[z] = t
  BY DEF Gains
<1>2. SUFFICES ASSUME NEW x \in DOMAIN h, NEW y \in DOMAIN h,
                      h[x][2] \in Name, h[y][2] \in Name, h[x][3] = h[y][3]
               PROVE  x = y
  BY DEF OneName
<1>3. \A u \in DOMAIN h : u # z => \E v \in DOMAIN g : f[v] = u /\ g[v] = h[u]
  BY <1>1 DEF Moves
<1>4. CASE x = z \/ y = z
  BY <1>1, <1>2, <1>3, <1>4
<1>5. CASE x # z /\ y # z
  <2>1. PICK u \in DOMAIN g : f[u] = x /\ g[u] = h[x]
    BY <1>3, <1>5
  <2>2. PICK v \in DOMAIN g : f[v] = y /\ g[v] = h[y]
    BY <1>3, <1>5
  <2>3. u = v
    BY <1>2, <2>1, <2>2 DEF OneName
  <2> QED
    BY <2>1, <2>2, <2>3
<1> QED
  BY <1>4, <1>5

\* Without a link, the others are one name each still, and a proper name is gone.
LEMMA LoseOneName ==
    ASSUME NEW g, NEW h, NEW t, Gains(g, h, t), OneName(h)
    PROVE  OneName(g) /\ (t[2] \in Name => t \notin Named(g))
<1>1. PICK f, z : Moves(g, h, f, z) /\ h[z] = t
  BY DEF Gains
<1>2. OneName(g)
  <2>1. SUFFICES ASSUME NEW x \in DOMAIN g, NEW y \in DOMAIN g,
                        g[x][2] \in Name, g[y][2] \in Name, g[x][3] = g[y][3]
                 PROVE  x = y
    BY DEF OneName
  <2>2. f[x] \in DOMAIN h /\ f[y] \in DOMAIN h /\ h[f[x]] = g[x] /\ h[f[y]] = g[y]
    BY <1>1 DEF Moves
  <2>3. f[x] = f[y]
    BY <2>1, <2>2 DEF OneName
  <2> QED
    BY <1>1, <2>3 DEF Moves
<1>3. ASSUME t[2] \in Name, t \in Named(g)
      PROVE  FALSE
  <2>1. PICK x \in DOMAIN g : g[x] = t
    BY <1>3 DEF Named
  <2>2. f[x] \in DOMAIN h /\ h[f[x]] = t /\ f[x] # z /\ z \in DOMAIN h
    BY <1>1, <2>1 DEF Moves
  <2>3. f[x] = z
    BY <1>1, <1>3, <2>2 DEF OneName
  <2> QED
    BY <2>2, <2>3
<1> QED
  BY <1>2, <1>3

\* A link that comes without moving the others.
LEMMA GainInPlace ==
    ASSUME NEW g, NEW h, NEW z, z \in DOMAIN h, z \notin DOMAIN g, DOMAIN h = DOMAIN g \cup {z},
           \A x \in DOMAIN g : h[x] = g[x]
    PROVE  Gains(g, h, h[z])
<1>1. PICK f : f = [x \in DOMAIN g |-> x]
  OBVIOUS
<1>2. f \in [DOMAIN g -> DOMAIN h]
  BY <1>1
<1>3. \A x \in DOMAIN g : f[x] = x
  BY <1>1
<1>4. Moves(g, h, f, z)
  BY <1>2, <1>3 DEF Moves
<1> QED
  BY <1>4 DEF Gains

-----------------------------------------------------------------------------
(***************************************************************************)
(* The invariant, as a predicate of a record like FS, so that it can be    *)
(* followed through the functions a call is made of.                       *)
(***************************************************************************)
Volume == [freeIno : SUBSET Ino, freeBlk : SUBSET Blk, entries : [Blk -> Chain],
           raw : [Ino -> InodeType], mem : [Ino -> InodeType], ref : [Ino -> Nat]]

Given(m) == Ino \ m.freeIno
Dirs(m)  == {d \in Given(m) : m.raw[d].type = "dir"}
BlocksOf(m, i) == {m.raw[i].blocks[k] : k \in 1 .. Len(m.raw[i].blocks)}
LinksOf(m) == {x \in Dirs(m) \X Blk \X (1 .. BS) :
                 /\ x[2] \in BlocksOf(m, x[1])
                 /\ x[3] <= Len(m.entries[x[2]])
                 /\ m.entries[x[2]][x[3]].ino # 0}
View(m) == [x \in LinksOf(m) |-> <<x[1], m.entries[x[2]][x[3]].name, m.entries[x[2]][x[3]].ino>>]

\* A cached inode is as it is in the table.
Cached(m) == \A i \in Ino : m.ref[i] > 0 => m.mem[i] = m.raw[i]

\* A free number is not cached, owes no link and is not named; the root is in use.
Unused(m) ==
    /\ m.ref[Root] > 0
    /\ \A i \in m.freeIno : m.ref[i] = 0
    /\ \A x \in LinksOf(m) : View(m)[x][3] \in Given(m)

\* A block in use is in one place of one inode, and a free one in none.
Placed(m) ==
    /\ \A i, j \in Given(m) : \A k \in 1 .. Len(m.raw[i].blocks), h \in 1 .. Len(m.raw[j].blocks) :
          m.raw[i].blocks[k] = m.raw[j].blocks[h] => i = j /\ k = h
    /\ \A i \in Given(m) : BlocksOf(m, i) \cap m.freeBlk = {}
    /\ \A b \in Blk \ m.freeBlk : \E i \in Given(m) : b \in BlocksOf(m, i)

\* Directories: their blocks are tiled, and the first begins with ".".  Files are empty.
Arranged(m) ==
    /\ \A d \in Dirs(m), b \in Blk : b \in BlocksOf(m, d) => Tiled(m.entries[b])
    /\ \A d \in Dirs(m) : /\ Len(m.raw[d].blocks) >= 1 /\ Len(m.entries[m.raw[d].blocks[1]]) >= 1
                          /\ m.entries[m.raw[d].blocks[1]][1].ino = d
                          /\ m.entries[m.raw[d].blocks[1]][1].name = Dot
    /\ \A i \in Given(m) \ Dirs(m) : m.raw[i].blocks = <<>>

\* Links cover the entries and the debts o of a call under way, and an inode without
\* references has links.
Counted(m, o) ==
    /\ \A i \in Given(m) : m.raw[i].nlinks >= Count(View(m), i) + o[i]
    /\ \A i \in Given(m) : m.ref[i] = 0 => m.raw[i].nlinks > 0

Good(m, o) ==
    Cached(m) /\ Unused(m) /\ Placed(m) /\ Arranged(m) /\ OneName(View(m)) /\ Counted(m, o)

NoDebt == [i \in Ino |-> 0]

VolumeInv == FS \in Volume /\ Good(FS, NoDebt) /\ last.result \in Ino \cup {0} /\ last.oom \in BOOLEAN

LEMMA VolumeIs ==
    ASSUME NEW m, m \in Volume
    PROVE  /\ m.freeIno \subseteq Ino /\ m.freeBlk \subseteq Blk
           /\ m.entries \in [Blk -> Chain]
           /\ m.raw \in [Ino -> InodeType] /\ m.mem \in [Ino -> InodeType]
           /\ m.ref \in [Ino -> Nat]
BY DEF Volume

LEMMA InodeIs ==
    ASSUME NEW x, x \in InodeType
    PROVE  /\ x.type \in {"file", "dir"} /\ x.nlinks \in Nat /\ x.blocks \in Seq(Blk)
           /\ Len(x.blocks) \in Nat /\ \A k \in 1 .. Len(x.blocks) : x.blocks[k] \in Blk
BY DEF InodeType

LEMMA SomeNumbers ==
    /\ Ino \subseteq Nat /\ Blk \subseteq Nat /\ 0 \notin Ino /\ 0 \notin Blk /\ Root \in Ino /\ BS \in Nat
    /\ 1 \in Blk /\ BS >= 1 /\ IsFiniteSet(Ino) /\ IsFiniteSet(Blk)
<1>1. Ino \subseteq Nat /\ Blk \subseteq Nat /\ 0 \notin Ino /\ 0 \notin Blk /\ Root \in Ino /\ BS \in Nat /\ 1 \in Blk
  BY SizeAssumption DEF Ino, Blk, Root
<1>2. BS >= 1
  <2>1. Dot \in AnyName
    BY DEF AnyName
  <2> QED
    BY <2>1, NeededIs
<1>3. IsFiniteSet(Ino) /\ IsFiniteSet(Blk)
  BY SizeAssumption, FS_Interval DEF Ino, Blk
<1> QED
  BY <1>1, <1>2, <1>3

LEMMA ChainIs ==
    ASSUME NEW m, m \in Volume, NEW b \in Blk, NEW c, c = m.entries[b]
    PROVE  /\ c \in Chain /\ Len(c) \in Nat
           /\ \A k \in 1 .. Len(c) : c[k] \in EntryType /\ c[k].ino \in Ino \cup {0} /\ c[k].name \in AnyName
<1>1. c \in Chain
  BY VolumeIs
<1>2. Len(c) \in Nat /\ \A k \in 1 .. Len(c) : c[k] \in EntryType
  BY <1>1 DEF Chain
<1> QED
  BY <1>1, <1>2, EntryIs

LEMMA BlocksIs ==
    ASSUME NEW m, m \in Volume, NEW i \in Ino
    PROVE  /\ m.raw[i] \in InodeType /\ BlocksOf(m, i) \subseteq Blk
           /\ Len(m.raw[i].blocks) \in Nat /\ \A k \in 1 .. Len(m.raw[i].blocks) : m.raw[i].blocks[k] \in BlocksOf(m, i)
<1>1. m.raw[i] \in InodeType
  BY VolumeIs
<1> QED
  BY <1>1, InodeIs DEF BlocksOf

LEMMA LinkParts ==
    ASSUME NEW m, NEW x \in LinksOf(m)
    PROVE  /\ x = <<x[1], x[2], x[3]>>
           /\ x[1] \in Dirs(m) /\ x[1] \in Given(m) /\ x[1] \in Ino /\ x[2] \in Blk /\ x[3] \in 1 .. BS
           /\ x[2] \in BlocksOf(m, x[1]) /\ x[3] <= Len(m.entries[x[2]]) /\ m.entries[x[2]][x[3]].ino # 0
           /\ View(m)[x] = <<x[1], m.entries[x[2]][x[3]].name, m.entries[x[2]][x[3]].ino>>
           /\ DOMAIN View(m) = LinksOf(m)
<1>1. /\ x \in Dirs(m) \X Blk \X (1 .. BS)
      /\ x[2] \in BlocksOf(m, x[1]) /\ x[3] <= Len(m.entries[x[2]]) /\ m.entries[x[2]][x[3]].ino # 0
  BY DEF LinksOf
<1>2. x = <<x[1], x[2], x[3]>> /\ x[1] \in Dirs(m) /\ x[2] \in Blk /\ x[3] \in 1 .. BS
  BY ONLY <1>1
<1>3. x[1] \in Given(m) /\ x[1] \in Ino
  BY <1>2 DEF Dirs, Given
<1>4. DOMAIN View(m) = LinksOf(m) /\ View(m)[x] = <<x[1], m.entries[x[2]][x[3]].name, m.entries[x[2]][x[3]].ino>>
  BY DEF View
<1> QED
  BY <1>1, <1>2, <1>3, <1>4

LEMMA LinkIs ==
    ASSUME NEW m, m \in Volume, Arranged(m), NEW d \in Dirs(m), NEW b \in BlocksOf(m, d),
           NEW k \in 1 .. Len(m.entries[b]), m.entries[b][k].ino # 0
    PROVE  /\ <<d, b, k>> \in LinksOf(m) /\ k \in 1 .. BS /\ Len(m.entries[b]) <= BS
           /\ View(m)[<<d, b, k>>] = <<d, m.entries[b][k].name, m.entries[b][k].ino>>
<1>1. d \in Ino
  BY DEF Dirs, Given
<1>2. b \in Blk
  BY <1>1, BlocksIs
<1>3. m.entries[b] \in Chain /\ Tiled(m.entries[b])
  BY <1>2, ChainIs DEF Arranged
<1>4. Len(m.entries[b]) \in 0 .. BS
  BY <1>3, TiledLength
<1>5. k \in 1 .. BS /\ k <= Len(m.entries[b])
  BY <1>4, SomeNumbers
<1>6. <<d, b, k>> \in LinksOf(m)
  BY <1>2, <1>5 DEF LinksOf
<1> QED
  BY <1>4, <1>5, <1>6 DEF View

LEMMA LinksFinite ==
    ASSUME NEW m
    PROVE  IsFiniteSet(LinksOf(m)) /\ DOMAIN View(m) = LinksOf(m)
<1>1. IsFiniteSet(1 .. BS)
  BY SizeAssumption, FS_Interval
<1>2. IsFiniteSet(Ino \X Blk)
  BY SomeNumbers, FS_Product
<1>3. IsFiniteSet((Ino \X Blk) \X (1 .. BS))
  BY <1>1, <1>2, FS_Product
<1>4. PICK f : f = [x \in LinksOf(m) |-> <<<<x[1], x[2]>>, x[3]>>]
  OBVIOUS
<1>5. ASSUME NEW x \in LinksOf(m)
      PROVE  f[x] = <<<<x[1], x[2]>>, x[3]>> /\ f[x] \in (Ino \X Blk) \X (1 .. BS)
  <2>1. x[1] \in Ino /\ x[2] \in Blk /\ x[3] \in 1 .. BS
    BY LinkParts
  <2> QED
    BY <1>4, <2>1
<1>6. ASSUME NEW x \in LinksOf(m), NEW y \in LinksOf(m), f[x] = f[y]
      PROVE  x = y
  <2>1. x[1] = y[1] /\ x[2] = y[2] /\ x[3] = y[3]
    BY <1>5, <1>6
  <2>2. x = <<x[1], x[2], x[3]>> /\ y = <<y[1], y[2], y[3]>>
    BY LinkParts
  <2> QED
    BY <2>1, <2>2
<1>7. f \in Injection(LinksOf(m), (Ino \X Blk) \X (1 .. BS))
  BY <1>4, <1>5, <1>6 DEF Injection, IsInjective
<1>8. IsFiniteSet(LinksOf(m))
  BY <1>3, <1>7, FS_Injection
<1> QED
  BY <1>8 DEF View

\* What does not touch directories or their blocks does not touch links.
LEMMA ViewSame ==
    ASSUME NEW m, NEW w, Dirs(w) = Dirs(m),
           \A d \in Dirs(m) : BlocksOf(w, d) = BlocksOf(m, d),
           \A d \in Dirs(m) : \A b \in BlocksOf(m, d) : w.entries[b] = m.entries[b]
    PROVE  LinksOf(w) = LinksOf(m) /\ View(w) = View(m)
<1>1. LinksOf(w) = LinksOf(m)
  <2>1. ASSUME NEW x \in Dirs(m) \X Blk \X (1 .. BS)
        PROVE  /\ x[2] \in BlocksOf(w, x[1]) <=> x[2] \in BlocksOf(m, x[1])
               /\ x[2] \in BlocksOf(m, x[1]) => w.entries[x[2]] = m.entries[x[2]]
    OBVIOUS
  <2> QED
    BY <2>1 DEF LinksOf
<1>2. ASSUME NEW x \in LinksOf(m)
      PROVE  w.entries[x[2]] = m.entries[x[2]]
  BY LinkParts
<1> QED
  BY <1>1, <1>2 DEF View

\* One more entry in a block is one more link, and moves those behind it.
LEMMA OneMore ==
    ASSUME NEW m, m \in Volume, Arranged(m), NEW w, w \in Volume, Arranged(w),
           Dirs(w) = Dirs(m), \A d \in Dirs(m) : BlocksOf(w, d) = BlocksOf(m, d),
           NEW d \in Dirs(m), NEW b \in BlocksOf(m, d),
           \A e \in Dirs(m) : b \in BlocksOf(m, e) => e = d,
           \A c \in Blk : c # b => w.entries[c] = m.entries[c],
           NEW q, Longer(m.entries[b], w.entries[b], q), w.entries[b][q + 1].ino # 0
    PROVE  Gains(View(m), View(w), <<d, w.entries[b][q + 1].name, w.entries[b][q + 1].ino>>)
<1>1. d \in Ino /\ b \in Blk
  <2>1. d \in Ino
    BY DEF Dirs, Given
  <2> QED
    BY <2>1, BlocksIs
<1>2. PICK c, f : c = m.entries[b] /\ f = w.entries[b]
  OBVIOUS
<1>3. PICK L : L = Len(c)
  OBVIOUS
<1>4. L \in Nat /\ q \in 0 .. L /\ Len(f) = L + 1
      /\ (\A k \in 1 .. q : f[k].ino = c[k].ino /\ f[k].name = c[k].name)
      /\ (\A k \in (q + 1) .. L : f[k + 1].ino = c[k].ino /\ f[k + 1].name = c[k].name)
  BY <1>1, <1>2, <1>3, ChainIs DEF Longer
<1>5. PICK z : z = <<d, b, q + 1>>
  OBVIOUS
<1>6. z \in LinksOf(w) /\ View(w)[z] = <<d, f[q + 1].name, f[q + 1].ino>>
  <2>1. q + 1 \in 1 .. Len(w.entries[b]) /\ b \in BlocksOf(w, d)
    BY <1>2, <1>4
  <2> QED
    BY <1>2, <1>5, <2>1, LinkIs
<1>7. PICK g : g = [x \in LinksOf(m) |-> IF x[2] = b /\ x[3] > q THEN <<x[1], x[2], x[3] + 1>> ELSE x]
  OBVIOUS
<1>8. ASSUME NEW x \in LinksOf(m)
      PROVE  g[x] \in LinksOf(w) /\ g[x] # z /\ View(w)[g[x]] = View(m)[x]
  <2>1. PICK e, a, k : e = x[1] /\ a = x[2] /\ k = x[3]
    OBVIOUS
  <2>2. /\ x = <<e, a, k>> /\ e \in Dirs(m) /\ a \in Blk /\ k \in 1 .. BS /\ a \in BlocksOf(m, e)
        /\ k <= Len(m.entries[a]) /\ m.entries[a][k].ino # 0
        /\ View(m)[x] = <<e, m.entries[a][k].name, m.entries[a][k].ino>>
    BY <2>1, LinkParts
  <2>3. Len(m.entries[a]) \in Nat /\ k \in Nat
    BY <2>2, ChainIs
  <2>4. CASE a # b
    <3>1. g[x] = x /\ w.entries[a] = m.entries[a] /\ a \in BlocksOf(w, e) /\ e \in Dirs(w)
      BY <1>7, <2>1, <2>2, <2>4
    <3>2. k \in 1 .. Len(w.entries[a]) /\ w.entries[a][k].ino # 0
      BY <2>2, <2>3, <3>1
    <3>3. <<e, a, k>> \in LinksOf(w) /\ View(w)[<<e, a, k>>] = <<e, w.entries[a][k].name, w.entries[a][k].ino>>
      BY <3>1, <3>2, LinkIs
    <3>4. x # z
      BY <1>5, <2>1, <2>4
    <3> QED
      BY <2>2, <3>1, <3>3, <3>4
  <2>5. CASE a = b /\ k > q
    <3>1. g[x] = <<e, a, k + 1>>
      BY <1>7, <2>1, <2>5
    <3>2. e = d /\ e \in Dirs(w) /\ a \in BlocksOf(w, e)
      BY <2>2, <2>5
    <3>3. k \in (q + 1) .. L /\ k + 1 \in 1 .. (L + 1) /\ k + 1 # q + 1
      BY <1>2, <1>3, <1>4, <2>2, <2>3, <2>5
    <3>4. w.entries[a][k + 1].ino = m.entries[a][k].ino /\ w.entries[a][k + 1].name = m.entries[a][k].name
      BY <1>2, <1>4, <2>5, <3>3
    <3>5. k + 1 \in 1 .. Len(w.entries[a]) /\ w.entries[a][k + 1].ino # 0
      BY <1>2, <1>4, <2>2, <2>5, <3>3, <3>4
    <3>6. <<e, a, k + 1>> \in LinksOf(w)
          /\ View(w)[<<e, a, k + 1>>] = <<e, w.entries[a][k + 1].name, w.entries[a][k + 1].ino>>
      BY <3>2, <3>5, LinkIs
    <3>7. g[x] # z
      BY <1>5, <3>1, <3>3
    <3> QED
      BY <2>2, <3>1, <3>4, <3>6, <3>7
  <2>6. CASE a = b /\ ~ (k > q)
    <3>1. g[x] = x
      BY <1>7, <2>1, <2>6
    <3>2. e \in Dirs(w) /\ a \in BlocksOf(w, e)
      BY <2>2
    <3>3. k \in 1 .. q /\ k \in 1 .. (L + 1) /\ k # q + 1
      BY <1>4, <2>2, <2>3, <2>6
    <3>4. w.entries[a][k].ino = m.entries[a][k].ino /\ w.entries[a][k].name = m.entries[a][k].name
      BY <1>2, <1>4, <2>6, <3>3
    <3>5. k \in 1 .. Len(w.entries[a]) /\ w.entries[a][k].ino # 0
      BY <1>2, <1>4, <2>2, <2>6, <3>3, <3>4
    <3>6. <<e, a, k>> \in LinksOf(w) /\ View(w)[<<e, a, k>>] = <<e, w.entries[a][k].name, w.entries[a][k].ino>>
      BY <3>2, <3>5, LinkIs
    <3>7. x # z
      BY <1>5, <2>1, <3>3
    <3> QED
      BY <2>2, <3>1, <3>4, <3>6, <3>7
  <2> QED
    BY <2>4, <2>5, <2>6
<1>9. ASSUME NEW x \in LinksOf(m), NEW y \in LinksOf(m), g[x] = g[y]
      PROVE  x = y
  <2>1. /\ x = <<x[1], x[2], x[3]>> /\ y = <<y[1], y[2], y[3]>> /\ x[3] \in 1 .. BS /\ y[3] \in 1 .. BS
    BY LinkParts
  <2>2. q \in Nat /\ x[3] \in Nat /\ y[3] \in Nat
    BY <1>4, <2>1
  <2>3. /\ g[x] = IF x[2] = b /\ x[3] > q THEN <<x[1], x[2], x[3] + 1>> ELSE <<x[1], x[2], x[3]>>
        /\ g[y] = IF y[2] = b /\ y[3] > q THEN <<y[1], y[2], y[3] + 1>> ELSE <<y[1], y[2], y[3]>>
    BY <1>7, <2>1
  <2>4. /\ g[x][1] = x[1] /\ g[x][2] = x[2] /\ g[x][3] = IF x[2] = b /\ x[3] > q THEN x[3] + 1 ELSE x[3]
        /\ g[y][1] = y[1] /\ g[y][2] = y[2] /\ g[y][3] = IF y[2] = b /\ y[3] > q THEN y[3] + 1 ELSE y[3]
    BY <2>3
  <2>5. x[1] = y[1] /\ x[2] = y[2]
    BY <1>9, <2>4
  <2>6. PICK j, k \in Nat : j = x[3] /\ k = y[3]
    BY <2>2
  <2>7. (IF x[2] = b /\ j > q THEN j + 1 ELSE j) = (IF x[2] = b /\ k > q THEN k + 1 ELSE k)
    BY <1>9, <2>4, <2>5, <2>6
  <2>8. j = k
    BY ONLY <2>2, <2>6, <2>7
  <2> QED
    BY <2>1, <2>5, <2>6, <2>8
<1>10. ASSUME NEW y \in LinksOf(w), y # z
       PROVE  \E x \in LinksOf(m) : g[x] = y
  <2>1. PICK e, a, k : e = y[1] /\ a = y[2] /\ k = y[3]
    OBVIOUS
  <2>2. /\ y = <<e, a, k>> /\ e \in Dirs(m) /\ a \in Blk /\ k \in 1 .. BS /\ a \in BlocksOf(m, e)
        /\ k <= Len(w.entries[a]) /\ w.entries[a][k].ino # 0
    BY <2>1, LinkParts
  <2>3. Len(w.entries[a]) \in Nat /\ k \in Nat
    BY <2>2, ChainIs
  <2>4. CASE a # b
    <3>1. w.entries[a] = m.entries[a]
      BY <2>2, <2>4
    <3>2. k \in 1 .. Len(m.entries[a]) /\ m.entries[a][k].ino # 0
      BY <2>2, <2>3, <3>1
    <3>3. y \in LinksOf(m)
      BY <2>2, <3>2, LinkIs
    <3> QED
      BY <1>7, <2>1, <2>4, <3>3
  <2>5. CASE a = b /\ k > q
    <3>1. e = d /\ k # q + 1
      BY <1>5, <1>10, <2>2, <2>5
    <3>2. PICK j : j = k - 1
      OBVIOUS
    <3>3. j \in (q + 1) .. L /\ j \in 1 .. L /\ j > q /\ j + 1 = k
      BY <1>2, <1>4, <2>2, <2>3, <2>5, <3>1, <3>2
    <3>4. j \in 1 .. Len(m.entries[a]) /\ m.entries[a][j].ino # 0
      BY <1>2, <1>3, <1>4, <2>2, <2>5, <3>3
    <3>5. <<e, a, j>> \in LinksOf(m)
      BY <2>2, <3>4, LinkIs
    <3>6. g[<<e, a, j>>] = <<e, a, j + 1>>
      BY <1>7, <2>5, <3>3, <3>5
    <3> QED
      BY <2>2, <3>3, <3>5, <3>6
  <2>6. CASE a = b /\ ~ (k > q)
    <3>1. k \in 1 .. q /\ k \in 1 .. L
      BY <1>4, <2>2, <2>3, <2>6
    <3>2. k \in 1 .. Len(m.entries[a]) /\ m.entries[a][k].ino # 0
      BY <1>2, <1>3, <1>4, <2>2, <2>6, <3>1
    <3>3. y \in LinksOf(m)
      BY <2>2, <3>2, LinkIs
    <3> QED
      BY <1>7, <2>1, <2>6, <3>3
  <2> QED
    BY <2>4, <2>5, <2>6
<1>11. DOMAIN View(m) = LinksOf(m) /\ DOMAIN View(w) = LinksOf(w)
  BY DEF View
<1>12. g \in [DOMAIN View(m) -> DOMAIN View(w)]
  BY <1>7, <1>8, <1>11
<1>13. Moves(View(m), View(w), g, z)
  BY <1>6, <1>8, <1>9, <1>10, <1>11, <1>12 DEF Moves
<1> QED
  BY <1>2, <1>6, <1>13 DEF Gains

-----------------------------------------------------------------------------
(***************************************************************************)
(* References: ext2_iget, iput, and the changes of a link count.           *)
(***************************************************************************)
LEMMA IgetIs ==
    ASSUME NEW m, m \in Volume, NEW i \in Ino, NEW w, w = iget(m, i)
    PROVE  /\ w \in Volume
           /\ w.freeIno = m.freeIno /\ w.freeBlk = m.freeBlk /\ w.entries = m.entries
           /\ w.raw = m.raw
           /\ w.ref = [m.ref EXCEPT ![i] = m.ref[i] + 1]
           /\ w.mem = IF m.ref[i] > 0 THEN m.mem ELSE [m.mem EXCEPT ![i] = m.raw[i]]
<1>1. m.ref \in [Ino -> Nat] /\ m.ref[i] \in Nat /\ m.raw[i] \in InodeType /\ m.mem \in [Ino -> InodeType]
  BY VolumeIs
<1>2. PICK s : s = [m.ref EXCEPT ![i] = m.ref[i] + 1]
  OBVIOUS
<1>3. s \in [Ino -> Nat]
  BY <1>1, <1>2
<1>4. CASE m.ref[i] > 0
  <2>1. w = [m EXCEPT !.ref = s]
    BY <1>2, <1>4 DEF iget
  <2> QED
    BY <1>2, <1>3, <1>4, <2>1 DEF Volume
<1>5. CASE ~ (m.ref[i] > 0)
  <2>1. m.ref[i] + 1 = 1
    BY <1>1, <1>5
  <2>2. PICK t : t = [m.mem EXCEPT ![i] = m.raw[i]]
    OBVIOUS
  <2>3. t \in [Ino -> InodeType]
    BY <1>1, <2>2
  <2>4. w = [m EXCEPT !.ref = s, !.mem = t]
    BY <1>2, <1>5, <2>1, <2>2 DEF iget
  <2> QED
    BY <1>2, <1>3, <1>5, <2>2, <2>3, <2>4 DEF Volume
<1> QED
  BY <1>4, <1>5

\* A step that leaves names, types and blocks alone needs to look at counts only.
Mild(m, w, p) ==
    /\ w.freeIno = m.freeIno /\ w.freeBlk = m.freeBlk /\ w.entries = m.entries
    /\ \A j \in Ino : w.raw[j].type = m.raw[j].type /\ w.raw[j].blocks = m.raw[j].blocks
    /\ Cached(w) /\ w.ref[Root] > 0
    /\ \A j \in m.freeIno : w.ref[j] = 0
    /\ \A j \in Given(m) : w.raw[j].nlinks >= Count(View(m), j) + p[j]
    /\ \A j \in Given(m) : w.ref[j] = 0 => w.raw[j].nlinks > 0

LEMMA Harmless ==
    ASSUME NEW m, m \in Volume, NEW o, Good(m, o), NEW w, w \in Volume, NEW p, Mild(m, w, p)
    PROVE  Good(w, p) /\ View(w) = View(m) /\ LinksOf(w) = LinksOf(m) /\ Given(w) = Given(m) /\ Dirs(w) = Dirs(m)
<1>0. /\ w.freeIno = m.freeIno /\ w.freeBlk = m.freeBlk /\ w.entries = m.entries
      /\ \A j \in Ino : w.raw[j].type = m.raw[j].type /\ w.raw[j].blocks = m.raw[j].blocks
      /\ Cached(w) /\ w.ref[Root] > 0
      /\ \A j \in m.freeIno : w.ref[j] = 0
      /\ \A j \in Given(m) : w.raw[j].nlinks >= Count(View(m), j) + p[j]
      /\ \A j \in Given(m) : w.ref[j] = 0 => w.raw[j].nlinks > 0
  BY DEF Mild
<1>1. Given(w) = Given(m)
  BY <1>0 DEF Given
<1>2. Dirs(w) = Dirs(m)
  BY <1>0, <1>1 DEF Dirs, Given
<1>3. \A j \in Ino : BlocksOf(w, j) = BlocksOf(m, j)
  BY <1>0 DEF BlocksOf
<1>4. Given(m) \subseteq Ino /\ Dirs(m) \subseteq Ino
  BY DEF Given, Dirs
<1>5. LinksOf(w) = LinksOf(m) /\ View(w) = View(m)
  <2>1. \A d \in Dirs(m) : BlocksOf(w, d) = BlocksOf(m, d)
    BY <1>3, <1>4
  <2> QED
    BY <1>0, <1>2, <2>1, ViewSame
<1>6. Unused(w)
  BY <1>0, <1>1, <1>5 DEF Good, Unused
<1>7. Placed(w)
  <2>1. Placed(m)
    BY DEF Good
  <2>2. /\ \A i, j \in Given(w) : \A k \in 1 .. Len(w.raw[i].blocks), h \in 1 .. Len(w.raw[j].blocks) :
              w.raw[i].blocks[k] = w.raw[j].blocks[h] => i = j /\ k = h
    <3>1. \A j \in Ino : w.raw[j].blocks = m.raw[j].blocks
      BY <1>0
    <3>2. \A i, j \in Given(m) : \A k \in 1 .. Len(m.raw[i].blocks), h \in 1 .. Len(m.raw[j].blocks) :
              m.raw[i].blocks[k] = m.raw[j].blocks[h] => i = j /\ k = h
      BY <2>1 DEF Placed
    <3>3. SUFFICES ASSUME NEW i \in Given(w), NEW j \in Given(w), NEW k \in 1 .. Len(w.raw[i].blocks),
                          NEW h \in 1 .. Len(w.raw[j].blocks), w.raw[i].blocks[k] = w.raw[j].blocks[h]
                   PROVE  i = j /\ k = h
      OBVIOUS
    <3>4. i \in Given(m) /\ j \in Given(m) /\ w.raw[i].blocks = m.raw[i].blocks /\ w.raw[j].blocks = m.raw[j].blocks
      BY ONLY <1>1, <1>4, <3>1, i \in Given(w), j \in Given(w)
    <3>5. k \in 1 .. Len(m.raw[i].blocks) /\ h \in 1 .. Len(m.raw[j].blocks) /\ m.raw[i].blocks[k] = m.raw[j].blocks[h]
      BY <3>3, <3>4
    <3> QED
      BY ONLY <3>2, <3>4, <3>5
  <2>3. /\ \A i \in Given(w) : BlocksOf(w, i) \cap w.freeBlk = {}
        /\ \A b \in Blk \ w.freeBlk : \E i \in Given(w) : b \in BlocksOf(w, i)
    BY <1>0, <1>1, <1>3, <1>4, <2>1 DEF Placed
  <2> QED
    BY <2>2, <2>3 DEF Placed
<1>8. Arranged(w)
  <2>1. Arranged(m)
    BY DEF Good
  <2>2. \A d \in Dirs(w), b \in Blk : b \in BlocksOf(w, d) => Tiled(w.entries[b])
    BY <1>0, <1>2, <1>3, <1>4, <2>1 DEF Arranged
  <2>3. /\ \A d \in Dirs(w) : /\ Len(w.raw[d].blocks) >= 1 /\ Len(w.entries[w.raw[d].blocks[1]]) >= 1
                              /\ w.entries[w.raw[d].blocks[1]][1].ino = d
                              /\ w.entries[w.raw[d].blocks[1]][1].name = Dot
        /\ \A i \in Given(w) \ Dirs(w) : w.raw[i].blocks = <<>>
    BY <1>0, <1>1, <1>2, <1>4, <2>1 DEF Arranged
  <2> QED
    BY <2>2, <2>3 DEF Arranged
<1>9. OneName(View(w))
  BY <1>5 DEF Good
<1>10. Counted(w, p)
  BY <1>0, <1>1, <1>5 DEF Counted
<1>11. Good(w, p)
  BY <1>0, <1>6, <1>7, <1>8, <1>9, <1>10 DEF Good
<1> QED
  BY <1>1, <1>2, <1>5, <1>11

LEMMA GoodParts ==
    ASSUME NEW m, m \in Volume, NEW o, Good(m, o)
    PROVE  /\ \A j \in Ino : m.ref[j] \in Nat /\ m.raw[j] \in InodeType /\ m.raw[j].nlinks \in Nat
           /\ \A j \in Ino : m.ref[j] > 0 => m.mem[j] = m.raw[j] /\ j \in Given(m)
           /\ \A j \in m.freeIno : m.ref[j] = 0
           /\ m.ref[Root] > 0 /\ Root \in Given(m)
           /\ \A j \in Given(m) : m.raw[j].nlinks >= Count(View(m), j) + o[j]
           /\ \A j \in Given(m) : m.ref[j] = 0 => m.raw[j].nlinks > 0
           /\ \A j : Count(View(m), j) \in Nat
           /\ Given(m) \subseteq Ino /\ Dirs(m) \subseteq Given(m)
<1>1. \A j \in Ino : m.ref[j] \in Nat /\ m.raw[j] \in InodeType /\ m.raw[j].nlinks \in Nat
  <2>1. \A j \in Ino : m.ref[j] \in Nat /\ m.raw[j] \in InodeType
    BY VolumeIs
  <2> QED
    BY <2>1, InodeIs
<1>2. \A j \in m.freeIno : m.ref[j] = 0
  BY DEF Good, Unused
<1>3. \A j \in Ino : m.ref[j] > 0 => m.mem[j] = m.raw[j] /\ j \in Given(m)
  BY <1>1, <1>2 DEF Good, Cached, Given
<1>4. m.ref[Root] > 0 /\ Root \in Given(m)
  BY <1>3, SomeNumbers DEF Good, Unused
<1>5. ASSUME NEW j
      PROVE  Count(View(m), j) \in Nat
  <2>1. IsFiniteSet(DOMAIN View(m))
    BY LinksFinite
  <2>2. IsFiniteSet({x \in DOMAIN View(m) : View(m)[x][3] = j})
    BY <2>1, FS_Subset
  <2> QED
    BY <2>2, FS_CardinalityType DEF Count
<1> QED
  BY <1>1, <1>2, <1>3, <1>4, <1>5 DEF Good, Counted, Given, Dirs

LEMMA IgetGood ==
    ASSUME NEW m, m \in Volume, NEW o, Good(m, o), NEW i \in Given(m), NEW w, w = iget(m, i)
    PROVE  w \in Volume /\ Good(w, o) /\ View(w) = View(m) /\ Dirs(w) = Dirs(m) /\ Given(w) = Given(m)
<1>0. i \in Ino
  BY DEF Given
<1>1. /\ w \in Volume
      /\ w.freeIno = m.freeIno /\ w.freeBlk = m.freeBlk /\ w.entries = m.entries
      /\ w.raw = m.raw
      /\ w.ref = [m.ref EXCEPT ![i] = m.ref[i] + 1]
      /\ w.mem = IF m.ref[i] > 0 THEN m.mem ELSE [m.mem EXCEPT ![i] = m.raw[i]]
  BY <1>0, IgetIs
<1>2. /\ \A j \in Ino : j # i => w.ref[j] = m.ref[j] /\ w.mem[j] = m.mem[j]
      /\ w.ref[i] = m.ref[i] + 1 /\ (m.ref[i] > 0 => w.mem[i] = m.mem[i]) /\ (~ (m.ref[i] > 0) => w.mem[i] = m.raw[i])
  BY <1>0, <1>1, VolumeIs
<1>3. Cached(w)
  BY <1>1, <1>2, GoodParts DEF Cached
<1>4. w.ref[Root] > 0
  BY <1>0, <1>2, GoodParts, SomeNumbers
<1>5. \A j \in m.freeIno : w.ref[j] = 0
  BY <1>1, <1>2, GoodParts, VolumeIs DEF Given
<1>6. \A j \in Given(m) : w.raw[j].nlinks >= Count(View(m), j) + o[j]
  BY <1>1, GoodParts
<1>7. \A j \in Given(m) : w.ref[j] = 0 => w.raw[j].nlinks > 0
  BY <1>0, <1>1, <1>2, GoodParts
<1>8. \A j \in Ino : w.raw[j].type = m.raw[j].type /\ w.raw[j].blocks = m.raw[j].blocks
  BY <1>1
<1>9. Mild(m, w, o)
  BY <1>1, <1>3, <1>4, <1>5, <1>6, <1>7, <1>8 DEF Mild
<1> QED
  BY <1>1, <1>9, Harmless

LEMMA CountPositive ==
    ASSUME NEW m, NEW x \in LinksOf(m)
    PROVE  Count(View(m), View(m)[x][3]) >= 1
<1>1. PICK S : S = {y \in DOMAIN View(m) : View(m)[y][3] = View(m)[x][3]}
  OBVIOUS
<1>2. IsFiniteSet(S) /\ x \in S
  BY <1>1, LinksFinite, FS_Subset
<1>3. Cardinality(S) \in Nat /\ Cardinality(S) # 0
  BY <1>2, FS_CardinalityType, FS_EmptySet
<1> QED
  BY <1>1, <1>3 DEF Count

\* A directory is named at least by its own ".", so its link count stays positive.
LEMMA DotCounts ==
    ASSUME NEW m, m \in Volume, Arranged(m), NEW d \in Dirs(m)
    PROVE  Count(View(m), d) >= 1
<1>1. d \in Ino /\ 0 \notin Ino
  BY SomeNumbers DEF Dirs, Given
<1>2. PICK b : b = m.raw[d].blocks[1]
  OBVIOUS
<1>3. Len(m.raw[d].blocks) >= 1 /\ Len(m.entries[b]) >= 1 /\ m.entries[b][1].ino = d
  BY <1>2 DEF Arranged
<1>4. b \in BlocksOf(m, d) /\ b \in Blk
  BY <1>1, <1>2, <1>3, BlocksIs
<1>5. 1 \in 1 .. Len(m.entries[b])
  BY <1>3, <1>4, ChainIs
<1>6. <<d, b, 1>> \in LinksOf(m) /\ View(m)[<<d, b, 1>>][3] = d
  BY <1>1, <1>3, <1>4, <1>5, LinkIs
<1> QED
  BY <1>6, CountPositive

LEMMA SetLinksIs ==
    ASSUME NEW m, m \in Volume, NEW i \in Ino, NEW k \in Nat, m.mem[i] = m.raw[i],
           NEW w, w = WriteInode([m EXCEPT !.mem[i].nlinks = k], i)
    PROVE  /\ w \in Volume
           /\ w.freeIno = m.freeIno /\ w.freeBlk = m.freeBlk /\ w.entries = m.entries
           /\ w.ref = m.ref
           /\ \A j \in Ino : j # i => w.raw[j] = m.raw[j] /\ w.mem[j] = m.mem[j]
           /\ w.mem[i] = w.raw[i]
           /\ w.raw[i].type = m.raw[i].type /\ w.raw[i].blocks = m.raw[i].blocks /\ w.raw[i].nlinks = k
<1>1. PICK x : x = [m.raw[i] EXCEPT !.nlinks = k]
  OBVIOUS
<1>2. m.raw[i] \in InodeType /\ m.raw \in [Ino -> InodeType] /\ m.mem \in [Ino -> InodeType]
  BY VolumeIs
<1>3. x \in InodeType /\ x.type = m.raw[i].type /\ x.blocks = m.raw[i].blocks /\ x.nlinks = k
  BY <1>1, <1>2 DEF InodeType
<1>4. PICK r, t : r = [m.raw EXCEPT ![i] = x] /\ t = [m.mem EXCEPT ![i] = x]
  OBVIOUS
<1>5. r \in [Ino -> InodeType] /\ t \in [Ino -> InodeType] /\ r[i] = x /\ t[i] = x
      /\ \A j \in Ino : j # i => r[j] = m.raw[j] /\ t[j] = m.mem[j]
  BY <1>2, <1>3, <1>4
<1>6. [m EXCEPT !.mem[i].nlinks = k] = [m EXCEPT !.mem = t]
  BY <1>1, <1>4
<1>7. w = [m EXCEPT !.mem = t, !.raw = r]
  <2>1. PICK n : n = [m EXCEPT !.mem = t]
    OBVIOUS
  <2>2. n.mem = t /\ n.raw = m.raw
    BY <2>1 DEF Volume
  <2>3. w = [n EXCEPT !.raw = r]
    BY <1>4, <1>5, <1>6, <2>1, <2>2 DEF WriteInode
  <2> QED
    BY <2>1, <2>3 DEF Volume
<1> QED
  BY <1>3, <1>5, <1>7 DEF Volume

LEMMA SetLinksGood ==
    ASSUME NEW m, m \in Volume, NEW o \in [Ino -> Int], Good(m, o), NEW i \in Ino, m.ref[i] > 0, NEW k \in Nat,
           NEW w, w = WriteInode([m EXCEPT !.mem[i].nlinks = k], i),
           NEW p \in [Ino -> Int], \A j \in Ino : j # i => p[j] = o[j], p[i] = o[i] + (k - m.raw[i].nlinks)
    PROVE  w \in Volume /\ Good(w, p) /\ View(w) = View(m) /\ Dirs(w) = Dirs(m) /\ Given(w) = Given(m)
           /\ w.ref = m.ref
<1>1. m.mem[i] = m.raw[i] /\ i \in Given(m)
  BY GoodParts
<1>2. /\ w \in Volume
      /\ w.freeIno = m.freeIno /\ w.freeBlk = m.freeBlk /\ w.entries = m.entries
      /\ w.ref = m.ref
      /\ \A j \in Ino : j # i => w.raw[j] = m.raw[j] /\ w.mem[j] = m.mem[j]
      /\ w.mem[i] = w.raw[i]
      /\ w.raw[i].type = m.raw[i].type /\ w.raw[i].blocks = m.raw[i].blocks /\ w.raw[i].nlinks = k
  BY <1>1, SetLinksIs
<1>3. Cached(w)
  BY <1>2, GoodParts DEF Cached
<1>4. \A j \in Ino : w.raw[j].type = m.raw[j].type /\ w.raw[j].blocks = m.raw[j].blocks
  BY <1>2
<1>5. ASSUME NEW j \in Given(m)
      PROVE  w.raw[j].nlinks >= Count(View(m), j) + p[j]
  <2>1. j \in Ino /\ m.raw[j].nlinks >= Count(View(m), j) + o[j]
    BY GoodParts
  <2>2. PICK a, v \in Nat : a = Count(View(m), j) /\ v = m.raw[j].nlinks
    BY <2>1, GoodParts
  <2>3. PICK u \in Int : u = o[j]
    BY <2>1
  <2>4. CASE j = i
    <3>1. v >= a + u /\ w.raw[j].nlinks = k /\ p[j] = u + (k - v)
      BY <1>2, <2>1, <2>2, <2>3, <2>4
    <3>2. k >= a + (u + (k - v))
      BY ONLY <3>1, <2>2, <2>3, k \in Nat
    <3> QED
      BY <2>2, <3>1, <3>2
  <2>5. CASE j # i
    BY <1>2, <2>1, <2>5
  <2> QED
    BY <2>4, <2>5
<1>6. \A j \in Given(m) : w.ref[j] = 0 => w.raw[j].nlinks > 0
  BY <1>2, GoodParts
<1>7. w.ref[Root] > 0 /\ \A j \in m.freeIno : w.ref[j] = 0
  BY <1>2, GoodParts
<1>8. Mild(m, w, p)
  BY <1>2, <1>3, <1>4, <1>5, <1>6, <1>7 DEF Mild
<1> QED
  BY <1>2, <1>8, Harmless

\* iput, when other references remain.
LEMMA IputKeeps ==
    ASSUME NEW m, m \in Volume, NEW o, Good(m, o), NEW i \in Ino, m.ref[i] > 0,
           m.ref[i] > 1 \/ i = Root, NEW w, w = iput(m, i)
    PROVE  w \in Volume /\ Good(w, o) /\ View(w) = View(m)
<1>1. m.ref \in [Ino -> Nat] /\ m.ref[i] \in Nat
  BY VolumeIs
<1>2. PICK k \in Nat : k = m.ref[i]
  BY <1>1
<1>3. PICK r : r = [m.ref EXCEPT ![i] = IF k > 1 THEN k - 1 ELSE 1]
  OBVIOUS
<1>4. r \in [Ino -> Nat] /\ r[i] > 0 /\ \A j \in Ino : j # i => r[j] = m.ref[j]
  BY <1>1, <1>2, <1>3
<1>5. w = [m EXCEPT !.ref = r]
  <2>1. PICK n : n = [m EXCEPT !.ref[i] = m.ref[i] - 1]
    OBVIOUS
  <2>2. n = [m EXCEPT !.ref = [m.ref EXCEPT ![i] = k - 1]] /\ n.ref = [m.ref EXCEPT ![i] = k - 1] /\ n.ref[i] = k - 1
    BY <1>1, <1>2, <2>1 DEF Volume
  <2>3. CASE k > 1
    <3>1. n.ref[i] > 0
      BY <1>2, <2>2, <2>3
    <3>2. w = n
      BY <2>1, <3>1 DEF iput
    <3> QED
      BY <1>3, <2>2, <2>3, <3>2
  <2>4. CASE ~ (k > 1)
    <3>1. ~ (n.ref[i] > 0) /\ i = Root
      BY <1>2, <2>2, <2>4
    <3>2. w = [n EXCEPT !.ref[i] = 1]
      BY <2>1, <3>1 DEF iput
    <3>3. [n.ref EXCEPT ![i] = 1] = r
      BY <1>1, <1>3, <2>2, <2>4
    <3>4. w = [n EXCEPT !.ref = r]
      BY <3>2, <3>3
    <3> QED
      BY <2>2, <3>4 DEF Volume
  <2> QED
    BY <2>3, <2>4
<1>6. /\ w \in Volume
      /\ w.freeIno = m.freeIno /\ w.freeBlk = m.freeBlk /\ w.entries = m.entries
      /\ w.raw = m.raw /\ w.mem = m.mem /\ w.ref = r
  BY <1>4, <1>5 DEF Volume
<1>7. Cached(w)
  BY <1>2, <1>4, <1>6, GoodParts DEF Cached
<1>8. w.ref[Root] > 0
  BY <1>4, <1>6, GoodParts, SomeNumbers
<1>9. \A j \in m.freeIno : w.ref[j] = 0
  BY <1>4, <1>6, GoodParts, VolumeIs
<1>10. \A j \in Given(m) : w.ref[j] = 0 => w.raw[j].nlinks > 0
  BY <1>4, <1>6, GoodParts
<1>11. \A j \in Given(m) : w.raw[j].nlinks >= Count(View(m), j) + o[j]
  BY <1>6, GoodParts
<1>12. Mild(m, w, o)
  BY <1>6, <1>7, <1>8, <1>9, <1>10, <1>11 DEF Mild
<1> QED
  BY <1>6, <1>12, Harmless

\* iput of the last reference, when names remain.
LEMMA IputDrops ==
    ASSUME NEW m, m \in Volume, NEW o, Good(m, o), NEW i \in Ino, m.ref[i] = 1, i # Root,
           m.mem[i].nlinks # 0, NEW w, w = iput(m, i)
    PROVE  w \in Volume /\ Good(w, o) /\ View(w) = View(m)
<1>1. m.ref \in [Ino -> Nat] /\ m.mem \in [Ino -> InodeType] /\ m.mem[i] = m.raw[i]
  BY VolumeIs, GoodParts
<1>2. PICK r, t : r = [m.ref EXCEPT ![i] = 0] /\ t = [m.mem EXCEPT ![i] = NotCached]
  OBVIOUS
<1>3. NotCached \in InodeType
  BY DEF NotCached, Inode, InodeType
<1>4. /\ r \in [Ino -> Nat] /\ t \in [Ino -> InodeType] /\ r[i] = 0
      /\ \A j \in Ino : j # i => r[j] = m.ref[j] /\ t[j] = m.mem[j]
  BY <1>1, <1>2, <1>3
<1>5. w = [m EXCEPT !.ref = r, !.mem = t]
  <2>1. PICK n : n = [m EXCEPT !.ref[i] = m.ref[i] - 1]
    OBVIOUS
  <2>2. n = [m EXCEPT !.ref = r] /\ n.ref = r /\ n.ref[i] = 0 /\ n.mem = m.mem
    BY <1>1, <1>2, <1>4, <2>1 DEF Volume
  <2>3. w = Dropped(n, i)
    BY <2>1, <2>2 DEF iput
  <2>4. w = [n EXCEPT !.mem = t]
    BY <1>2, <2>2, <2>3 DEF Dropped
  <2> QED
    BY <2>2, <2>4 DEF Volume
<1>6. /\ w \in Volume
      /\ w.freeIno = m.freeIno /\ w.freeBlk = m.freeBlk /\ w.entries = m.entries
      /\ w.raw = m.raw /\ w.mem = t /\ w.ref = r
  BY <1>4, <1>5 DEF Volume
<1>7. Cached(w)
  BY <1>4, <1>6, GoodParts DEF Cached
<1>8. w.ref[Root] > 0
  BY <1>4, <1>6, GoodParts, SomeNumbers
<1>9. \A j \in m.freeIno : w.ref[j] = 0
  BY <1>4, <1>6, GoodParts, VolumeIs
<1>10. ASSUME NEW j \in Given(m), w.ref[j] = 0
       PROVE  w.raw[j].nlinks > 0
  <2>1. j \in Ino /\ m.raw[j].nlinks \in Nat
    BY GoodParts
  <2>2. CASE j = i
    BY <1>1, <1>6, <2>1, <2>2
  <2>3. CASE j # i
    BY <1>4, <1>6, <1>10, <2>1, <2>3, GoodParts
  <2> QED
    BY <2>2, <2>3
<1>11. \A j \in Given(m) : w.raw[j].nlinks >= Count(View(m), j) + o[j]
  BY <1>6, GoodParts
<1>12. Mild(m, w, o)
  BY <1>6, <1>7, <1>8, <1>9, <1>10, <1>11 DEF Mild
<1> QED
  BY <1>6, <1>12, Harmless

\* iput of the last reference to a file without names, which is freed.
LEMMA IputFrees ==
    ASSUME NEW m, m \in Volume, NEW o, Good(m, o), NEW i \in Ino, o[i] = 0, m.ref[i] = 1, i # Root,
           m.mem[i].nlinks = 0, NEW w, w = iput(m, i)
    PROVE  w \in Volume /\ Good(w, o) /\ View(w) = View(m)
<1>1. /\ m.ref \in [Ino -> Nat] /\ m.mem \in [Ino -> InodeType] /\ m.raw \in [Ino -> InodeType]
      /\ m.mem[i] = m.raw[i] /\ i \in Given(m)
  BY VolumeIs, GoodParts
<1>2. Count(View(m), i) = 0
  <2>1. m.raw[i].nlinks >= Count(View(m), i) + o[i]
    BY <1>1, GoodParts
  <2>2. PICK a \in Nat : a = Count(View(m), i)
    BY GoodParts
  <2>3. 0 >= a + 0
    BY <1>1, <2>1, <2>2
  <2>4. a = 0
    BY ONLY <2>2, <2>3
  <2> QED
    BY <2>2, <2>4
<1>3. i \notin Dirs(m)
  <2>1. ASSUME i \in Dirs(m)
        PROVE  FALSE
    <3>1. Count(View(m), i) >= 1
      BY <2>1, DotCounts DEF Good
    <3> QED
      BY <1>2, <3>1
  <2> QED
    BY <2>1
<1>4. m.raw[i].blocks = <<>> /\ BlocksOf(m, i) = {}
  <2>1. m.raw[i].blocks = <<>>
    BY <1>1, <1>3 DEF Good, Arranged
  <2>2. Len(<<>>) = 0
    OBVIOUS
  <2> QED
    BY <2>1, <2>2 DEF BlocksOf
<1>5. PICK x : x = [m.mem[i] EXCEPT !.blocks = <<>>]
  OBVIOUS
<1>6. x \in InodeType
  <2>1. <<>> \in Seq(Blk) /\ m.mem[i] \in InodeType
    BY <1>1
  <2> QED
    BY <1>5, <2>1 DEF InodeType
<1>7. PICK r, t, u : r = [m.ref EXCEPT ![i] = 0] /\ t = [m.mem EXCEPT ![i] = NotCached] /\ u = [m.raw EXCEPT ![i] = x]
  OBVIOUS
<1>8. NotCached \in InodeType
  BY DEF NotCached, Inode, InodeType
<1>9. /\ r \in [Ino -> Nat] /\ t \in [Ino -> InodeType] /\ u \in [Ino -> InodeType] /\ r[i] = 0
      /\ \A j \in Ino : j # i => r[j] = m.ref[j] /\ t[j] = m.mem[j] /\ u[j] = m.raw[j]
  BY <1>1, <1>6, <1>7, <1>8
<1>10. PICK F : F = m.freeIno \cup {i}
  OBVIOUS
<1>11. w = [m EXCEPT !.freeIno = F, !.ref = r, !.mem = t, !.raw = u]
  <2>1. PICK n : n = [m EXCEPT !.ref[i] = m.ref[i] - 1]
    OBVIOUS
  <2>2. n = [m EXCEPT !.ref = r] /\ n.ref = r /\ n.ref[i] = 0 /\ n.mem = m.mem /\ n.raw = m.raw
        /\ n.freeBlk = m.freeBlk /\ n.freeIno = m.freeIno
    BY <1>1, <1>7, <1>9, <2>1 DEF Volume
  <2>3. PICK e : e = [n EXCEPT !.mem[i].blocks = <<>>]
    OBVIOUS
  <2>4. w = Dropped(FreeIno(FreeBlks(WriteInode(e, i), Blocks(n, i)), i), i)
    <3>1. ~ (n.ref[i] > 0) /\ i # Root /\ n.mem[i].nlinks = 0
      BY <2>2
    <3> QED
      BY ONLY <2>1, <2>3, <3>1, w = iput(m, i) DEF iput
  <2>5. Blocks(n, i) = {}
    <3>1. n.mem[i].blocks = <<>>
      BY <1>1, <1>4, <2>2
    <3>2. Len(<<>>) = 0
      OBVIOUS
    <3> QED
      BY <3>1, <3>2 DEF Blocks
  <2>6. PICK v : v = [m.mem EXCEPT ![i] = x]
    OBVIOUS
  <2>7. e = [n EXCEPT !.mem = v] /\ v[i] = x
    BY <1>1, <1>5, <2>2, <2>3, <2>6
  <2>8. e = [m EXCEPT !.ref = r, !.mem = v]
    BY <2>2, <2>7 DEF Volume
  <2>9. WriteInode(e, i) = [m EXCEPT !.ref = r, !.mem = v, !.raw = u]
    <3>1. e.mem[i] = x /\ e.raw = m.raw
      BY <2>7, <2>8 DEF Volume
    <3>2. WriteInode(e, i) = [e EXCEPT !.raw = u]
      BY <1>7, <3>1 DEF WriteInode
    <3> QED
      BY <2>8, <3>2 DEF Volume
  <2>10. PICK f : f = WriteInode(e, i)
    OBVIOUS
  <2>11. FreeBlks(f, {}) = f
    BY <2>9, <2>10 DEF FreeBlks, Volume
  <2>12. FreeIno(f, i) = [m EXCEPT !.ref = r, !.mem = v, !.raw = u, !.freeIno = F]
    BY <1>10, <2>9, <2>10 DEF FreeIno, Volume
  <2>13. PICK h : h = FreeIno(f, i)
    OBVIOUS
  <2>14. h.mem = v /\ [v EXCEPT ![i] = NotCached] = t
    BY <1>1, <1>7, <2>6, <2>12, <2>13 DEF Volume
  <2>15. Dropped(h, i) = [h EXCEPT !.mem = t]
    BY <2>14 DEF Dropped
  <2>16. w = [h EXCEPT !.mem = t]
    BY <2>4, <2>5, <2>10, <2>11, <2>13, <2>15
  <2> QED
    BY <2>12, <2>13, <2>16 DEF Volume
<1>12. /\ w \in Volume
       /\ w.freeIno = F /\ w.freeBlk = m.freeBlk /\ w.entries = m.entries
       /\ w.raw = u /\ w.mem = t /\ w.ref = r
  <2>1. F \subseteq Ino
    BY <1>10, VolumeIs
  <2> QED
    BY <1>9, <1>11, <2>1 DEF Volume
<1>13. Given(w) = Given(m) \ {i} /\ Given(m) \subseteq Ino /\ Dirs(m) \subseteq Given(m)
  BY <1>10, <1>12 DEF Given, Dirs
<1>14. Dirs(w) = Dirs(m)
  <2>1. \A j \in Given(w) : j \in Given(m) /\ w.raw[j] = m.raw[j]
    BY <1>9, <1>12, <1>13
  <2>2. \A j \in Dirs(m) : j \in Given(w)
    BY <1>3, <1>13
  <2> QED
    BY <2>1, <2>2 DEF Dirs
<1>15. \A j \in Given(w) : j # i /\ w.raw[j] = m.raw[j] /\ BlocksOf(w, j) = BlocksOf(m, j)
  BY <1>9, <1>12, <1>13 DEF BlocksOf
<1>16. LinksOf(w) = LinksOf(m) /\ View(w) = View(m)
  <2>1. \A d \in Dirs(m) : BlocksOf(w, d) = BlocksOf(m, d)
    BY <1>3, <1>13, <1>15
  <2> QED
    BY <1>12, <1>14, <2>1, ViewSame
<1>17. Cached(w)
  BY <1>9, <1>12, GoodParts DEF Cached
<1>18. Unused(w)
  <2>1. ASSUME NEW y \in LinksOf(m)
        PROVE  View(m)[y][3] \in Given(m) \ {i}
    <3>1. View(m)[y][3] \in Given(m)
      BY DEF Good, Unused
    <3>2. Count(View(m), View(m)[y][3]) >= 1
      BY CountPositive
    <3> QED
      BY <1>2, <3>1, <3>2
  <2>2. \A j \in w.freeIno : w.ref[j] = 0
    <3>1. SUFFICES ASSUME NEW j \in w.freeIno
                   PROVE  w.ref[j] = 0
      OBVIOUS
    <3>2. CASE j = i
      BY <1>2, <1>9, <1>12, <3>2
    <3>3. CASE j # i
      <4>1. j \in m.freeIno /\ j \in Ino
        BY <1>10, <1>12, <3>1, <3>3, VolumeIs
      <4> QED
        BY <1>9, <1>12, <3>3, <4>1, GoodParts
    <3> QED
      BY <3>2, <3>3
  <2>3. w.ref[Root] > 0
    BY <1>9, <1>12, GoodParts, SomeNumbers
  <2> QED
    BY <1>13, <1>16, <2>1, <2>2, <2>3 DEF Unused
<1>19. Placed(w)
  <2>1. /\ \A h, j \in Given(m) : \A k \in 1 .. Len(m.raw[h].blocks), l \in 1 .. Len(m.raw[j].blocks) :
              m.raw[h].blocks[k] = m.raw[j].blocks[l] => h = j /\ k = l
        /\ \A h \in Given(m) : BlocksOf(m, h) \cap m.freeBlk = {}
        /\ \A b \in Blk \ m.freeBlk : \E h \in Given(m) : b \in BlocksOf(m, h)
    BY DEF Good, Placed
  <2>2. \A h, j \in Given(w) : \A k \in 1 .. Len(w.raw[h].blocks), l \in 1 .. Len(w.raw[j].blocks) :
              w.raw[h].blocks[k] = w.raw[j].blocks[l] => h = j /\ k = l
    <3>1. \A h \in Given(w) : h \in Given(m) /\ w.raw[h].blocks = m.raw[h].blocks
      BY <1>13, <1>15
    <3>2. \A h, j \in Given(m) : \A k \in 1 .. Len(m.raw[h].blocks), l \in 1 .. Len(m.raw[j].blocks) :
              m.raw[h].blocks[k] = m.raw[j].blocks[l] => h = j /\ k = l
      BY <2>1
    <3>3. SUFFICES ASSUME NEW h \in Given(w), NEW j \in Given(w), NEW k \in 1 .. Len(w.raw[h].blocks),
                          NEW l \in 1 .. Len(w.raw[j].blocks), w.raw[h].blocks[k] = w.raw[j].blocks[l]
                   PROVE  h = j /\ k = l
      OBVIOUS
    <3>4. h \in Given(m) /\ j \in Given(m) /\ w.raw[h].blocks = m.raw[h].blocks /\ w.raw[j].blocks = m.raw[j].blocks
      BY ONLY <3>1, h \in Given(w), j \in Given(w)
    <3>5. k \in 1 .. Len(m.raw[h].blocks) /\ l \in 1 .. Len(m.raw[j].blocks) /\ m.raw[h].blocks[k] = m.raw[j].blocks[l]
      BY <3>3, <3>4
    <3> QED
      BY ONLY <3>2, <3>4, <3>5
  <2>3. \A h \in Given(w) : BlocksOf(w, h) \cap w.freeBlk = {}
    BY <1>12, <1>13, <1>15, <2>1
  <2>4. ASSUME NEW b \in Blk \ w.freeBlk
        PROVE  \E h \in Given(w) : b \in BlocksOf(w, h)
    <3>1. PICK h \in Given(m) : b \in BlocksOf(m, h)
      BY <1>12, <2>1
    <3>2. h # i
      BY <1>4, <3>1
    <3> QED
      BY <1>13, <1>15, <3>1, <3>2
  <2> QED
    BY <2>2, <2>3, <2>4 DEF Placed
<1>20. Arranged(w)
  <2>1. /\ \A d \in Dirs(m), b \in Blk : b \in BlocksOf(m, d) => Tiled(m.entries[b])
        /\ \A d \in Dirs(m) : /\ Len(m.raw[d].blocks) >= 1 /\ Len(m.entries[m.raw[d].blocks[1]]) >= 1
                              /\ m.entries[m.raw[d].blocks[1]][1].ino = d
                              /\ m.entries[m.raw[d].blocks[1]][1].name = Dot
        /\ \A j \in Given(m) \ Dirs(m) : m.raw[j].blocks = <<>>
    BY DEF Good, Arranged
  <2>2. \A d \in Dirs(m) : w.raw[d] = m.raw[d] /\ BlocksOf(w, d) = BlocksOf(m, d)
    BY <1>3, <1>13, <1>15
  <2>3. /\ \A d \in Dirs(w), b \in Blk : b \in BlocksOf(w, d) => Tiled(w.entries[b])
        /\ \A d \in Dirs(w) : /\ Len(w.raw[d].blocks) >= 1 /\ Len(w.entries[w.raw[d].blocks[1]]) >= 1
                              /\ w.entries[w.raw[d].blocks[1]][1].ino = d
                              /\ w.entries[w.raw[d].blocks[1]][1].name = Dot
    BY <1>12, <1>14, <2>1, <2>2
  <2>4. \A j \in Given(w) \ Dirs(w) : w.raw[j].blocks = <<>>
    BY <1>13, <1>14, <1>15, <2>1
  <2> QED
    BY <2>3, <2>4 DEF Arranged
<1>21. Counted(w, o)
  BY <1>9, <1>12, <1>13, <1>15, <1>16, GoodParts DEF Counted
<1>22. OneName(View(w))
  BY <1>16 DEF Good
<1> QED
  BY <1>12, <1>16, <1>17, <1>18, <1>19, <1>20, <1>21, <1>22 DEF Good

\* iput keeps the invariant and all names.
LEMMA IputGood ==
    ASSUME NEW m, m \in Volume, NEW o, Good(m, o), NEW i \in Ino, o[i] = 0, m.ref[i] > 0, NEW w, w = iput(m, i)
    PROVE  w \in Volume /\ Good(w, o) /\ View(w) = View(m)
<1>1. m.ref[i] \in Nat
  BY VolumeIs
<1>2. CASE m.ref[i] > 1 \/ i = Root
  BY <1>2, IputKeeps
<1>3. CASE m.ref[i] = 1 /\ i # Root /\ m.mem[i].nlinks # 0
  BY <1>3, IputDrops
<1>4. CASE m.ref[i] = 1 /\ i # Root /\ m.mem[i].nlinks = 0
  BY <1>4, IputFrees
<1> QED
  BY <1>1, <1>2, <1>3, <1>4

\* ext2_unlink: an entry for i has been taken away, which its link count still has.
Debt(i, k) == [j \in Ino |-> IF j = i THEN k ELSE 0]

LEMMA UnlinkedGood ==
    ASSUME NEW m, m \in Volume, NEW i \in Given(m), Good(m, Debt(i, 1)), NEW w, w = Unlinked(m, i)
    PROVE  w \in Volume /\ Good(w, NoDebt) /\ View(w) = View(m)
<1>0. i \in Ino
  BY DEF Given
<1>1. PICK g : g = iget(m, i)
  OBVIOUS
<1>2. /\ g \in Volume /\ Good(g, Debt(i, 1)) /\ View(g) = View(m) /\ i \in Given(g)
      /\ g.ref[i] = m.ref[i] + 1 /\ g.raw = m.raw
  <2>1. g \in Volume /\ Good(g, Debt(i, 1)) /\ View(g) = View(m) /\ Given(g) = Given(m)
    BY <1>1, IgetGood
  <2>2. /\ g \in Volume
        /\ g.freeIno = m.freeIno /\ g.freeBlk = m.freeBlk /\ g.entries = m.entries
        /\ g.raw = m.raw
        /\ g.ref = [m.ref EXCEPT ![i] = m.ref[i] + 1]
        /\ g.mem = IF m.ref[i] > 0 THEN m.mem ELSE [m.mem EXCEPT ![i] = m.raw[i]]
    BY <1>0, <1>1, IgetIs
  <2> QED
    BY <1>0, <2>1, <2>2, VolumeIs
<1>3. g.ref[i] > 0 /\ g.mem[i] = g.raw[i]
  <2>1. m.ref[i] \in Nat
    BY <1>0, VolumeIs
  <2>2. g.ref[i] > 0
    BY <1>2, <2>1
  <2> QED
    BY <1>0, <1>2, <2>2, GoodParts
<1>4. PICK v \in Nat : v = g.mem[i].nlinks
  BY <1>0, <1>2, <1>3, GoodParts
<1>5. v > 0
  <2>1. g.raw[i].nlinks >= Count(View(g), i) + 1
    BY <1>0, <1>2, GoodParts DEF Debt
  <2>2. PICK a \in Nat : a = Count(View(g), i)
    BY <1>0, <1>2, GoodParts
  <2>3. v >= a + 1
    BY <1>3, <1>4, <2>1, <2>2
  <2> QED
    BY ONLY <1>4, <2>2, <2>3
<1>6. PICK k \in Nat : k = v - 1
  BY <1>4, <1>5
<1>7. PICK n : n = WriteInode([g EXCEPT !.mem[i].nlinks = k], i)
  OBVIOUS
<1>8. w = iput(n, i)
  <2>1. [g EXCEPT !.mem[i].nlinks = IF @ > 0 THEN @ - 1 ELSE @] = [g EXCEPT !.mem[i].nlinks = k]
    BY <1>4, <1>5, <1>6
  <2> QED
    BY <1>1, <1>7, <2>1 DEF Unlinked
<1>9. n \in Volume /\ Good(n, NoDebt) /\ View(n) = View(g) /\ n.ref = g.ref
  <2>1. Debt(i, 1) \in [Ino -> Int] /\ NoDebt \in [Ino -> Int]
    BY DEF Debt, NoDebt
  <2>2. \A j \in Ino : j # i => NoDebt[j] = Debt(i, 1)[j]
    BY DEF Debt, NoDebt
  <2>3. NoDebt[i] = Debt(i, 1)[i] + (k - g.raw[i].nlinks)
    <3>1. NoDebt[i] = 0 /\ Debt(i, 1)[i] = 1 /\ g.raw[i].nlinks = v
      BY <1>0, <1>3, <1>4 DEF Debt, NoDebt
    <3>2. 0 = 1 + (k - v)
      BY ONLY <1>4, <1>6
    <3> QED
      BY <3>1, <3>2
  <2> QED
    BY <1>0, <1>2, <1>3, <1>7, <2>1, <2>2, <2>3, SetLinksGood
<1>10. NoDebt[i] = 0
  BY <1>0 DEF NoDebt
<1> QED
  BY <1>0, <1>2, <1>3, <1>8, <1>9, <1>10, IputGood

\* ext2_unlink without memory for the inode leaves its count one too high.
LEMMA LeakGood ==
    ASSUME NEW m, m \in Volume, NEW i \in Given(m), Good(m, Debt(i, 1)),
           NEW w, w = m
    PROVE  w \in Volume /\ Good(w, NoDebt) /\ View(w) = View(m)
<1>1. ASSUME NEW j \in Given(m)
      PROVE  m.raw[j].nlinks >= Count(View(m), j) + NoDebt[j]
  <2>1. j \in Ino /\ m.raw[j].nlinks >= Count(View(m), j) + Debt(i, 1)[j]
    BY GoodParts
  <2>2. PICK a, v \in Nat : a = Count(View(m), j) /\ v = m.raw[j].nlinks
    BY <2>1, GoodParts
  <2>3. PICK u : u = Debt(i, 1)[j]
    OBVIOUS
  <2>4. u \in {0, 1} /\ NoDebt[j] = 0
    BY <2>1, <2>3 DEF Debt, NoDebt
  <2>5. v >= a + u
    BY <2>1, <2>2, <2>3
  <2>6. v >= a + 0
    BY ONLY <2>2, <2>4, <2>5
  <2> QED
    BY <2>2, <2>4, <2>6
<1>2. Counted(m, NoDebt)
  BY <1>1, GoodParts DEF Counted
<1> QED
  BY <1>2 DEF Good

-----------------------------------------------------------------------------
(***************************************************************************)
(* Entries: ext2_dir_add_entry, and the removal in ext2_unlink.            *)
(***************************************************************************)
\* What adding or taking away an entry leaves as it is.
Alike(m, w) ==
    /\ w.freeIno = m.freeIno /\ w.ref = m.ref
    /\ \A j \in Ino : w.raw[j].nlinks = m.raw[j].nlinks
    /\ Cached(w) /\ Placed(w) /\ Arranged(w)

Nameless(m, i) == \A x \in LinksOf(m) : View(m)[x][3] = i => View(m)[x][2] \notin Name

LEMMA NamedGiven ==
    ASSUME NEW m, NEW w
    PROVE  (\A x \in LinksOf(w) : View(w)[x][3] \in Given(m)) <=> (\A t \in Named(View(w)) : t[3] \in Given(m))
BY LinksFinite DEF Named

LEMMA GainedGood ==
    ASSUME NEW m, m \in Volume, NEW o \in [Ino -> Int], Good(m, o), NEW w, w \in Volume, Alike(m, w),
           NEW t, Gains(View(m), View(w), t), t[3] \in Given(m), t[2] \in Name => Nameless(m, t[3]),
           NEW p, p = [o EXCEPT ![t[3]] = o[t[3]] - 1]
    PROVE  Good(w, p)
<1>1. /\ w.freeIno = m.freeIno /\ w.ref = m.ref
      /\ \A j \in Ino : w.raw[j].nlinks = m.raw[j].nlinks
      /\ Cached(w) /\ Placed(w) /\ Arranged(w)
  BY DEF Alike
<1>2. Given(w) = Given(m) /\ Given(m) \subseteq Ino /\ DOMAIN View(m) = LinksOf(m) /\ IsFiniteSet(DOMAIN View(m))
  BY <1>1, LinksFinite DEF Given
<1>3. Unused(w)
  <2>1. Named(View(w)) = Named(View(m)) \cup {t}
    BY GainNamed
  <2>2. \A u \in Named(View(m)) : u[3] \in Given(m)
    BY NamedGiven DEF Good, Unused
  <2>3. \A x \in LinksOf(w) : View(w)[x][3] \in Given(m)
    BY <2>1, <2>2, NamedGiven
  <2> QED
    BY <1>1, <1>2, <2>3 DEF Good, Unused
<1>4. OneName(View(w))
  <2>1. \A x \in DOMAIN View(m) : t[2] \in Name /\ View(m)[x][3] = t[3] => View(m)[x][2] \notin Name
    BY <1>2 DEF Nameless
  <2>2. OneName(View(m))
    BY DEF Good
  <2> QED
    BY <2>1, <2>2, GainOneName
<1>5. Counted(w, p)
  <2>1. ASSUME NEW j \in Given(m)
        PROVE  w.raw[j].nlinks >= Count(View(w), j) + p[j]
    <3>1. j \in Ino /\ m.raw[j].nlinks >= Count(View(m), j) + o[j]
      BY GoodParts
    <3>2. Count(View(w), j) = Count(View(m), j) + (IF t[3] = j THEN 1 ELSE 0)
      BY <1>2, GainCount
    <3>3. PICK a, v \in Nat : a = Count(View(m), j) /\ v = m.raw[j].nlinks
      BY <3>1, GoodParts
    <3>4. PICK u \in Int : u = o[j]
      BY <3>1
    <3>5. v >= a + u /\ w.raw[j].nlinks = v
      BY <1>1, <3>1, <3>3, <3>4
    <3>6. CASE t[3] = j
      <4>1. Count(View(w), j) = a + 1 /\ p[j] = u - 1
        BY <3>1, <3>2, <3>3, <3>4, <3>6
      <4>2. v >= (a + 1) + (u - 1)
        BY ONLY <3>3, <3>4, <3>5
      <4> QED
        BY <3>5, <4>1, <4>2
    <3>7. CASE t[3] # j
      <4>1. Count(View(w), j) = a /\ p[j] = u
        BY <3>1, <3>2, <3>3, <3>4, <3>7
      <4> QED
        BY <3>5, <4>1
    <3> QED
      BY <3>6, <3>7
  <2>2. \A j \in Given(m) : w.ref[j] = 0 => w.raw[j].nlinks > 0
    BY <1>1, GoodParts
  <2> QED
    BY <1>2, <2>1, <2>2 DEF Counted
<1> QED
  BY <1>1, <1>3, <1>4, <1>5 DEF Good

LEMMA LostGood ==
    ASSUME NEW m, m \in Volume, NEW o \in [Ino -> Int], Good(m, o), NEW w, w \in Volume, Alike(m, w),
           NEW t, Gains(View(w), View(m), t),
           NEW p, p = [o EXCEPT ![t[3]] = o[t[3]] + 1]
    PROVE  Good(w, p)
<1>1. /\ w.freeIno = m.freeIno /\ w.ref = m.ref
      /\ \A j \in Ino : w.raw[j].nlinks = m.raw[j].nlinks
      /\ Cached(w) /\ Placed(w) /\ Arranged(w)
  BY DEF Alike
<1>2. Given(w) = Given(m) /\ Given(m) \subseteq Ino /\ DOMAIN View(w) = LinksOf(w) /\ IsFiniteSet(DOMAIN View(w))
  BY <1>1, LinksFinite DEF Given
<1>3. Unused(w)
  <2>1. Named(View(m)) = Named(View(w)) \cup {t}
    BY GainNamed
  <2>2. \A u \in Named(View(m)) : u[3] \in Given(m)
    BY NamedGiven DEF Good, Unused
  <2>3. \A x \in LinksOf(w) : View(w)[x][3] \in Given(m)
    BY <2>1, <2>2, NamedGiven
  <2> QED
    BY <1>1, <1>2, <2>3 DEF Good, Unused
<1>4. OneName(View(w))
  <2>2. OneName(View(m))
    BY DEF Good
  <2> QED
    BY <2>2, LoseOneName
<1>5. Counted(w, p)
  <2>1. ASSUME NEW j \in Given(m)
        PROVE  w.raw[j].nlinks >= Count(View(w), j) + p[j]
    <3>1. j \in Ino /\ m.raw[j].nlinks >= Count(View(m), j) + o[j]
      BY GoodParts
    <3>2. Count(View(w), j) \in Nat /\ Count(View(m), j) = Count(View(w), j) + (IF t[3] = j THEN 1 ELSE 0)
      BY <1>2, GainCount
    <3>3. PICK a, v \in Nat : a = Count(View(w), j) /\ v = m.raw[j].nlinks
      BY <3>1, <3>2, GoodParts
    <3>4. PICK u \in Int : u = o[j]
      BY <3>1
    <3>5. v >= Count(View(m), j) + u /\ w.raw[j].nlinks = v
      BY <1>1, <3>1, <3>3, <3>4
    <3>6. CASE t[3] = j
      <4>1. v >= (a + 1) + u /\ p[j] = u + 1
        BY <3>1, <3>2, <3>3, <3>4, <3>5, <3>6
      <4>2. v >= a + (u + 1)
        BY ONLY <3>3, <3>4, <4>1
      <4> QED
        BY <3>3, <3>5, <4>1, <4>2
    <3>7. CASE t[3] # j
      <4>1. v >= (a + 0) + u /\ p[j] = u
        BY <3>1, <3>2, <3>3, <3>4, <3>5, <3>7
      <4>2. v >= a + u
        BY ONLY <3>3, <3>4, <4>1
      <4> QED
        BY <3>3, <3>5, <4>1, <4>2
    <3> QED
      BY <3>6, <3>7
  <2>2. \A j \in Given(m) : w.ref[j] = 0 => w.raw[j].nlinks > 0
    BY <1>1, GoodParts
  <2> QED
    BY <1>2, <2>1, <2>2 DEF Counted
<1> QED
  BY <1>1, <1>3, <1>4, <1>5 DEF Good

\* A place of an open directory: in chain c of block b.
PlaceAt(m, d, p, b, c) ==
    /\ d \in Ino /\ b \in Blk /\ b \in BlocksOf(m, d) /\ c \in Chain /\ Tiled(c)
    /\ p[2] \in 1 .. Len(c) /\ At(m, d, p) = c[p[2]]
    /\ \A e \in Dirs(m) : b \in BlocksOf(m, e) => e = d

LEMMA PlaceIs ==
    ASSUME NEW m, m \in Volume, NEW o, Good(m, o), NEW d \in Dirs(m), m.mem[d] = m.raw[d], NEW p \in Places(m, d),
           NEW b, b = m.mem[d].blocks[p[1]], NEW c, c = m.entries[b]
    PROVE  PlaceAt(m, d, p, b, c)
<1>1. d \in Ino /\ d \in Given(m) /\ Dirs(m) \subseteq Given(m)
  BY DEF Dirs, Given
<1>2. p[1] \in 1 .. Len(m.raw[d].blocks) /\ p[2] \in 1 .. BS /\ p[2] <= Len(c)
  BY DEF Places
<1>3. b \in BlocksOf(m, d) /\ b \in Blk
  BY <1>1, <1>2, BlocksIs
<1>4. c \in Chain /\ Len(c) \in Nat /\ Tiled(c)
  BY <1>3, ChainIs DEF Good, Arranged
<1>5. \A e \in Dirs(m) : b \in BlocksOf(m, e) => e = d
  <2>1. \A i, j \in Given(m) : \A k \in 1 .. Len(m.raw[i].blocks), h \in 1 .. Len(m.raw[j].blocks) :
          m.raw[i].blocks[k] = m.raw[j].blocks[h] => i = j /\ k = h
    BY DEF Good, Placed
  <2>2. SUFFICES ASSUME NEW e \in Dirs(m), b \in BlocksOf(m, e)
                 PROVE  e = d
    OBVIOUS
  <2>3. PICK h \in 1 .. Len(m.raw[e].blocks) : b = m.raw[e].blocks[h]
    BY <2>2 DEF BlocksOf
  <2>4. m.raw[d].blocks[p[1]] = m.raw[e].blocks[h]
    BY <2>3
  <2> QED
    BY ONLY <1>1, <1>2, <2>1, <2>3, <2>4, e \in Dirs(m)
<1>6. p[2] \in 1 .. Len(c)
  <2>1. PICK k, L : k = p[2] /\ L = Len(c)
    OBVIOUS
  <2>2. k \in 1 .. BS /\ k <= L /\ L \in Nat
    BY <1>2, <1>4, <2>1
  <2>3. BS \in Nat
    BY SizeAssumption
  <2>4. k \in 1 .. L
    BY ONLY <2>2, <2>3
  <2> QED
    BY <2>1, <2>4
<1>7. At(m, d, p) = c[p[2]]
  BY DEF At
<1> QED
  BY <1>1, <1>3, <1>4, <1>5, <1>6, <1>7 DEF PlaceAt

\* A change of one chain keeps directories arranged, if it keeps its first entry in a first block.
LEMMA ArrangedStill ==
    ASSUME NEW m, m \in Volume, NEW o, Good(m, o), NEW w, w \in Volume, w.freeIno = m.freeIno, w.raw = m.raw,
           NEW b \in Blk, \A a \in Blk : a # b => w.entries[a] = m.entries[a],
           NEW c, c = m.entries[b], NEW f, f = w.entries[b], Tiled(f),
           NEW d \in Dirs(m), \A e \in Dirs(m) : b \in BlocksOf(m, e) => e = d,
           m.raw[d].blocks[1] = b => Len(f) >= 1 /\ f[1].ino = c[1].ino /\ f[1].name = c[1].name
    PROVE  /\ Arranged(w) /\ Dirs(w) = Dirs(m) /\ Given(w) = Given(m)
           /\ \A j \in Ino : BlocksOf(w, j) = BlocksOf(m, j)
<1>1. Given(w) = Given(m) /\ Dirs(w) = Dirs(m) /\ \A j \in Ino : BlocksOf(w, j) = BlocksOf(m, j)
  BY DEF Given, Dirs, BlocksOf
<1>2. Dirs(m) \subseteq Ino
  BY DEF Dirs, Given
<1>3. /\ \A e \in Dirs(m), a \in Blk : a \in BlocksOf(m, e) => Tiled(m.entries[a])
      /\ \A e \in Dirs(m) : /\ Len(m.raw[e].blocks) >= 1 /\ Len(m.entries[m.raw[e].blocks[1]]) >= 1
                            /\ m.entries[m.raw[e].blocks[1]][1].ino = e
                            /\ m.entries[m.raw[e].blocks[1]][1].name = Dot
      /\ \A j \in Given(m) \ Dirs(m) : m.raw[j].blocks = <<>>
  BY DEF Good, Arranged
<1>4. ASSUME NEW e \in Dirs(w), NEW a \in Blk, a \in BlocksOf(w, e)
      PROVE  Tiled(w.entries[a])
  BY <1>1, <1>2, <1>3, <1>4
<1>5. ASSUME NEW e \in Dirs(w)
      PROVE  /\ Len(w.raw[e].blocks) >= 1 /\ Len(w.entries[w.raw[e].blocks[1]]) >= 1
             /\ w.entries[w.raw[e].blocks[1]][1].ino = e
             /\ w.entries[w.raw[e].blocks[1]][1].name = Dot
  <2>1. PICK a : a = m.raw[e].blocks[1]
    OBVIOUS
  <2>2. Len(m.raw[e].blocks) \in Nat /\ Len(m.raw[e].blocks) >= 1
    BY <1>1, <1>2, <1>3, BlocksIs
  <2>3. a \in BlocksOf(m, e) /\ a \in Blk
    BY <1>1, <1>2, <2>1, <2>2, BlocksIs
  <2>4. CASE a = b
    <3>1. e = d
      BY <1>1, <2>3, <2>4
    <3>2. Len(w.entries[b]) >= 1 /\ w.entries[b][1].ino = m.entries[b][1].ino
          /\ w.entries[b][1].name = m.entries[b][1].name
      BY <2>1, <2>4, <3>1
    <3>3. m.entries[b][1].ino = e /\ m.entries[b][1].name = Dot
      <4>1. e \in Dirs(m)
        BY <1>1
      <4>2. m.entries[m.raw[e].blocks[1]][1].ino = e /\ m.entries[m.raw[e].blocks[1]][1].name = Dot
        BY <1>3, <4>1
      <4> QED
        BY <2>1, <2>4, <4>2
    <3>4. w.raw[e].blocks[1] = b
      BY <2>1, <2>4
    <3> QED
      BY <2>2, <3>2, <3>3, <3>4
  <2>5. CASE a # b
    <3>1. w.entries[a] = m.entries[a] /\ w.raw[e] = m.raw[e]
      BY <2>3, <2>5
    <3>2. /\ Len(m.raw[e].blocks) >= 1 /\ Len(m.entries[a]) >= 1
          /\ m.entries[a][1].ino = e /\ m.entries[a][1].name = Dot
      <4>1. e \in Dirs(m)
        BY <1>1
      <4> QED
        BY ONLY <1>3, <2>1, <4>1
    <3> QED
      BY ONLY <2>1, <3>1, <3>2
  <2> QED
    BY <2>4, <2>5
<1>6. \A j \in Given(w) \ Dirs(w) : w.raw[j].blocks = <<>>
  BY <1>1, <1>3
<1> QED
  BY <1>1, <1>4, <1>5, <1>6 DEF Arranged

LEMMA PlacedStill ==
    ASSUME NEW m, Placed(m), NEW w, w.freeIno = m.freeIno, w.freeBlk = m.freeBlk, w.raw = m.raw
    PROVE  Placed(w)
BY DEF Placed, Given, BlocksOf

\* What is left when the link t has been added.
Added(m, w, p, t) ==
    /\ w \in Volume /\ Good(w, p) /\ Gains(View(m), View(w), t)
    /\ w.ref = m.ref /\ Given(w) = Given(m) /\ Dirs(w) = Dirs(m)

\* The new entry in the slack of another.
LEMMA SplitGood ==
    ASSUME NEW m, m \in Volume, NEW o \in [Ino -> Int], Good(m, o), NEW d \in Dirs(m), m.ref[d] > 0,
           NEW n \in Name, NEW i \in Given(m), Nameless(m, i), NEW p \in Roomy(m, d, n),
           NEW w, w = Split(m, d, p, n, i), NEW u, u = [o EXCEPT ![i] = o[i] - 1]
    PROVE  Added(m, w, u, <<d, n, i>>)
<1>1. d \in Ino /\ i \in Ino /\ m.mem[d] = m.raw[d] /\ n \in AnyName /\ 0 \notin Ino
  BY GoodParts, SomeNumbers DEF Dirs, Given, AnyName
<1>2. p \in Places(m, d) /\ Slack(At(m, d, p)) >= Needed[n]
  BY DEF Roomy
<1>3. PICK b, c, q : b = m.mem[d].blocks[p[1]] /\ c = m.entries[b] /\ q = p[2]
  OBVIOUS
<1>4. /\ b \in Blk /\ b \in BlocksOf(m, d) /\ c \in Chain /\ Tiled(c)
      /\ q \in 1 .. Len(c) /\ At(m, d, p) = c[q]
      /\ \A e \in Dirs(m) : b \in BlocksOf(m, e) => e = d
  <2>1. m \in Volume /\ Good(m, o) /\ d \in Dirs(m)
    OBVIOUS
  <2>2. PlaceAt(m, d, p, b, c)
    BY ONLY <1>1, <1>2, <1>3, <2>1, PlaceIs
  <2> QED
    BY <1>3, <2>2 DEF PlaceAt
<1>5. PICK f : f = InsertAt([c EXCEPT ![q].rec = c[q].rec - Slack(c[q])], q + 1, Entry(i, n, Slack(c[q])))
  OBVIOUS
<1>6. f \in Chain /\ Tiled(f) /\ Longer(c, f, q) /\ f[q + 1].ino = i /\ f[q + 1].name = n
  <2>1. Slack(c[q]) >= Needed[n]
    BY <1>2, <1>4
  <2> QED
    BY ONLY <1>1, <2>1, <1>4, <1>5, SplitTiled
<1>7. PICK e : e = [m.entries EXCEPT ![b] = f]
  OBVIOUS
<1>8. e \in [Blk -> Chain] /\ e[b] = f /\ \A a \in Blk : a # b => e[a] = m.entries[a]
  BY <1>4, <1>6, <1>7, VolumeIs
<1>9. w = [m EXCEPT !.entries = e]
  BY <1>3, <1>4, <1>5, <1>7 DEF Split
<1>10. /\ w \in Volume
       /\ w.freeIno = m.freeIno /\ w.freeBlk = m.freeBlk /\ w.entries = e
       /\ w.raw = m.raw /\ w.mem = m.mem /\ w.ref = m.ref
  BY <1>8, <1>9 DEF Volume
<1>11. Len(f) >= 1 /\ f[1].ino = c[1].ino /\ f[1].name = c[1].name
  <2>1. Len(c) \in Nat
    BY <1>4 DEF Chain
  <2>2. 1 \in 1 .. q /\ Len(f) = Len(c) + 1
    BY <1>4, <1>6, <2>1 DEF Longer
  <2> QED
    BY <1>6, <2>1, <2>2 DEF Longer
<1>12. /\ Arranged(w) /\ Dirs(w) = Dirs(m) /\ Given(w) = Given(m)
       /\ \A j \in Ino : BlocksOf(w, j) = BlocksOf(m, j)
  <2>1. f = w.entries[b] /\ \A a \in Blk : a # b => w.entries[a] = m.entries[a]
    BY <1>8, <1>10
  <2>2. w.freeIno = m.freeIno /\ w.raw = m.raw /\ c = m.entries[b]
    BY <1>3, <1>10
  <2>3. \A a \in Dirs(m) : b \in BlocksOf(m, a) => a = d
    BY <1>4
  <2>4. m \in Volume /\ Good(m, o) /\ w \in Volume /\ b \in Blk /\ Tiled(f) /\ d \in Dirs(m)
    BY <1>4, <1>6, <1>10
  <2> QED
    BY ONLY <1>11, <2>1, <2>2, <2>3, <2>4, ArrangedStill
<1>13. Gains(View(m), View(w), <<d, n, i>>)
  <2>1. Longer(m.entries[b], w.entries[b], q) /\ w.entries[b][q + 1].ino = i /\ w.entries[b][q + 1].name = n
    BY <1>3, <1>6, <1>8, <1>10
  <2>2. \A a \in Dirs(m) : BlocksOf(w, a) = BlocksOf(m, a)
    BY <1>12 DEF Dirs, Given
  <2>3. Arranged(m) /\ i # 0
    BY <1>1 DEF Good
  <2>4. \A a \in Blk : a # b => w.entries[a] = m.entries[a]
    BY <1>8, <1>10
  <2>5. Gains(View(m), View(w), <<d, w.entries[b][q + 1].name, w.entries[b][q + 1].ino>>)
    BY <1>4, <1>10, <1>12, <2>1, <2>2, <2>3, <2>4, OneMore
  <2> QED
    BY <2>1, <2>5
<1>14. Alike(m, w)
  <2>1. Cached(w)
    BY <1>10 DEF Good, Cached
  <2>2. Placed(w)
    BY <1>10, PlacedStill DEF Good
  <2> QED
    BY <1>10, <1>12, <2>1, <2>2 DEF Alike
<1>15. PICK t : t = <<d, n, i>>
  OBVIOUS
<1>16. t[2] = n /\ t[3] = i
  BY <1>15
<1>17. Good(w, u)
  <2>1. t[3] \in Given(m) /\ (t[2] \in Name => Nameless(m, t[3])) /\ u = [o EXCEPT ![t[3]] = o[t[3]] - 1]
        /\ Gains(View(m), View(w), t)
    BY <1>13, <1>15, <1>16
  <2>2. m \in Volume /\ o \in [Ino -> Int] /\ Good(m, o) /\ w \in Volume
    BY <1>10
  <2> QED
    BY ONLY <1>14, <2>1, <2>2, GainedGood
<1> QED
  BY <1>10, <1>12, <1>13, <1>17 DEF Added

LEMMA OneEntry ==
    ASSUME NEW i \in Ino, NEW n \in AnyName, NEW c, c = <<Entry(i, n, BS)>>
    PROVE  c \in Chain /\ Tiled(c) /\ Len(c) = 1 /\ c[1].ino = i /\ c[1].name = n
<1>1. PICK x : x = Entry(i, n, BS)
  OBVIOUS
<1>2. x \in EntryType /\ x.ino = i /\ x.name = n /\ x.rec = BS
  <2>1. BS \in 1 .. BS
    BY SomeNumbers
  <2> QED
    BY <1>1, <2>1 DEF Entry, EntryType
<1>3. c \in Chain /\ Len(c) = 1 /\ c[1] = x
  BY <1>1, <1>2 DEF Chain
<1>4. Ends(c)[1] = BS
  <2>1. PICK e : e = Ends(c)
    OBVIOUS
  <2>2. e[0] = 0 /\ \A k \in 1 .. Len(c) : e[k] = e[k - 1] + c[k].rec
    BY <1>3, <2>1, EndsIs
  <2>3. 1 \in 1 .. Len(c) /\ 1 - 1 = 0
    BY <1>3
  <2>4. e[1] = e[1 - 1] + c[1].rec
    BY <2>2, <2>3
  <2>5. e[1] = 0 + BS
    BY <1>2, <1>3, <2>2, <2>3, <2>4
  <2> QED
    BY <2>1, <2>5, SomeNumbers
<1>5. \A k \in 1 .. Len(c) : c[k].rec >= Needed[c[k].name]
  <2>1. Needed[n] \in 1 .. BS
    BY NeededIs
  <2>2. BS >= Needed[n]
    BY <2>1
  <2> QED
    BY <1>2, <1>3, <2>2
<1> QED
  BY <1>2, <1>3, <1>4, <1>5 DEF Tiled

LEMMA Appended ==
    ASSUME NEW s \in Seq(Blk), NEW b \in Blk, NEW r, r = Append(s, b)
    PROVE  /\ r \in Seq(Blk) /\ Len(s) \in Nat /\ Len(r) = Len(s) + 1
           /\ \A k \in 1 .. Len(s) : k \in 1 .. Len(r) /\ r[k] = s[k]
           /\ r[Len(r)] = b
           /\ \A k \in 1 .. Len(r) : k \in 1 .. Len(s) \/ k = Len(r)
OBVIOUS

\* The new entry in a new block.
Grow(m, d, n, i, b) ==
    WriteInode([AllocBlk(m) EXCEPT !.entries[b] = <<Entry(i, n, BS)>>, !.mem[d].blocks = Append(@, b)], d)

Grown(m, d, n, i, b, w) ==
    /\ w \in Volume /\ b \in Blk /\ b \in m.freeBlk
    /\ w.freeIno = m.freeIno /\ w.ref = m.ref /\ w.freeBlk = m.freeBlk \ {b}
    /\ \A a \in Blk : a # b => w.entries[a] = m.entries[a]
    /\ w.entries[b] = <<Entry(i, n, BS)>>
    /\ \A j \in Ino : j # d => w.raw[j] = m.raw[j] /\ w.mem[j] = m.mem[j]
    /\ w.raw[d] = [m.raw[d] EXCEPT !.blocks = Append(m.raw[d].blocks, b)] /\ w.mem[d] = w.raw[d]

LEMMA GrowIs ==
    ASSUME NEW m, m \in Volume, NEW d \in Ino, m.mem[d] = m.raw[d],
           NEW n \in AnyName, NEW i \in Ino, m.freeBlk # {},
           NEW b, b = Lowest(m.freeBlk), NEW w, w = Grow(m, d, n, i, b)
    PROVE  Grown(m, d, n, i, b, w)
<1>0. PICK x : x = [m.raw[d] EXCEPT !.blocks = Append(m.raw[d].blocks, b)]
  OBVIOUS
<1>1. m.freeBlk \subseteq Blk /\ m.entries \in [Blk -> Chain] /\ m.raw \in [Ino -> InodeType]
      /\ m.mem \in [Ino -> InodeType]
  BY VolumeIs
<1>2. b \in Blk /\ b \in m.freeBlk
  BY <1>1, LowestIn, SomeNumbers
<1>3. m.raw[d] \in InodeType /\ m.raw[d].blocks \in Seq(Blk)
  BY <1>1, InodeIs
<1>4. x \in InodeType
  <2>1. Append(m.raw[d].blocks, b) \in Seq(Blk)
    BY <1>2, <1>3, Appended
  <2> QED
    BY <1>0, <1>3, <2>1 DEF InodeType
<1>5. <<Entry(i, n, BS)>> \in Chain
  BY OneEntry
<1>6. PICK F, e, t, u : /\ F = m.freeBlk \ {b} /\ e = [m.entries EXCEPT ![b] = <<Entry(i, n, BS)>>]
                        /\ t = [m.mem EXCEPT ![d] = x] /\ u = [m.raw EXCEPT ![d] = x]
  OBVIOUS
<1>7. /\ F \subseteq Blk /\ e \in [Blk -> Chain] /\ t \in [Ino -> InodeType] /\ u \in [Ino -> InodeType]
      /\ e[b] = <<Entry(i, n, BS)>> /\ t[d] = x /\ u[d] = x
      /\ \A a \in Blk : a # b => e[a] = m.entries[a]
      /\ \A j \in Ino : j # d => t[j] = m.mem[j] /\ u[j] = m.raw[j]
  BY <1>1, <1>2, <1>4, <1>5, <1>6
<1>8. w = [m EXCEPT !.freeBlk = F, !.entries = e, !.mem = t, !.raw = u]
  <2>1. PICK v : v = AllocBlk(m)
    OBVIOUS
  <2>2. v = [m EXCEPT !.freeBlk = F] /\ v.entries = m.entries /\ v.mem = m.mem /\ v.raw = m.raw
    BY <1>6, <2>1 DEF AllocBlk, Volume
  <2>3. PICK h : h = [v EXCEPT !.entries[b] = <<Entry(i, n, BS)>>, !.mem[d].blocks = Append(@, b)]
    OBVIOUS
  <2>4. h = [v EXCEPT !.entries = e, !.mem = t]
    BY <1>0, <1>6, <2>2, <2>3
  <2>5. h = [m EXCEPT !.freeBlk = F, !.entries = e, !.mem = t] /\ h.mem = t /\ h.raw = m.raw
    BY <2>2, <2>4 DEF Volume
  <2>6. w = WriteInode(h, d)
    BY <2>1, <2>3 DEF Grow
  <2>7. w = [h EXCEPT !.raw = u]
    BY <1>6, <1>7, <2>5, <2>6 DEF WriteInode
  <2> QED
    BY <2>5, <2>7 DEF Volume
<1>9. /\ w \in Volume /\ w.freeIno = m.freeIno /\ w.ref = m.ref /\ w.freeBlk = F
      /\ w.entries = e /\ w.raw = u /\ w.mem = t
  BY <1>7, <1>8 DEF Volume
<1> QED
  BY <1>0, <1>2, <1>6, <1>7, <1>9 DEF Grown

LEMMA GrowGood ==
    ASSUME NEW m, m \in Volume, NEW o \in [Ino -> Int], Good(m, o), NEW d \in Dirs(m), m.ref[d] > 0,
           NEW n \in Name, NEW i \in Given(m), Nameless(m, i), m.freeBlk # {},
           NEW b, b = Lowest(m.freeBlk), NEW w, w = Grow(m, d, n, i, b),
           NEW p, p = [o EXCEPT ![i] = o[i] - 1]
    PROVE  Added(m, w, p, <<d, n, i>>)
<1>1. d \in Ino /\ i \in Ino /\ m.mem[d] = m.raw[d] /\ n \in AnyName /\ 0 \notin Ino
      /\ Given(m) \subseteq Ino /\ Dirs(m) \subseteq Given(m)
  BY GoodParts, SomeNumbers DEF Dirs, Given, AnyName
<1>2. PICK s : s = m.raw[d].blocks
  OBVIOUS
<1>3. PICK r : r = Append(s, b)
  OBVIOUS
<1>4. PICK x : x = [m.raw[d] EXCEPT !.blocks = r]
  OBVIOUS
<1>5. /\ w \in Volume /\ b \in Blk /\ b \in m.freeBlk
      /\ w.freeIno = m.freeIno /\ w.ref = m.ref /\ w.freeBlk = m.freeBlk \ {b}
      /\ \A a \in Blk : a # b => w.entries[a] = m.entries[a]
      /\ w.entries[b] = <<Entry(i, n, BS)>>
      /\ \A j \in Ino : j # d => w.raw[j] = m.raw[j] /\ w.mem[j] = m.mem[j]
      /\ w.raw[d] = x /\ w.mem[d] = x
  <2>1. x = [m.raw[d] EXCEPT !.blocks = Append(m.raw[d].blocks, b)]
    BY <1>2, <1>3, <1>4
  <2>2. m \in Volume /\ d \in Ino /\ m.mem[d] = m.raw[d] /\ n \in AnyName /\ i \in Ino /\ m.freeBlk # {}
        /\ b = Lowest(m.freeBlk) /\ w = Grow(m, d, n, i, b)
    BY <1>1
  <2>3. Grown(m, d, n, i, b, w)
    BY ONLY <2>2, GrowIs
  <2> QED
    BY <2>1, <2>3 DEF Grown
<1>6. m.raw[d] \in InodeType /\ s \in Seq(Blk)
  BY <1>1, <1>2, VolumeIs, InodeIs
<1>7. x.type = m.raw[d].type /\ x.nlinks = m.raw[d].nlinks /\ x.blocks = r
  BY <1>4, <1>6 DEF InodeType
<1>8. /\ r \in Seq(Blk) /\ Len(s) \in Nat /\ Len(r) = Len(s) + 1
      /\ \A k \in 1 .. Len(s) : k \in 1 .. Len(r) /\ r[k] = s[k]
      /\ r[Len(r)] = b
      /\ \A k \in 1 .. Len(r) : k \in 1 .. Len(s) \/ k = Len(r)
  BY <1>3, <1>5, <1>6, Appended
<1>9. /\ \A j \in Ino : w.raw[j].type = m.raw[j].type /\ w.raw[j].nlinks = m.raw[j].nlinks
      /\ \A j \in Ino : j # d => w.raw[j].blocks = m.raw[j].blocks /\ BlocksOf(w, j) = BlocksOf(m, j)
      /\ w.raw[d].blocks = r
  BY <1>5, <1>7 DEF BlocksOf
<1>10. BlocksOf(w, d) = BlocksOf(m, d) \cup {b}
  <2>1. BlocksOf(w, d) = {r[k] : k \in 1 .. Len(r)} /\ BlocksOf(m, d) = {s[k] : k \in 1 .. Len(s)}
    BY <1>2, <1>9 DEF BlocksOf
  <2>2. Len(r) \in 1 .. Len(r)
    BY <1>8
  <2> QED
    BY <1>8, <2>1, <2>2
<1>11. Given(w) = Given(m) /\ Dirs(w) = Dirs(m)
  BY <1>1, <1>5, <1>9 DEF Given, Dirs
<1>12. \A j \in Given(m) : b \notin BlocksOf(m, j) /\ BlocksOf(m, j) \cap m.freeBlk = {}
  BY <1>5 DEF Good, Placed
<1>13. Placed(w)
  <2>1. ASSUME NEW j \in Given(m), NEW k \in 1 .. Len(w.raw[j].blocks)
        PROVE  \/ k \in 1 .. Len(m.raw[j].blocks) /\ w.raw[j].blocks[k] = m.raw[j].blocks[k] /\ w.raw[j].blocks[k] # b
               \/ j = d /\ k = Len(r) /\ w.raw[j].blocks[k] = b
    <3>1. \A h \in 1 .. Len(m.raw[j].blocks) : m.raw[j].blocks[h] # b
      BY <1>12 DEF BlocksOf
    <3>2. CASE j = d
      <4>1. k \in 1 .. Len(r) /\ w.raw[j].blocks = r /\ m.raw[j].blocks = s
        BY <1>2, <1>9, <2>1, <3>2
      <4> QED
        BY <1>8, <3>1, <3>2, <4>1
    <3>3. CASE j # d
      BY <1>1, <1>9, <2>1, <3>1, <3>3
    <3> QED
      BY <3>2, <3>3
  <2>2. \A j, l \in Given(m) : \A k \in 1 .. Len(m.raw[j].blocks), h \in 1 .. Len(m.raw[l].blocks) :
          m.raw[j].blocks[k] = m.raw[l].blocks[h] => j = l /\ k = h
    BY DEF Good, Placed
  <2>3. \A j, l \in Given(w) : \A k \in 1 .. Len(w.raw[j].blocks), h \in 1 .. Len(w.raw[l].blocks) :
          w.raw[j].blocks[k] = w.raw[l].blocks[h] => j = l /\ k = h
    BY ONLY <1>11, <2>1, <2>2
  <2>4. \A j \in Given(w) : BlocksOf(w, j) \cap w.freeBlk = {}
    <3>1. SUFFICES ASSUME NEW j \in Given(w)
                   PROVE  BlocksOf(w, j) \cap w.freeBlk = {}
      OBVIOUS
    <3>2. CASE j = d
      BY <1>5, <1>10, <1>11, <1>12, <3>2
    <3>3. CASE j # d
      BY <1>1, <1>5, <1>9, <1>11, <1>12, <3>3
    <3> QED
      BY <3>2, <3>3
  <2>5. \A a \in Blk \ w.freeBlk : \E j \in Given(w) : a \in BlocksOf(w, j)
    <3>1. SUFFICES ASSUME NEW a \in Blk \ w.freeBlk
                   PROVE  \E j \in Given(w) : a \in BlocksOf(w, j)
      OBVIOUS
    <3>2. CASE a = b
      BY <1>1, <1>10, <1>11, <3>2
    <3>3. CASE a # b
      <4>1. a \in Blk \ m.freeBlk
        BY <1>5, <3>3
      <4>2. PICK j \in Given(m) : a \in BlocksOf(m, j)
        BY <4>1 DEF Good, Placed
      <4>3. a \in BlocksOf(w, j)
        BY <1>1, <1>9, <1>10, <4>2
      <4> QED
        BY <1>11, <4>2, <4>3
    <3> QED
      BY <3>2, <3>3
  <2> QED
    BY <2>3, <2>4, <2>5 DEF Placed
<1>14. PICK c : c = <<Entry(i, n, BS)>>
  OBVIOUS
<1>15. c \in Chain /\ Tiled(c) /\ Len(c) = 1 /\ c[1].ino = i /\ c[1].name = n
  BY <1>1, <1>14, OneEntry
<1>16. Arranged(w)
  <2>1. /\ \A e \in Dirs(m), a \in Blk : a \in BlocksOf(m, e) => Tiled(m.entries[a])
        /\ \A e \in Dirs(m) : /\ Len(m.raw[e].blocks) >= 1 /\ Len(m.entries[m.raw[e].blocks[1]]) >= 1
                              /\ m.entries[m.raw[e].blocks[1]][1].ino = e
                              /\ m.entries[m.raw[e].blocks[1]][1].name = Dot
        /\ \A j \in Given(m) \ Dirs(m) : m.raw[j].blocks = <<>>
    BY DEF Good, Arranged
  <2>2. ASSUME NEW e \in Dirs(w), NEW a \in Blk, a \in BlocksOf(w, e)
        PROVE  Tiled(w.entries[a])
    <3>1. CASE a = b
      BY <1>5, <1>14, <1>15, <3>1
    <3>2. CASE a # b
      <4>1. a \in BlocksOf(m, e)
        BY <1>1, <1>9, <1>10, <1>11, <2>2, <3>2
      <4> QED
        BY <1>5, <1>11, <2>1, <3>2, <4>1
    <3> QED
      BY <3>1, <3>2
  <2>3. ASSUME NEW e \in Dirs(w)
        PROVE  /\ Len(w.raw[e].blocks) >= 1 /\ Len(w.entries[w.raw[e].blocks[1]]) >= 1
               /\ w.entries[w.raw[e].blocks[1]][1].ino = e
               /\ w.entries[w.raw[e].blocks[1]][1].name = Dot
    <3>1. PICK a : a = m.raw[e].blocks[1]
      OBVIOUS
    <3>2. e \in Dirs(m) /\ e \in Given(m) /\ e \in Ino
      BY <1>1, <1>11
    <3>3. Len(m.raw[e].blocks) \in Nat /\ Len(m.raw[e].blocks) >= 1
      BY <2>1, <3>2, BlocksIs
    <3>4. 1 \in 1 .. Len(m.raw[e].blocks)
      BY <3>3
    <3>5. a \in BlocksOf(m, e) /\ a \in Blk /\ a # b
      BY <1>12, <3>1, <3>2, <3>4, BlocksIs
    <3>6. Len(w.raw[e].blocks) >= 1 /\ w.raw[e].blocks[1] = a
      <4>1. CASE e = d
        <5>1. 1 \in 1 .. Len(s) /\ Len(r) >= 1
          BY <1>2, <1>8, <3>4, <4>1
        <5> QED
          BY <1>2, <1>8, <1>9, <3>1, <4>1, <5>1
      <4>2. CASE e # d
        BY <1>9, <3>1, <3>2, <3>3, <4>2
      <4> QED
        BY <4>1, <4>2
    <3>7. w.entries[a] = m.entries[a]
      BY <1>5, <3>5
    <3>8. Len(m.entries[a]) >= 1 /\ m.entries[a][1].ino = e /\ m.entries[a][1].name = Dot
      BY <2>1, <3>1, <3>2
    <3> QED
      BY <3>6, <3>7, <3>8
  <2>4. \A j \in Given(w) \ Dirs(w) : w.raw[j].blocks = <<>>
    BY <1>1, <1>9, <1>11, <2>1
  <2> QED
    BY <2>2, <2>3, <2>4 DEF Arranged
<1>17. Gains(View(m), View(w), <<d, n, i>>)
  <2>1. PICK z : z = <<d, b, 1>>
    OBVIOUS
  <2>2. z \in LinksOf(w) /\ View(w)[z] = <<d, n, i>>
    <3>1. d \in Dirs(w) /\ b \in BlocksOf(w, d) /\ 1 \in 1 .. Len(w.entries[b]) /\ w.entries[b][1].ino = i
          /\ w.entries[b][1].name = n
      BY <1>5, <1>10, <1>11, <1>14, <1>15
    <3>2. PICK k : k = 1
      OBVIOUS
    <3>3. k \in 1 .. Len(w.entries[b]) /\ w.entries[b][k].ino # 0
      BY <1>1, <3>1, <3>2
    <3>4. <<d, b, k>> \in LinksOf(w) /\ View(w)[<<d, b, k>>] = <<d, w.entries[b][k].name, w.entries[b][k].ino>>
      <4>1. w \in Volume /\ Arranged(w) /\ d \in Dirs(w) /\ b \in BlocksOf(w, d)
        BY <1>5, <1>16, <3>1
      <4> QED
        BY ONLY <3>3, <4>1, LinkIs
    <3> QED
      BY <2>1, <3>1, <3>2, <3>4
  <2>3. z \notin LinksOf(m)
    <3>1. z[1] = d /\ z[2] = b /\ d \in Given(m)
      BY <1>1, <2>1
    <3> QED
      BY <1>12, <3>1, LinkParts
  <2>4. ASSUME NEW y \in LinksOf(m)
        PROVE  y \in LinksOf(w) /\ View(w)[y] = View(m)[y]
    <3>1. PICK e, a, k : e = y[1] /\ a = y[2] /\ k = y[3]
      OBVIOUS
    <3>2. /\ y = <<e, a, k>> /\ e \in Dirs(m) /\ a \in Blk /\ k \in 1 .. BS /\ a \in BlocksOf(m, e)
          /\ k <= Len(m.entries[a]) /\ m.entries[a][k].ino # 0
          /\ View(m)[y] = <<e, m.entries[a][k].name, m.entries[a][k].ino>>
      BY <3>1, LinkParts
    <3>3. a # b /\ a \in BlocksOf(w, e)
      BY <1>1, <1>9, <1>10, <1>12, <3>2
    <3>4. w.entries[a] = m.entries[a] /\ Len(m.entries[a]) \in Nat
      BY <1>5, <3>2, <3>3, ChainIs
    <3>5. k \in 1 .. Len(w.entries[a]) /\ w.entries[a][k].ino # 0 /\ e \in Dirs(w)
      BY <1>11, <3>2, <3>4
    <3>6. <<e, a, k>> \in LinksOf(w) /\ View(w)[<<e, a, k>>] = <<e, w.entries[a][k].name, w.entries[a][k].ino>>
      BY <1>5, <1>16, <3>3, <3>5, LinkIs
    <3> QED
      BY <3>2, <3>4, <3>6
  <2>5. ASSUME NEW y \in LinksOf(w), y # z
        PROVE  y \in LinksOf(m)
    <3>1. PICK e, a, k : e = y[1] /\ a = y[2] /\ k = y[3]
      OBVIOUS
    <3>2. /\ y = <<e, a, k>> /\ e \in Dirs(m) /\ e \in Given(m) /\ e \in Ino
          /\ a \in Blk /\ k \in 1 .. BS /\ a \in BlocksOf(w, e)
          /\ k <= Len(w.entries[a]) /\ w.entries[a][k].ino # 0
      BY <1>1, <1>11, <3>1, LinkParts
    <3>3. CASE a = b
      <4>1. e = d
        BY <1>9, <1>12, <3>2, <3>3
      <4>2. k <= 1 /\ k \in Nat
        BY <1>5, <1>14, <1>15, <3>2, <3>3, SomeNumbers
      <4>3. k = 1
        BY <3>2, <4>2
      <4> QED
        BY <2>1, <2>5, <3>2, <3>3, <4>1, <4>3
    <3>4. CASE a # b
      <4>1. a \in BlocksOf(m, e) /\ w.entries[a] = m.entries[a]
        BY <1>5, <1>9, <1>10, <3>2, <3>4
      <4>2. k \in 1 .. Len(m.entries[a]) /\ m.entries[a][k].ino # 0
        BY <3>2, <4>1, ChainIs, SomeNumbers
      <4>3. Arranged(m)
        BY DEF Good
      <4> QED
        BY <3>2, <4>1, <4>2, <4>3, LinkIs
    <3> QED
      BY <3>3, <3>4
  <2>6. DOMAIN View(m) = LinksOf(m) /\ DOMAIN View(w) = LinksOf(w)
    BY LinksFinite
  <2>7. /\ z \in DOMAIN View(w) /\ z \notin DOMAIN View(m) /\ DOMAIN View(w) = DOMAIN View(m) \cup {z}
        /\ \A y \in DOMAIN View(m) : View(w)[y] = View(m)[y]
    BY <2>2, <2>3, <2>4, <2>5, <2>6
  <2>8. Gains(View(m), View(w), View(w)[z])
    BY <2>7, GainInPlace
  <2> QED
    BY <2>2, <2>8
<1>18. Cached(w)
  <2>1. SUFFICES ASSUME NEW j \in Ino, w.ref[j] > 0
                 PROVE  w.mem[j] = w.raw[j]
    BY DEF Cached
  <2>2. CASE j = d
    BY <1>5, <2>2
  <2>3. CASE j # d
    BY <1>5, <2>1, <2>3, GoodParts
  <2> QED
    BY <2>2, <2>3
<1>19. Alike(m, w)
  BY <1>5, <1>9, <1>13, <1>16, <1>18 DEF Alike
<1>20. Good(w, p)
  <2>1. PICK t : t = <<d, n, i>>
    OBVIOUS
  <2>2. t[2] = n /\ t[3] = i
    BY <2>1
  <2>3. t[3] \in Given(m) /\ (t[2] \in Name => Nameless(m, t[3])) /\ p = [o EXCEPT ![t[3]] = o[t[3]] - 1]
        /\ Gains(View(m), View(w), t)
    BY <1>17, <2>1, <2>2
  <2>4. m \in Volume /\ o \in [Ino -> Int] /\ Good(m, o) /\ w \in Volume
    BY <1>5
  <2> QED
    BY ONLY <1>19, <2>3, <2>4, GainedGood
<1> QED
  BY <1>5, <1>11, <1>17, <1>20 DEF Added

LEMMA PlacesPair ==
    ASSUME NEW m, NEW d, NEW S \in SUBSET Places(m, d), S # {}
    PROVE  FirstOf(S) \in S
<1>1. Places(m, d) \subseteq Nat \X Nat
  BY SomeNumbers DEF Places
<1> QED
  BY <1>1, FirstOfIn

\* ext2_dir_add_entry.
LEMMA AddGood ==
    ASSUME NEW m, m \in Volume, NEW o \in [Ino -> Int], Good(m, o), NEW d \in Dirs(m), m.ref[d] > 0,
           NEW n \in Name, NEW i \in Given(m), Nameless(m, i), CanAdd(m, d, n),
           NEW w, w = add_entry(m, d, n, i),
           NEW p, p = [o EXCEPT ![i] = o[i] - 1]
    PROVE  Added(m, w, p, <<d, n, i>>)
<1>1. CASE Roomy(m, d, n) # {}
  <2>1. PICK q : q = FirstOf(Roomy(m, d, n))
    OBVIOUS
  <2>2. Roomy(m, d, n) \in SUBSET Places(m, d)
    BY DEF Roomy
  <2>3. q \in Roomy(m, d, n)
    BY <1>1, <2>1, <2>2, PlacesPair
  <2>4. w = Split(m, d, q, n, i)
    BY <1>1, <2>1 DEF add_entry
  <2>5. m \in Volume /\ o \in [Ino -> Int] /\ Good(m, o) /\ d \in Dirs(m) /\ m.ref[d] > 0
        /\ n \in Name /\ i \in Given(m) /\ Nameless(m, i) /\ p = [o EXCEPT ![i] = o[i] - 1]
    OBVIOUS
  <2> QED
    BY ONLY <2>3, <2>4, <2>5, SplitGood
<1>2. CASE Roomy(m, d, n) = {}
  <2>1. m.freeBlk # {}
    BY <1>2 DEF CanAdd
  <2>2. PICK b : b = Lowest(m.freeBlk)
    OBVIOUS
  <2>3. w = Grow(m, d, n, i, b)
    BY <1>2, <2>2 DEF add_entry, Grow
  <2>4. m \in Volume /\ o \in [Ino -> Int] /\ Good(m, o) /\ d \in Dirs(m) /\ m.ref[d] > 0
        /\ n \in Name /\ i \in Given(m) /\ Nameless(m, i) /\ p = [o EXCEPT ![i] = o[i] - 1]
    OBVIOUS
  <2> QED
    BY ONLY <2>1, <2>2, <2>3, <2>4, GrowGood
<1> QED
  BY <1>1, <1>2

\* What is left when the link t has been taken away.
Withdrawn(m, w, p, t) ==
    /\ w \in Volume /\ Good(w, p) /\ Gains(View(w), View(m), t)
    /\ w.ref = m.ref /\ Given(w) = Given(m)

\* Entry p of directory d, which names n: in chain c of block b.
FoundAt(m, d, n, p, b, c) ==
    /\ d \in Ino /\ b \in Blk /\ b \in BlocksOf(m, d) /\ c \in Chain /\ Tiled(c)
    /\ p[2] \in 1 .. Len(c) /\ At(m, d, p) = c[p[2]] /\ c[p[2]].ino \in Given(m) /\ c[p[2]].name = n
    /\ <<d, b, p[2]>> \in LinksOf(m) /\ View(m)[<<d, b, p[2]>>] = <<d, n, c[p[2]].ino>>
    /\ \A e \in Dirs(m) : b \in BlocksOf(m, e) => e = d

LEMMA FoundIs ==
    ASSUME NEW m, m \in Volume, NEW o, Good(m, o), NEW d \in Dirs(m), m.mem[d] = m.raw[d], NEW n,
           NEW p \in Found(m, d, n),
           NEW b, b = m.mem[d].blocks[p[1]], NEW c, c = m.entries[b]
    PROVE  FoundAt(m, d, n, p, b, c)
<1>1. p \in Places(m, d) /\ At(m, d, p).ino # 0 /\ At(m, d, p).name = n
  BY DEF Found
<1>2. /\ d \in Ino /\ b \in Blk /\ b \in BlocksOf(m, d) /\ c \in Chain /\ Tiled(c)
      /\ p[2] \in 1 .. Len(c) /\ At(m, d, p) = c[p[2]]
      /\ \A e \in Dirs(m) : b \in BlocksOf(m, e) => e = d
  <2>1. m \in Volume /\ Good(m, o) /\ d \in Dirs(m) /\ m.mem[d] = m.raw[d] /\ b = m.mem[d].blocks[p[1]] /\ c = m.entries[b]
    OBVIOUS
  <2>2. PlaceAt(m, d, p, b, c)
    BY ONLY <1>1, <2>1, PlaceIs
  <2> QED
    BY ONLY <2>2 DEF PlaceAt
<1>3. PICK k : k = p[2]
  OBVIOUS
<1>4. k \in 1 .. Len(m.entries[b]) /\ m.entries[b][k].ino # 0 /\ Arranged(m) /\ m \in Volume /\ d \in Dirs(m)
  BY <1>1, <1>2, <1>3 DEF Good
<1>5. <<d, b, k>> \in LinksOf(m) /\ View(m)[<<d, b, k>>] = <<d, m.entries[b][k].name, m.entries[b][k].ino>>
  BY ONLY <1>2, <1>4, LinkIs
<1>6. m.entries[b][k].name = n /\ m.entries[b][k] = c[k]
  BY <1>1, <1>2, <1>3
<1>7. c[k].ino \in Given(m)
  <2>1. PICK z : z = <<d, b, k>>
    OBVIOUS
  <2>2. z \in LinksOf(m) /\ View(m)[z][3] = c[k].ino
    BY ONLY <1>5, <1>6, <2>1
  <2>3. \A x \in LinksOf(m) : View(m)[x][3] \in Given(m)
    BY DEF Good, Unused
  <2> QED
    BY ONLY <2>2, <2>3
<1> QED
  BY <1>2, <1>3, <1>5, <1>6, <1>7 DEF FoundAt

LEMMA RemovedGood ==
    ASSUME NEW m, m \in Volume, NEW o \in [Ino -> Int], Good(m, o), NEW d \in Dirs(m), m.ref[d] > 0,
           NEW n \in Name, NEW p \in Found(m, d, n), NEW i, i = At(m, d, p).ino,
           NEW w, w = Removed(m, d, p), NEW u, u = [o EXCEPT ![i] = o[i] + 1]
    PROVE  i \in Given(m) /\ Withdrawn(m, w, u, <<d, n, i>>)
<1>1. m.mem[d] = m.raw[d] /\ 0 \notin Ino /\ d \in Ino
  BY GoodParts, SomeNumbers DEF Dirs, Given
<1>2. PICK b : b = m.mem[d].blocks[p[1]]
  OBVIOUS
<1>3. PICK c : c = m.entries[b]
  OBVIOUS
<1>4. PICK q : q = p[2]
  OBVIOUS
<1>5. /\ d \in Ino /\ b \in Blk /\ b \in BlocksOf(m, d) /\ c \in Chain /\ Tiled(c)
      /\ q \in 1 .. Len(c) /\ At(m, d, p) = c[q] /\ c[q].ino \in Given(m) /\ c[q].name = n
      /\ <<d, b, q>> \in LinksOf(m) /\ View(m)[<<d, b, q>>] = <<d, n, c[q].ino>>
      /\ \A e \in Dirs(m) : b \in BlocksOf(m, e) => e = d
  <2>1. /\ d \in Ino /\ b \in Blk /\ b \in BlocksOf(m, d) /\ c \in Chain /\ Tiled(c)
        /\ p[2] \in 1 .. Len(c) /\ At(m, d, p) = c[p[2]] /\ c[p[2]].ino \in Given(m) /\ c[p[2]].name = n
        /\ <<d, b, p[2]>> \in LinksOf(m) /\ View(m)[<<d, b, p[2]>>] = <<d, n, c[p[2]].ino>>
        /\ \A e \in Dirs(m) : b \in BlocksOf(m, e) => e = d
    <3>1. m \in Volume /\ Good(m, o) /\ d \in Dirs(m) /\ p \in Found(m, d, n)
      OBVIOUS
    <3>2. FoundAt(m, d, n, p, b, c)
      BY ONLY <1>1, <1>2, <1>3, <3>1, FoundIs
    <3> QED
      BY <3>2 DEF FoundAt
  <2> QED
    BY <1>4, <2>1
<1>6. i = c[q].ino /\ i \in Given(m) /\ i # 0 /\ Len(c) \in Nat
  BY <1>1, <1>5 DEF Given, Chain
<1>7. PICK f : f = IF q > 1 THEN Merged(c, q) ELSE Cleared(c)
  OBVIOUS
<1>8. PICK e : e = [m.entries EXCEPT ![b] = f]
  OBVIOUS
<1>9. w = [m EXCEPT !.entries = e]
  BY <1>2, <1>3, <1>4, <1>7, <1>8 DEF Removed, Cleared
<1>10. f \in Chain /\ Tiled(f) /\ (q > 1 => Longer(f, c, q - 1))
       /\ (~ (q > 1) => q = 1 /\ Len(f) = Len(c) /\ (\A k \in 2 .. Len(c) : f[k] = c[k]) /\ f[1].ino = 0)
  <2>1. CASE q > 1
    <3>1. q \in 2 .. Len(c) /\ f = Merged(c, q)
      BY <1>5, <1>6, <1>7, <2>1
    <3> QED
      BY <1>5, <2>1, <3>1, MergeTiled
  <2>2. CASE ~ (q > 1)
    <3>1. q = 1 /\ Len(c) >= 1 /\ f = Cleared(c)
      BY <1>5, <1>6, <1>7, <2>2
    <3>2. c \in Chain /\ Tiled(c)
      BY <1>5
    <3>3. f \in Chain /\ Tiled(f) /\ Without(c, f)
      BY ONLY <3>1, <3>2, ClearTiled
    <3> QED
      BY <2>2, <3>1, <3>3 DEF Without
  <2> QED
    BY <2>1, <2>2
<1>11. e \in [Blk -> Chain] /\ e[b] = f /\ \A a \in Blk : a # b => e[a] = m.entries[a]
  BY <1>5, <1>8, <1>10, VolumeIs
<1>12. /\ w \in Volume
       /\ w.freeIno = m.freeIno /\ w.freeBlk = m.freeBlk /\ w.entries = e
       /\ w.raw = m.raw /\ w.mem = m.mem /\ w.ref = m.ref
  BY <1>9, <1>11 DEF Volume
<1>13. m.raw[d].blocks[1] = b => Len(f) >= 1 /\ f[1].ino = c[1].ino /\ f[1].name = c[1].name
  <2>1. SUFFICES ASSUME m.raw[d].blocks[1] = b
                 PROVE  Len(f) >= 1 /\ f[1].ino = c[1].ino /\ f[1].name = c[1].name
    OBVIOUS
  <2>2. c[1].name = Dot
    BY <1>3, <2>1 DEF Good, Arranged
  <2>3. Dot \notin Name
    BY NameAssumption
  <2>4. q # 1
    BY <1>5, <2>2, <2>3
  <2>5. q > 1 /\ 1 \in 1 .. (q - 1)
    BY <1>5, <1>6, <2>4
  <2>6. Longer(f, c, q - 1)
    BY <1>10, <2>5
  <2>7. Len(f) >= 1
    BY <1>10, TiledLength, SomeNumbers
  <2> QED
    BY <2>5, <2>6, <2>7 DEF Longer
<1>14. /\ Arranged(w) /\ Dirs(w) = Dirs(m) /\ Given(w) = Given(m)
       /\ \A j \in Ino : BlocksOf(w, j) = BlocksOf(m, j)
  <2>1. f = w.entries[b] /\ \A a \in Blk : a # b => w.entries[a] = m.entries[a]
    BY <1>11, <1>12
  <2>2. w.freeIno = m.freeIno /\ w.raw = m.raw /\ c = m.entries[b]
    BY <1>3, <1>12
  <2>3. \A a \in Dirs(m) : b \in BlocksOf(m, a) => a = d
    BY <1>5
  <2>4. m \in Volume /\ Good(m, o) /\ w \in Volume /\ b \in Blk /\ Tiled(f) /\ d \in Dirs(m)
    BY <1>5, <1>10, <1>12
  <2> QED
    BY ONLY <1>13, <2>1, <2>2, <2>3, <2>4, ArrangedStill
<1>15. Gains(View(w), View(m), <<d, n, i>>)
  <2>1. \A a \in Dirs(m) : BlocksOf(w, a) = BlocksOf(m, a)
    BY <1>14 DEF Dirs, Given
  <2>2. Arranged(m)
    BY DEF Good
  <2>3. \A a \in Blk : a # b => w.entries[a] = m.entries[a]
    BY <1>11, <1>12
  <2>4. w.entries[b] = f /\ m.entries[b] = c
    BY <1>3, <1>11, <1>12
  <2>5. CASE q > 1
    <3>1. PICK r : r = q - 1
      OBVIOUS
    <3>2. r + 1 = q
      BY <1>5, <1>6, <3>1
    <3>3. Longer(w.entries[b], m.entries[b], r) /\ m.entries[b][r + 1].ino # 0
      BY <1>6, <1>10, <2>4, <2>5, <3>1, <3>2
    <3>4. Dirs(m) = Dirs(w) /\ \A a \in Dirs(w) : BlocksOf(m, a) = BlocksOf(w, a)
      BY <1>14, <2>1
    <3>5. d \in Dirs(w) /\ b \in BlocksOf(w, d) /\ \A a \in Dirs(w) : b \in BlocksOf(w, a) => a = d
      BY <1>5, <1>14, <2>1
    <3>6. \A a \in Blk : a # b => m.entries[a] = w.entries[a]
      BY <2>3
    <3>7. m \in Volume /\ w \in Volume /\ Arranged(m) /\ Arranged(w)
      BY <1>12, <1>14, <2>2
    <3>8. Gains(View(w), View(m), <<d, m.entries[b][r + 1].name, m.entries[b][r + 1].ino>>)
      BY ONLY <3>3, <3>4, <3>5, <3>6, <3>7, OneMore
    <3> QED
      BY <1>5, <1>6, <2>4, <3>2, <3>8
  <2>6. CASE ~ (q > 1)
    <3>1. PICK z : z = <<d, b, 1>>
      OBVIOUS
    <3>2. q = 1 /\ Len(f) = Len(c) /\ (\A k \in 2 .. Len(c) : f[k] = c[k]) /\ f[1].ino = 0
      BY <1>10, <2>6
    <3>3. z \in LinksOf(m) /\ View(m)[z] = <<d, n, i>>
      BY <1>5, <1>6, <3>1, <3>2
    <3>4. z \notin LinksOf(w)
      <4>1. z[2] = b /\ z[3] = 1
        BY <3>1
      <4> QED
        BY <2>4, <3>2, <4>1, LinkParts
    <3>5. ASSUME NEW y \in LinksOf(w)
          PROVE  y \in LinksOf(m) /\ View(m)[y] = View(w)[y]
      <4>1. PICK a, g, k : a = y[1] /\ g = y[2] /\ k = y[3]
        OBVIOUS
      <4>2. /\ y = <<a, g, k>> /\ a \in Dirs(w) /\ g \in Blk /\ k \in 1 .. BS /\ g \in BlocksOf(w, a)
            /\ k <= Len(w.entries[g]) /\ w.entries[g][k].ino # 0
            /\ View(w)[y] = <<a, w.entries[g][k].name, w.entries[g][k].ino>>
        BY <4>1, LinkParts
      <4>3. Len(w.entries[g]) \in Nat /\ k \in Nat
        BY <1>12, <4>2, ChainIs, SomeNumbers
      <4>4. k \in 1 .. Len(m.entries[g]) /\ m.entries[g][k] = w.entries[g][k]
        <5>1. CASE g # b
          BY <2>3, <4>2, <4>3, <5>1
        <5>2. CASE g = b
          <6>1. k # 1
            BY <2>4, <3>2, <4>2, <5>2
          <6>2. k \in 2 .. Len(c)
            BY <1>6, <2>4, <3>2, <4>2, <4>3, <5>2, <6>1
          <6> QED
            BY <1>6, <2>4, <3>2, <5>2, <6>2
        <5> QED
          BY <5>1, <5>2
      <4>5. a \in Dirs(m) /\ g \in BlocksOf(m, a) /\ m.entries[g][k].ino # 0
        BY <1>14, <2>1, <4>2, <4>4
      <4>6. <<a, g, k>> \in LinksOf(m) /\ View(m)[<<a, g, k>>] = <<a, m.entries[g][k].name, m.entries[g][k].ino>>
        BY <2>2, <4>4, <4>5, LinkIs
      <4> QED
        BY <4>2, <4>4, <4>6
    <3>6. ASSUME NEW y \in LinksOf(m), y # z
          PROVE  y \in LinksOf(w)
      <4>1. PICK a, g, k : a = y[1] /\ g = y[2] /\ k = y[3]
        OBVIOUS
      <4>2. /\ y = <<a, g, k>> /\ a \in Dirs(m) /\ g \in Blk /\ k \in 1 .. BS /\ g \in BlocksOf(m, a)
            /\ k <= Len(m.entries[g]) /\ m.entries[g][k].ino # 0
        BY <4>1, LinkParts
      <4>3. Len(m.entries[g]) \in Nat /\ k \in Nat
        BY <4>2, ChainIs, SomeNumbers
      <4>4. k \in 1 .. Len(w.entries[g]) /\ m.entries[g][k] = w.entries[g][k]
        <5>1. CASE g # b
          BY <2>3, <4>2, <4>3, <5>1
        <5>2. CASE g = b
          <6>1. a = d
            BY <1>5, <4>2, <5>2
          <6>2. k # 1
            BY <3>1, <3>6, <4>2, <5>2, <6>1
          <6>3. k \in 2 .. Len(c)
            BY <1>6, <2>4, <4>2, <4>3, <5>2, <6>2
          <6> QED
            BY <1>6, <2>4, <3>2, <5>2, <6>3
        <5> QED
          BY <5>1, <5>2
      <4>5. a \in Dirs(w) /\ g \in BlocksOf(w, a) /\ w.entries[g][k].ino # 0
        BY <1>14, <2>1, <4>2, <4>4
      <4>6. w \in Volume /\ Arranged(w)
        BY <1>12, <1>14
      <4> QED
        BY <4>2, <4>4, <4>5, <4>6, LinkIs
    <3>7. DOMAIN View(m) = LinksOf(m) /\ DOMAIN View(w) = LinksOf(w)
      BY LinksFinite
    <3>8. /\ z \in DOMAIN View(m) /\ z \notin DOMAIN View(w) /\ DOMAIN View(m) = DOMAIN View(w) \cup {z}
          /\ \A y \in DOMAIN View(w) : View(m)[y] = View(w)[y]
      BY <3>3, <3>4, <3>5, <3>6, <3>7
    <3>9. Gains(View(w), View(m), View(m)[z])
      BY <3>8, GainInPlace
    <3> QED
      BY <3>3, <3>9
  <2> QED
    BY <2>5, <2>6
<1>16. Alike(m, w)
  <2>1. Cached(w)
    BY <1>12 DEF Good, Cached
  <2>2. Placed(w)
    BY <1>12, PlacedStill DEF Good
  <2> QED
    BY <1>12, <1>14, <2>1, <2>2 DEF Alike
<1>17. Good(w, u)
  <2>1. PICK t : t = <<d, n, i>>
    OBVIOUS
  <2>2. t[3] = i
    BY <2>1
  <2>3. u = [o EXCEPT ![t[3]] = o[t[3]] + 1] /\ Gains(View(w), View(m), t)
    BY <1>15, <2>1, <2>2
  <2>4. m \in Volume /\ o \in [Ino -> Int] /\ Good(m, o) /\ w \in Volume
    BY <1>12
  <2> QED
    BY ONLY <1>16, <2>3, <2>4, LostGood
<1> QED
  BY <1>6, <1>12, <1>14, <1>15, <1>17 DEF Withdrawn

-----------------------------------------------------------------------------
(***************************************************************************)
(* New inodes: what ext2_create and ext2_mkdir make before they name it.   *)
(***************************************************************************)
\* The numbers in X have become empty files; what is free may hold anything.
Fresh(m, w, X) ==
    /\ w.freeIno = m.freeIno \ X /\ w.freeBlk = m.freeBlk
    /\ w.mem = m.mem /\ w.ref = m.ref
    /\ \A j \in Given(m) : w.raw[j] = m.raw[j]
    /\ \A a \in Blk \ m.freeBlk : w.entries[a] = m.entries[a]
    /\ \A x \in X : w.raw[x] = Inode("file", 1, <<>>)

\* Nothing refers to a free number or to a free block.
LEMMA FreeIsFree ==
    ASSUME NEW m, m \in Volume, NEW o, Good(m, o)
    PROVE  /\ \A i \in m.freeIno : Count(View(m), i) = 0 /\ m.ref[i] = 0 /\ Nameless(m, i)
           /\ \A j \in Given(m) : \A a \in BlocksOf(m, j) : a \in Blk \ m.freeBlk
           /\ \A j \in Ino : m.ref[j] > 0 => j \in Given(m)
<1>1. \A x \in LinksOf(m) : View(m)[x][3] \in Given(m)
  BY DEF Good, Unused
<1>2. ASSUME NEW i \in m.freeIno
      PROVE  Count(View(m), i) = 0 /\ m.ref[i] = 0 /\ Nameless(m, i)
  <2>1. {x \in DOMAIN View(m) : View(m)[x][3] = i} = {}
    BY <1>1, LinksFinite DEF Given
  <2>2. Count(View(m), i) = 0
    BY <2>1, FS_EmptySet DEF Count
  <2>3. Nameless(m, i)
    BY <1>1 DEF Given, Nameless
  <2> QED
    BY <2>2, <2>3, GoodParts
<1>3. ASSUME NEW j \in Given(m), NEW a \in BlocksOf(m, j)
      PROVE  a \in Blk \ m.freeBlk
  <2>1. BlocksOf(m, j) \cap m.freeBlk = {}
    BY DEF Good, Placed
  <2>2. j \in Ino
    BY DEF Given
  <2> QED
    BY <2>1, <2>2, BlocksIs
<1> QED
  BY <1>2, <1>3, GoodParts

LEMMA FreshGood ==
    ASSUME NEW m, m \in Volume, NEW o, Good(m, o), NEW w, w \in Volume,
           NEW X \in SUBSET m.freeIno, Fresh(m, w, X),
           NEW p, \A j \in Given(m) : p[j] = o[j], \A x \in X : p[x] = 1
    PROVE  /\ Good(w, p) /\ View(w) = View(m) /\ Dirs(w) = Dirs(m) /\ Given(w) = Given(m) \cup X
           /\ \A x \in X : Nameless(w, x)
<1>1. /\ w.freeIno = m.freeIno \ X /\ w.freeBlk = m.freeBlk
      /\ w.mem = m.mem /\ w.ref = m.ref
      /\ \A j \in Given(m) : w.raw[j] = m.raw[j]
      /\ \A a \in Blk \ m.freeBlk : w.entries[a] = m.entries[a]
      /\ \A x \in X : w.raw[x] = Inode("file", 1, <<>>)
  BY DEF Fresh
<1>2. m.freeIno \subseteq Ino /\ X \subseteq Ino /\ Given(m) \subseteq Ino /\ Dirs(m) \subseteq Given(m)
  BY VolumeIs DEF Given, Dirs
<1>3. Given(w) = Given(m) \cup X /\ \A x \in X : x \notin Given(m)
  BY <1>1, <1>2 DEF Given
<1>4. \A x \in X : w.raw[x].type = "file" /\ w.raw[x].nlinks = 1 /\ w.raw[x].blocks = <<>>
  BY <1>1 DEF Inode
<1>5. Dirs(w) = Dirs(m)
  BY <1>1, <1>2, <1>3, <1>4 DEF Dirs
<1>6. /\ \A j \in Given(m) : w.raw[j].blocks = m.raw[j].blocks /\ BlocksOf(w, j) = BlocksOf(m, j)
      /\ \A x \in X : Len(w.raw[x].blocks) = 0 /\ BlocksOf(w, x) = {}
  <2>1. \A j \in Given(m) : w.raw[j].blocks = m.raw[j].blocks /\ BlocksOf(w, j) = BlocksOf(m, j)
    BY <1>1 DEF BlocksOf
  <2>2. ASSUME NEW x \in X
        PROVE  Len(w.raw[x].blocks) = 0 /\ BlocksOf(w, x) = {}
    <3>1. Len(w.raw[x].blocks) = 0
      BY <1>4
    <3> QED
      BY <3>1 DEF BlocksOf
  <2> QED
    BY <2>1, <2>2
<1>7. LinksOf(w) = LinksOf(m) /\ View(w) = View(m)
  <2>1. \A d \in Dirs(m) : BlocksOf(w, d) = BlocksOf(m, d)
    BY <1>2, <1>6
  <2>2. \A d \in Dirs(m) : \A a \in BlocksOf(m, d) : w.entries[a] = m.entries[a]
    BY <1>1, <1>2, FreeIsFree
  <2> QED
    BY <1>5, <2>1, <2>2, ViewSame
<1>8. Cached(w)
  BY <1>1, FreeIsFree, GoodParts DEF Cached
<1>9. Unused(w)
  BY <1>1, <1>3, <1>7 DEF Good, Unused
<1>10. Placed(w)
  <2>1. Placed(m)
    BY DEF Good
  <2>2. \A i, j \in Given(m) : \A k \in 1 .. Len(m.raw[i].blocks), h \in 1 .. Len(m.raw[j].blocks) :
          m.raw[i].blocks[k] = m.raw[j].blocks[h] => i = j /\ k = h
    BY <2>1 DEF Placed
  <2>3. \A i \in Given(w) : \A k \in 1 .. Len(w.raw[i].blocks) :
          i \in Given(m) /\ w.raw[i].blocks = m.raw[i].blocks
    BY <1>3, <1>6
  <2>4. \A i, j \in Given(w) : \A k \in 1 .. Len(w.raw[i].blocks), h \in 1 .. Len(w.raw[j].blocks) :
          w.raw[i].blocks[k] = w.raw[j].blocks[h] => i = j /\ k = h
    <3>1. SUFFICES ASSUME NEW i \in Given(w), NEW j \in Given(w), NEW k \in 1 .. Len(w.raw[i].blocks),
                          NEW h \in 1 .. Len(w.raw[j].blocks), w.raw[i].blocks[k] = w.raw[j].blocks[h]
                   PROVE  i = j /\ k = h
      OBVIOUS
    <3>2. i \in Given(m) /\ w.raw[i].blocks = m.raw[i].blocks
      BY <2>3
    <3>3. j \in Given(m) /\ w.raw[j].blocks = m.raw[j].blocks
      BY <2>3
    <3>4. k \in 1 .. Len(m.raw[i].blocks) /\ h \in 1 .. Len(m.raw[j].blocks) /\ m.raw[i].blocks[k] = m.raw[j].blocks[h]
      BY <3>1, <3>2, <3>3
    <3> QED
      BY ONLY <2>2, <3>2, <3>3, <3>4
  <2>5. \A i \in Given(w) : BlocksOf(w, i) \cap w.freeBlk = {}
    BY <1>1, <1>3, <1>6, <2>1 DEF Placed
  <2>6. \A a \in Blk \ w.freeBlk : \E i \in Given(w) : a \in BlocksOf(w, i)
    BY <1>1, <1>3, <1>6, <2>1 DEF Placed
  <2> QED
    BY <2>4, <2>5, <2>6 DEF Placed
<1>11. Arranged(w)
  <2>1. /\ \A d \in Dirs(m), a \in Blk : a \in BlocksOf(m, d) => Tiled(m.entries[a])
        /\ \A d \in Dirs(m) : /\ Len(m.raw[d].blocks) >= 1 /\ Len(m.entries[m.raw[d].blocks[1]]) >= 1
                              /\ m.entries[m.raw[d].blocks[1]][1].ino = d
                              /\ m.entries[m.raw[d].blocks[1]][1].name = Dot
        /\ \A j \in Given(m) \ Dirs(m) : m.raw[j].blocks = <<>>
    BY DEF Good, Arranged
  <2>2. \A d \in Dirs(w), a \in Blk : a \in BlocksOf(w, d) => Tiled(w.entries[a])
    BY <1>1, <1>2, <1>5, <1>6, <2>1, FreeIsFree
  <2>3. ASSUME NEW d \in Dirs(w)
        PROVE  /\ Len(w.raw[d].blocks) >= 1 /\ Len(w.entries[w.raw[d].blocks[1]]) >= 1
               /\ w.entries[w.raw[d].blocks[1]][1].ino = d
               /\ w.entries[w.raw[d].blocks[1]][1].name = Dot
    <3>1. PICK a : a = m.raw[d].blocks[1]
      OBVIOUS
    <3>2. d \in Dirs(m) /\ d \in Given(m) /\ d \in Ino
      BY <1>2, <1>5
    <3>3. Len(m.raw[d].blocks) >= 1 /\ Len(m.entries[a]) >= 1 /\ m.entries[a][1].ino = d /\ m.entries[a][1].name = Dot
      BY <2>1, <3>1, <3>2
    <3>4. 1 \in 1 .. Len(m.raw[d].blocks)
      BY <3>2, <3>3, BlocksIs
    <3>5. a \in BlocksOf(m, d)
      BY <3>1, <3>2, <3>4, BlocksIs
    <3>6. w.entries[a] = m.entries[a]
      BY <1>1, <3>2, <3>5, FreeIsFree
    <3> QED
      BY <1>6, <3>1, <3>2, <3>3, <3>6
  <2>4. \A j \in Given(w) \ Dirs(w) : w.raw[j].blocks = <<>>
    BY <1>1, <1>3, <1>4, <1>5, <2>1
  <2> QED
    BY <2>2, <2>3, <2>4 DEF Arranged
<1>12. Counted(w, p)
  <2>1. ASSUME NEW j \in Given(w)
        PROVE  w.raw[j].nlinks >= Count(View(w), j) + p[j] /\ (w.ref[j] = 0 => w.raw[j].nlinks > 0)
    <3>1. CASE j \in Given(m)
      BY <1>1, <1>7, <3>1, GoodParts
    <3>2. CASE j \in X
      <4>1. Count(View(w), j) = 0
        BY <1>1, <1>7, <3>2, FreeIsFree
      <4> QED
        BY <1>4, <3>2, <4>1
    <3> QED
      BY <1>3, <3>1, <3>2
  <2> QED
    BY <2>1 DEF Counted
<1>13. Good(w, p)
  BY <1>7, <1>8, <1>9, <1>10, <1>11, <1>12 DEF Good
<1>14. \A x \in X : Nameless(w, x)
  BY <1>7, FreeIsFree DEF Nameless
<1> QED
  BY <1>3, <1>5, <1>7, <1>13, <1>14

LEMMA DotsTiled ==
    ASSUME NEW i \in Ino, NEW d \in Ino, NEW c, c = Dots(i, d)
    PROVE  /\ c \in Chain /\ Tiled(c) /\ Len(c) = 2
           /\ c[1].ino = i /\ c[1].name = Dot /\ c[2].ino = d /\ c[2].name = DotDot
<1>1. Dot \in AnyName /\ DotDot \in AnyName
  BY DEF AnyName
<1>2. PICK u, v \in Nat : u = Needed[Dot] /\ v = Needed[DotDot]
  BY <1>1, NeededIs
<1>3. u \in 1 .. BS /\ v \in 1 .. BS /\ u + v <= BS /\ BS \in Nat
  BY <1>1, <1>2, NeededIs, NameAssumption
<1>4. PICK r \in Nat : r = BS - u
  BY <1>2, <1>3
<1>5. r \in 1 .. BS /\ r >= v /\ u + r = BS
  BY <1>2, <1>3, <1>4
<1>6. PICK x, y : x = Entry(i, Dot, u) /\ y = Entry(d, DotDot, r)
  OBVIOUS
<1>7. /\ x \in EntryType /\ x.ino = i /\ x.name = Dot /\ x.rec = u
      /\ y \in EntryType /\ y.ino = d /\ y.name = DotDot /\ y.rec = r
  BY <1>1, <1>3, <1>5, <1>6 DEF Entry, EntryType
<1>8. c = <<x, y>>
  BY <1>2, <1>4, <1>6 DEF Dots
<1>9. c \in Chain /\ Len(c) = 2 /\ c[1] = x /\ c[2] = y
  BY <1>7, <1>8 DEF Chain
<1>10. Ends(c)[2] = BS
  <2>1. PICK e : e = Ends(c)
    OBVIOUS
  <2>2. e[0] = 0 /\ \A k \in 1 .. Len(c) : e[k] = e[k - 1] + c[k].rec
    <3>1. Len(c) \in Nat
      BY <1>9
    <3> QED
      BY ONLY <2>1, <3>1, EndsIs
  <2>3. e[1] = e[1 - 1] + c[1].rec /\ e[2] = e[2 - 1] + c[2].rec
    BY <1>9, <2>2
  <2>4. 1 - 1 = 0 /\ 2 - 1 = 1
    OBVIOUS
  <2>5. e[1] = u
    BY <1>2, <1>7, <1>9, <2>2, <2>3, <2>4
  <2>6. e[2] = u + r
    BY <1>7, <1>9, <2>3, <2>4, <2>5
  <2> QED
    BY <1>5, <2>1, <2>6
<1>11. \A k \in 1 .. Len(c) : c[k].rec >= Needed[c[k].name]
  <2>1. \A k \in 1 .. Len(c) : k = 1 \/ k = 2
    BY <1>9
  <2>2. c[1].rec >= Needed[c[1].name] /\ c[2].rec >= Needed[c[2].name]
    BY <1>2, <1>5, <1>7, <1>9
  <2> QED
    BY <2>1, <2>2
<1> QED
  BY <1>7, <1>9, <1>10, <1>11 DEF Tiled

\* Number i has become a directory in d, with "." and ".." in block b.
Made(m, w, i, b, d) ==
    /\ w.freeIno = m.freeIno \ {i} /\ w.freeBlk = m.freeBlk \ {b}
    /\ w.mem = m.mem /\ w.ref = m.ref
    /\ \A j \in Given(m) : w.raw[j] = m.raw[j]
    /\ \A a \in Blk \ m.freeBlk : w.entries[a] = m.entries[a]
    /\ w.raw[i] = Inode("dir", 2, <<b>>) /\ w.entries[b] = Dots(i, d)

LEMMA MadeShape ==
    ASSUME NEW m, m \in Volume, NEW o, Good(m, o), NEW w, w \in Volume, NEW i \in m.freeIno, NEW b \in m.freeBlk,
           NEW d \in Dirs(m), Made(m, w, i, b, d)
    PROVE  /\ i \in Ino /\ b \in Blk /\ d \in Ino /\ i # d /\ i \notin Given(m)
           /\ Given(w) = Given(m) \cup {i} /\ Dirs(w) = Dirs(m) \cup {i}
           /\ w.raw[i].type = "dir" /\ w.raw[i].nlinks = 2 /\ w.raw[i].blocks = <<b>>
           /\ Len(w.raw[i].blocks) = 1 /\ w.raw[i].blocks[1] = b /\ BlocksOf(w, i) = {b}
           /\ \A j \in Given(m) : w.raw[j].blocks = m.raw[j].blocks /\ BlocksOf(w, j) = BlocksOf(m, j) /\ b \notin BlocksOf(m, j)
           /\ \A j \in Given(m) : \A a \in BlocksOf(m, j) : w.entries[a] = m.entries[a]
<1>1. /\ w.freeIno = m.freeIno \ {i} /\ \A j \in Given(m) : w.raw[j] = m.raw[j]
      /\ \A a \in Blk \ m.freeBlk : w.entries[a] = m.entries[a]
      /\ w.raw[i] = Inode("dir", 2, <<b>>)
  BY DEF Made
<1>2. i \in Ino /\ b \in Blk /\ d \in Ino /\ d \in Given(m) /\ i \notin Given(m)
  BY VolumeIs DEF Dirs, Given
<1>3. Given(w) = Given(m) \cup {i}
  BY <1>1, <1>2 DEF Given
<1>4. w.raw[i].type = "dir" /\ w.raw[i].nlinks = 2 /\ w.raw[i].blocks = <<b>>
  BY <1>1 DEF Inode
<1>5. Dirs(w) = Dirs(m) \cup {i}
  BY <1>1, <1>3, <1>4 DEF Dirs
<1>6. Len(w.raw[i].blocks) = 1 /\ w.raw[i].blocks[1] = b
  BY <1>4
<1>7. BlocksOf(w, i) = {b}
  <2>1. 1 .. Len(w.raw[i].blocks) = {1}
    BY <1>6
  <2> QED
    BY <1>6, <2>1 DEF BlocksOf
<1>8. \A j \in Given(m) : w.raw[j].blocks = m.raw[j].blocks /\ BlocksOf(w, j) = BlocksOf(m, j)
  BY <1>1 DEF BlocksOf
<1>9. \A j \in Given(m) : b \notin BlocksOf(m, j)
  BY FreeIsFree
<1>10. \A j \in Given(m) : \A a \in BlocksOf(m, j) : w.entries[a] = m.entries[a]
  BY <1>1, FreeIsFree
<1> QED
  BY <1>2, <1>3, <1>4, <1>5, <1>6, <1>7, <1>8, <1>9, <1>10

LEMMA MadePlaced ==
    ASSUME NEW m, m \in Volume, NEW o, Good(m, o), NEW w, w \in Volume, NEW i \in m.freeIno, NEW b \in m.freeBlk,
           NEW d \in Dirs(m), Made(m, w, i, b, d)
    PROVE  Placed(w) /\ Arranged(w)
<1>1. /\ i \in Ino /\ b \in Blk /\ d \in Ino /\ i # d /\ i \notin Given(m)
      /\ Given(w) = Given(m) \cup {i} /\ Dirs(w) = Dirs(m) \cup {i}
      /\ w.raw[i].type = "dir" /\ w.raw[i].nlinks = 2 /\ w.raw[i].blocks = <<b>>
      /\ Len(w.raw[i].blocks) = 1 /\ w.raw[i].blocks[1] = b /\ BlocksOf(w, i) = {b}
      /\ \A j \in Given(m) : w.raw[j].blocks = m.raw[j].blocks /\ BlocksOf(w, j) = BlocksOf(m, j) /\ b \notin BlocksOf(m, j)
      /\ \A j \in Given(m) : \A a \in BlocksOf(m, j) : w.entries[a] = m.entries[a]
  BY MadeShape
<1>2. w.freeBlk = m.freeBlk \ {b} /\ w.entries[b] = Dots(i, d)
  BY DEF Made
<1>3. Placed(w)
  <2>1. /\ \A h, j \in Given(m) : \A k \in 1 .. Len(m.raw[h].blocks), l \in 1 .. Len(m.raw[j].blocks) :
              m.raw[h].blocks[k] = m.raw[j].blocks[l] => h = j /\ k = l
        /\ \A h \in Given(m) : BlocksOf(m, h) \cap m.freeBlk = {}
        /\ \A a \in Blk \ m.freeBlk : \E h \in Given(m) : a \in BlocksOf(m, h)
    BY DEF Good, Placed
  <2>2. \A h, j \in Given(m) : \A k \in 1 .. Len(m.raw[h].blocks), l \in 1 .. Len(m.raw[j].blocks) :
              m.raw[h].blocks[k] = m.raw[j].blocks[l] => h = j /\ k = l
    BY <2>1
  <2>3. ASSUME NEW h \in Given(w), NEW j \in Given(w), NEW k \in 1 .. Len(w.raw[h].blocks),
               NEW l \in 1 .. Len(w.raw[j].blocks), w.raw[h].blocks[k] = w.raw[j].blocks[l]
        PROVE  h = j /\ k = l
    <3>1. w.raw[h].blocks[k] \in BlocksOf(w, h) /\ w.raw[j].blocks[l] \in BlocksOf(w, j)
      BY DEF BlocksOf
    <3>2. CASE h \in Given(m) /\ j \in Given(m)
      <4>1. w.raw[h].blocks = m.raw[h].blocks /\ w.raw[j].blocks = m.raw[j].blocks
        BY <1>1, <3>2
      <4>2. k \in 1 .. Len(m.raw[h].blocks) /\ l \in 1 .. Len(m.raw[j].blocks) /\ m.raw[h].blocks[k] = m.raw[j].blocks[l]
        BY <2>3, <4>1
      <4> QED
        BY ONLY <2>2, <3>2, <4>2
    <3>3. CASE h = i /\ j = i
      <4>1. k \in 1 .. 1 /\ l \in 1 .. 1
        BY <1>1, <2>3, <3>3
      <4> QED
        BY <3>3, <4>1
    <3>4. CASE h = i /\ j # i
      <4>1. j \in Given(m) /\ b \in BlocksOf(w, j)
        BY <1>1, <2>3, <3>1, <3>4
      <4> QED
        BY <1>1, <4>1
    <3>5. CASE h # i /\ j = i
      <4>1. h \in Given(m) /\ b \in BlocksOf(w, h)
        BY <1>1, <2>3, <3>1, <3>5
      <4> QED
        BY <1>1, <4>1
    <3> QED
      BY <1>1, <3>2, <3>3, <3>4, <3>5
  <2>4. \A h \in Given(w) : BlocksOf(w, h) \cap w.freeBlk = {}
    BY <1>1, <1>2, <2>1
  <2>5. \A a \in Blk \ w.freeBlk : \E h \in Given(w) : a \in BlocksOf(w, h)
    <3>1. SUFFICES ASSUME NEW a \in Blk \ w.freeBlk
                   PROVE  \E h \in Given(w) : a \in BlocksOf(w, h)
      OBVIOUS
    <3>2. CASE a = b
      BY <1>1, <3>2
    <3>3. CASE a # b
      <4>1. PICK h \in Given(m) : a \in BlocksOf(m, h)
        BY <1>2, <2>1, <3>3
      <4> QED
        BY <1>1, <4>1
    <3> QED
      BY <3>2, <3>3
  <2> QED
    BY <2>3, <2>4, <2>5 DEF Placed
<1>4. Arranged(w)
  <2>1. /\ \A e \in Dirs(m), a \in Blk : a \in BlocksOf(m, e) => Tiled(m.entries[a])
        /\ \A e \in Dirs(m) : /\ Len(m.raw[e].blocks) >= 1 /\ Len(m.entries[m.raw[e].blocks[1]]) >= 1
                              /\ m.entries[m.raw[e].blocks[1]][1].ino = e
                              /\ m.entries[m.raw[e].blocks[1]][1].name = Dot
        /\ \A j \in Given(m) \ Dirs(m) : m.raw[j].blocks = <<>>
    BY DEF Good, Arranged
  <2>2. PICK c : c = Dots(i, d)
    OBVIOUS
  <2>3. Tiled(c) /\ Len(c) = 2 /\ c[1].ino = i /\ c[1].name = Dot
    BY <1>1, <2>2, DotsTiled
  <2>4. Dirs(m) \subseteq Given(m)
    BY DEF Dirs
  <2>5. ASSUME NEW e \in Dirs(w), NEW a \in Blk, a \in BlocksOf(w, e)
        PROVE  Tiled(w.entries[a])
    <3>1. CASE e = i
      BY <1>1, <1>2, <2>2, <2>3, <2>5, <3>1
    <3>2. CASE e # i
      <4>1. e \in Dirs(m) /\ e \in Given(m)
        BY <1>1, <2>4, <3>2
      <4>2. a \in BlocksOf(m, e) /\ w.entries[a] = m.entries[a]
        BY <1>1, <2>5, <4>1
      <4> QED
        BY <2>1, <4>1, <4>2
    <3> QED
      BY <3>1, <3>2
  <2>6. ASSUME NEW e \in Dirs(w)
        PROVE  /\ Len(w.raw[e].blocks) >= 1 /\ Len(w.entries[w.raw[e].blocks[1]]) >= 1
               /\ w.entries[w.raw[e].blocks[1]][1].ino = e
               /\ w.entries[w.raw[e].blocks[1]][1].name = Dot
    <3>1. CASE e = i
      BY <1>1, <1>2, <2>2, <2>3, <3>1
    <3>2. CASE e # i
      <4>1. PICK a : a = m.raw[e].blocks[1]
        OBVIOUS
      <4>2. e \in Dirs(m) /\ e \in Given(m) /\ e \in Ino
        BY <1>1, <2>4, <3>2 DEF Given
      <4>3. Len(m.raw[e].blocks) >= 1 /\ Len(m.entries[a]) >= 1 /\ m.entries[a][1].ino = e /\ m.entries[a][1].name = Dot
        BY <2>1, <4>1, <4>2
      <4>4. 1 \in 1 .. Len(m.raw[e].blocks)
        BY <4>2, <4>3, BlocksIs
      <4>5. a \in BlocksOf(m, e)
        BY <4>1, <4>2, <4>4, BlocksIs
      <4>6. w.entries[a] = m.entries[a] /\ w.raw[e].blocks = m.raw[e].blocks
        BY <1>1, <4>2, <4>5
      <4> QED
        BY <4>1, <4>3, <4>6
    <3> QED
      BY <3>1, <3>2
  <2>7. \A j \in Given(w) \ Dirs(w) : w.raw[j].blocks = <<>>
    BY <1>1, <2>1
  <2> QED
    BY <2>5, <2>6, <2>7 DEF Arranged
<1> QED
  BY <1>3, <1>4

\* The links of the new directory, one after the other.
LEMMA MadeGains ==
    ASSUME NEW m, m \in Volume, NEW o, Good(m, o), NEW w, w \in Volume, NEW i \in m.freeIno, NEW b \in m.freeBlk,
           NEW d \in Dirs(m), Made(m, w, i, b, d)
    PROVE  \E g : Gains(View(m), g, <<i, Dot, i>>) /\ Gains(g, View(w), <<i, DotDot, d>>) /\ IsFiniteSet(DOMAIN g)
<1>1. /\ i \in Ino /\ b \in Blk /\ d \in Ino /\ i # d /\ i \notin Given(m)
      /\ Given(w) = Given(m) \cup {i} /\ Dirs(w) = Dirs(m) \cup {i}
      /\ w.raw[i].type = "dir" /\ w.raw[i].nlinks = 2 /\ w.raw[i].blocks = <<b>>
      /\ Len(w.raw[i].blocks) = 1 /\ w.raw[i].blocks[1] = b /\ BlocksOf(w, i) = {b}
      /\ \A j \in Given(m) : w.raw[j].blocks = m.raw[j].blocks /\ BlocksOf(w, j) = BlocksOf(m, j) /\ b \notin BlocksOf(m, j)
      /\ \A j \in Given(m) : \A a \in BlocksOf(m, j) : w.entries[a] = m.entries[a]
  BY MadeShape
<1>2. Arranged(w) /\ Arranged(m) /\ Dirs(m) \subseteq Given(m) /\ 0 \notin Ino
  BY MadePlaced, SomeNumbers DEF Good, Dirs
<1>3. PICK c : c = w.entries[b]
  OBVIOUS
<1>4. /\ c \in Chain /\ Tiled(c) /\ Len(c) = 2
      /\ c[1].ino = i /\ c[1].name = Dot /\ c[2].ino = d /\ c[2].name = DotDot
  <2>1. c = Dots(i, d)
    BY <1>3 DEF Made
  <2> QED
    BY <1>1, <2>1, DotsTiled
<1>5. PICK y, z : y = <<i, b, 1>> /\ z = <<i, b, 2>>
  OBVIOUS
<1>6. y # z
  BY <1>5
<1>7. ASSUME NEW k \in 1 .. 2
      PROVE  <<i, b, k>> \in LinksOf(w) /\ View(w)[<<i, b, k>>] = <<i, c[k].name, c[k].ino>>
  <2>1. i \in Dirs(w) /\ b \in BlocksOf(w, i) /\ k \in 1 .. Len(w.entries[b])
    BY <1>1, <1>3, <1>4
  <2>2. w.entries[b][k].ino # 0
    BY <1>1, <1>2, <1>3, <1>4
  <2>3. <<i, b, k>> \in LinksOf(w) /\ View(w)[<<i, b, k>>] = <<i, w.entries[b][k].name, w.entries[b][k].ino>>
    BY <1>2, <2>1, <2>2, LinkIs
  <2> QED
    BY <1>3, <2>3
<1>8. /\ y \in LinksOf(w) /\ View(w)[y] = <<i, Dot, i>>
      /\ z \in LinksOf(w) /\ View(w)[z] = <<i, DotDot, d>>
  <2>1. 1 \in 1 .. 2 /\ 2 \in 1 .. 2
    OBVIOUS
  <2> QED
    BY <1>4, <1>5, <1>7, <2>1
<1>9. y \notin LinksOf(m) /\ z \notin LinksOf(m)
  <2>1. y[1] = i /\ z[1] = i
    BY <1>5
  <2> QED
    BY <1>1, <2>1, LinkParts
<1>10. ASSUME NEW x \in LinksOf(m)
       PROVE  x \in LinksOf(w) /\ View(w)[x] = View(m)[x]
  <2>1. PICK e, a, k : e = x[1] /\ a = x[2] /\ k = x[3]
    OBVIOUS
  <2>2. /\ x = <<e, a, k>> /\ e \in Dirs(m) /\ a \in Blk /\ k \in 1 .. BS /\ a \in BlocksOf(m, e)
        /\ k <= Len(m.entries[a]) /\ m.entries[a][k].ino # 0
        /\ View(m)[x] = <<e, m.entries[a][k].name, m.entries[a][k].ino>>
    BY <2>1, LinkParts
  <2>3. e \in Dirs(w) /\ a \in BlocksOf(w, e) /\ w.entries[a] = m.entries[a]
    BY <1>1, <1>2, <2>2
  <2>4. k \in 1 .. Len(w.entries[a]) /\ w.entries[a][k].ino # 0
    BY <2>2, <2>3, ChainIs, SomeNumbers
  <2>5. <<e, a, k>> \in LinksOf(w) /\ View(w)[<<e, a, k>>] = <<e, w.entries[a][k].name, w.entries[a][k].ino>>
    BY <1>2, <2>3, <2>4, LinkIs
  <2> QED
    BY <2>2, <2>3, <2>5
<1>11. ASSUME NEW x \in LinksOf(w), x # y, x # z
       PROVE  x \in LinksOf(m)
  <2>1. PICK e, a, k : e = x[1] /\ a = x[2] /\ k = x[3]
    OBVIOUS
  <2>2. /\ x = <<e, a, k>> /\ e \in Dirs(w) /\ a \in Blk /\ k \in 1 .. BS /\ a \in BlocksOf(w, e)
        /\ k <= Len(w.entries[a]) /\ w.entries[a][k].ino # 0
    BY <2>1, LinkParts
  <2>3. CASE e = i
    <3>1. a = b /\ k <= 2 /\ k \in Nat
      BY <1>1, <1>3, <1>4, <2>2, <2>3, SomeNumbers
    <3>2. k = 1 \/ k = 2
      BY <2>2, <3>1
    <3> QED
      BY <1>5, <1>11, <2>2, <2>3, <3>1, <3>2
  <2>4. CASE e # i
    <3>1. e \in Dirs(m) /\ a \in BlocksOf(m, e) /\ w.entries[a] = m.entries[a]
      BY <1>1, <1>2, <2>2, <2>4
    <3>2. k \in 1 .. Len(m.entries[a]) /\ m.entries[a][k].ino # 0
      BY <2>2, <3>1, ChainIs, SomeNumbers
    <3> QED
      BY <1>2, <2>2, <3>1, <3>2, LinkIs
  <2> QED
    BY <2>3, <2>4
<1>12. PICK g : g = [x \in LinksOf(m) \cup {y} |-> View(w)[x]]
  OBVIOUS
<1>13. DOMAIN View(m) = LinksOf(m) /\ DOMAIN View(w) = LinksOf(w) /\ DOMAIN g = LinksOf(m) \cup {y}
       /\ IsFiniteSet(LinksOf(w))
  BY <1>12, LinksFinite
<1>14. IsFiniteSet(DOMAIN g)
  <2>1. DOMAIN g \subseteq LinksOf(w)
    BY <1>8, <1>10, <1>13
  <2> QED
    BY <1>13, <2>1, FS_Subset
<1>15. Gains(View(m), g, <<i, Dot, i>>)
  <2>1. /\ y \in DOMAIN g /\ y \notin DOMAIN View(m) /\ DOMAIN g = DOMAIN View(m) \cup {y}
        /\ \A x \in DOMAIN View(m) : g[x] = View(m)[x]
    BY <1>9, <1>10, <1>12, <1>13
  <2>2. Gains(View(m), g, g[y])
    BY <2>1, GainInPlace
  <2> QED
    BY <1>8, <1>12, <2>2
<1>16. Gains(g, View(w), <<i, DotDot, d>>)
  <2>1. /\ z \in DOMAIN View(w) /\ z \notin DOMAIN g /\ DOMAIN View(w) = DOMAIN g \cup {z}
        /\ \A x \in DOMAIN g : View(w)[x] = g[x]
    <3>1. DOMAIN View(w) = DOMAIN g \cup {z}
      BY <1>8, <1>10, <1>11, <1>13
    <3> QED
      BY <1>6, <1>8, <1>9, <1>12, <1>13, <3>1
  <2>2. Gains(g, View(w), View(w)[z])
    BY <2>1, GainInPlace
  <2> QED
    BY <1>8, <2>2
<1> QED
  BY <1>14, <1>15, <1>16

Dotted(m, w, i, d) ==
    /\ Given(w) = Given(m) \cup {i} /\ Dirs(w) = Dirs(m) \cup {i} /\ Nameless(w, i)
    /\ Named(View(w)) = Named(View(m)) \cup {<<i, Dot, i>>, <<i, DotDot, d>>}

LEMMA MadeGood ==
    ASSUME NEW m, m \in Volume, NEW o \in [Ino -> Int], Good(m, o), NEW w, w \in Volume,
           NEW i \in m.freeIno, NEW b \in m.freeBlk,
           NEW d \in Dirs(m), Made(m, w, i, b, d),
           NEW p, p[i] = 1, p[d] = o[d] - 1, \A j \in Ino : j # i /\ j # d => p[j] = o[j]
    PROVE  Good(w, p) /\ Dotted(m, w, i, d)
<1>1. /\ i \in Ino /\ b \in Blk /\ d \in Ino /\ i # d /\ i \notin Given(m)
      /\ Given(w) = Given(m) \cup {i} /\ Dirs(w) = Dirs(m) \cup {i}
      /\ w.raw[i].nlinks = 2
  BY MadeShape
<1>2. Placed(w) /\ Arranged(w) /\ Dirs(m) \subseteq Given(m)
  BY MadePlaced DEF Dirs
<1>3. PICK g : Gains(View(m), g, <<i, Dot, i>>) /\ Gains(g, View(w), <<i, DotDot, d>>) /\ IsFiniteSet(DOMAIN g)
  BY MadeGains
<1>4. PICK s, t : s = <<i, Dot, i>> /\ t = <<i, DotDot, d>>
  OBVIOUS
<1>5. /\ s[2] = Dot /\ s[3] = i /\ t[2] = DotDot /\ t[3] = d /\ s[2] \notin Name /\ t[2] \notin Name
      /\ Gains(View(m), g, s) /\ Gains(g, View(w), t)
  BY <1>3, <1>4, NameAssumption
<1>6. Named(View(w)) = Named(View(m)) \cup {s, t}
  <2>1. Named(g) = Named(View(m)) \cup {s}
    BY <1>5, GainNamed
  <2>2. Named(View(w)) = Named(g) \cup {t}
    BY <1>5, GainNamed
  <2> QED
    BY <2>1, <2>2
<1>7. w.freeIno = m.freeIno \ {i} /\ w.mem = m.mem /\ w.ref = m.ref
      /\ \A j \in Given(m) : w.raw[j] = m.raw[j]
  BY DEF Made
<1>8. Cached(w)
  BY <1>7, FreeIsFree, GoodParts DEF Cached
<1>9. Unused(w)
  <2>1. \A u \in Named(View(m)) : u[3] \in Given(m)
    BY NamedGiven DEF Good, Unused
  <2>2. \A u \in Named(View(w)) : u[3] \in Given(w)
    BY <1>1, <1>2, <1>5, <1>6, <2>1
  <2>3. \A x \in LinksOf(w) : View(w)[x][3] \in Given(w)
    BY <2>2, NamedGiven
  <2> QED
    BY <1>7, <2>3 DEF Good, Unused
<1>10. OneName(View(w))
  <2>1. OneName(View(m))
    BY DEF Good
  <2>2. OneName(g)
    BY <1>5, <2>1, GainOneName
  <2> QED
    BY <1>5, <2>2, GainOneName
<1>11. Counted(w, p)
  <2>1. ASSUME NEW j \in Given(w)
        PROVE  w.raw[j].nlinks >= Count(View(w), j) + p[j] /\ (w.ref[j] = 0 => w.raw[j].nlinks > 0)
    <3>1. Count(View(m), j) \in Nat /\ Count(g, j) = Count(View(m), j) + (IF s[3] = j THEN 1 ELSE 0)
      <4>1. IsFiniteSet(DOMAIN View(m))
        BY LinksFinite
      <4> QED
        BY <1>5, <4>1, GainCount
    <3>2. Count(g, j) \in Nat /\ Count(View(w), j) = Count(g, j) + (IF t[3] = j THEN 1 ELSE 0)
      BY <1>3, <1>5, GainCount
    <3>3. PICK a \in Nat : a = Count(View(m), j)
      BY <3>1
    <3>4. CASE j = i
      <4>1. a = 0
        BY <1>7, <3>3, <3>4, FreeIsFree
      <4>2. Count(View(w), j) = 1
        BY <1>1, <1>5, <3>1, <3>2, <3>3, <3>4, <4>1
      <4>3. p[j] = 1
        BY <1>1, <3>4
      <4> QED
        BY <1>1, <3>4, <4>1, <4>2, <4>3
    <3>5. CASE j # i
      <4>1. j \in Given(m) /\ j \in Ino
        BY <1>1, <3>5 DEF Given
      <4>2. m.raw[j].nlinks >= a + o[j] /\ (m.ref[j] = 0 => m.raw[j].nlinks > 0)
        BY <3>3, <4>1, GoodParts
      <4>3. PICK l \in Nat : l = m.raw[j].nlinks
        BY <4>1, GoodParts
      <4>4. PICK u \in Int : u = o[j]
        BY <4>1
      <4>5. l >= a + u /\ w.raw[j].nlinks = l
        BY <1>7, <4>1, <4>2, <4>3, <4>4
      <4>6. CASE j = d
        <5>1. Count(View(w), j) = (a + 0) + 1 /\ p[j] = u - 1
          BY <1>1, <1>5, <3>1, <3>2, <3>3, <3>5, <4>1, <4>4, <4>6
        <5>2. l >= ((a + 0) + 1) + (u - 1)
          BY ONLY <3>3, <4>3, <4>4, <4>5
        <5> QED
          BY <1>7, <4>1, <4>2, <4>5, <5>1, <5>2
      <4>7. CASE j # d
        <5>1. Count(View(w), j) = (a + 0) + 0 /\ p[j] = u
          BY <1>1, <1>5, <3>1, <3>2, <3>3, <3>5, <4>1, <4>4, <4>7
        <5>2. l >= ((a + 0) + 0) + u
          BY ONLY <3>3, <4>3, <4>4, <4>5
        <5> QED
          BY <1>7, <4>1, <4>2, <4>5, <5>1, <5>2
      <4> QED
        BY <4>6, <4>7
    <3> QED
      BY <3>4, <3>5
  <2> QED
    BY <2>1 DEF Counted
<1>12. Nameless(w, i)
  <2>1. ASSUME NEW x \in LinksOf(w), View(w)[x][3] = i, View(w)[x][2] \in Name
        PROVE  FALSE
    <3>1. View(w)[x] \in Named(View(w))
      BY LinksFinite DEF Named
    <3>2. View(w)[x] \in Named(View(m))
      BY <1>5, <1>6, <2>1, <3>1
    <3>3. \A u \in Named(View(m)) : u[3] \in Given(m)
      BY NamedGiven DEF Good, Unused
    <3> QED
      BY <1>1, <2>1, <3>2, <3>3
  <2> QED
    BY <2>1 DEF Nameless
<1>13. Good(w, p)
  BY <1>2, <1>8, <1>9, <1>10, <1>11 DEF Good
<1> QED
  BY <1>1, <1>4, <1>6, <1>12, <1>13 DEF Dotted

-----------------------------------------------------------------------------
(***************************************************************************)
(* The calls.                                                              *)
(***************************************************************************)
Proper(S) == {t \in S : t[2] \in Name}

\* What a call may do to the proper names S: they become T.
NameStep(S, T, l) ==
    LET new == T \ S
        gone == S \ T
        done == l.result # Null
        it == <<l.dir, l.name, l.result>>
    IN  CASE l.op \in {"create", "mkdir"} /\ (done \/ l.oom) ->
                 /\ gone = {} /\ Cardinality(new) = 1
                 /\ \A t \in new : IF done THEN t = it ELSE t[1] = it[1] /\ t[2] = it[2]
          [] l.op = "unlink" /\ done -> new = {} /\ gone = {it}
          [] OTHER -> new = {} /\ gone = {}

\* A call for inode i returns it, or nullptr for lack of memory.
Outcome(l, i) == l.oom \in BOOLEAN /\ (l.result = i \/ (l.result = 0 /\ l.oom = TRUE))

Done(m, w, l) ==
    /\ w \in Volume /\ Good(w, NoDebt) /\ l.result \in Ino \cup {0} /\ l.oom \in BOOLEAN
    /\ NameStep(Proper(Named(View(m))), Proper(Named(View(w))), l)

Ready(m) == m \in Volume /\ Good(m, NoDebt)

LEMMA DebtIs ==
    ASSUME NEW i \in Ino
    PROVE  /\ Debt(i, 1) \in [Ino -> Int] /\ NoDebt \in [Ino -> Int]
           /\ NoDebt = [Debt(i, 1) EXCEPT ![i] = Debt(i, 1)[i] - 1]
           /\ Debt(i, 1) = [NoDebt EXCEPT ![i] = NoDebt[i] + 1]
           /\ \A j \in Ino : j # i => Debt(i, 1)[j] = NoDebt[j]
           /\ Debt(i, 1)[i] = 1 /\ NoDebt[i] = 0
<1>1. /\ Debt(i, 1) \in [Ino -> Int] /\ NoDebt \in [Ino -> Int]
      /\ \A j \in Ino : j # i => Debt(i, 1)[j] = NoDebt[j]
      /\ Debt(i, 1)[i] = 1 /\ NoDebt[i] = 0 /\ \A j \in Ino : NoDebt[j] = 0
  BY DEF Debt, NoDebt
<1>2. NoDebt = [Debt(i, 1) EXCEPT ![i] = Debt(i, 1)[i] - 1]
  <2>1. PICK f : f = [Debt(i, 1) EXCEPT ![i] = Debt(i, 1)[i] - 1]
    OBVIOUS
  <2>2. \A j \in Ino : f[j] = NoDebt[j]
    BY <1>1, <2>1
  <2>3. f \in [Ino -> Int]
    BY <1>1, <2>1
  <2> QED
    BY <1>1, <2>1, <2>2, <2>3
<1>3. Debt(i, 1) = [NoDebt EXCEPT ![i] = NoDebt[i] + 1]
  <2>1. PICK f : f = [NoDebt EXCEPT ![i] = NoDebt[i] + 1]
    OBVIOUS
  <2>2. \A j \in Ino : f[j] = Debt(i, 1)[j]
    BY <1>1, <2>1
  <2>3. f \in [Ino -> Int]
    BY <1>1, <2>1
  <2> QED
    BY <1>1, <2>1, <2>2, <2>3
<1> QED
  BY <1>1, <1>2, <1>3

\* A call that changes no names.
LEMMA Quiet ==
    ASSUME NEW m, NEW w, w \in Volume, Good(w, NoDebt), View(w) = View(m),
           NEW l, l.result \in Ino \cup {0}, l.oom \in BOOLEAN,
           l.op \in {"create", "mkdir", "unlink"} => l.result = 0 /\ l.oom = FALSE
    PROVE  Done(m, w, l)
<1>1. Named(View(w)) = Named(View(m))
  OBVIOUS
<1>2. PICK S : S = Proper(Named(View(m)))
  OBVIOUS
<1>3. S \ S = {}
  OBVIOUS
<1>4. l.op \in {"create", "mkdir"} \/ l.op = "unlink" => l.result = Null /\ ~ l.oom
  BY DEF Null
<1>5. NameStep(S, S, l)
  BY <1>3, <1>4 DEF NameStep
<1> QED
  BY <1>1, <1>2, <1>5 DEF Done

\* A call that returns the inode, if there is memory for it.
Returned(h, i, oom) == IF NoMemory(h, i, oom) THEN h ELSE iget(h, i)

LEMMA ReturnedGood ==
    ASSUME NEW h, Ready(h), NEW i \in Given(h), NEW oom, NEW w, w = Returned(h, i, oom)
    PROVE  w \in Volume /\ Good(w, NoDebt) /\ View(w) = View(h)
<1>1. h \in Volume /\ Good(h, NoDebt)
  BY DEF Ready
<1>2. CASE NoMemory(h, i, oom)
  BY <1>1, <1>2 DEF Returned
<1>3. CASE ~ NoMemory(h, i, oom)
  BY <1>1, <1>3, IgetGood DEF Returned
<1> QED
  BY <1>2, <1>3

\* A call that adds a proper name.
LEMMA Naming ==
    ASSUME NEW m, NEW w, w \in Volume, Good(w, NoDebt), NEW d, NEW n \in Name, NEW i \in Ino,
           Proper(Named(View(w))) = Proper(Named(View(m))) \cup {<<d, n, i>>},
           <<d, n, i>> \notin Proper(Named(View(m))),
           NEW l, l.op \in {"create", "mkdir"}, l.dir = d, l.name = n, Outcome(l, i)
    PROVE  Done(m, w, l)
<1>1. PICK S, T, t : S = Proper(Named(View(m))) /\ T = Proper(Named(View(w))) /\ t = <<d, n, i>>
  OBVIOUS
<1>2. T \ S = {t} /\ S \ T = {}
  BY <1>1
<1>3. i # 0 /\ l.result \in Ino \cup {0} /\ l.oom \in BOOLEAN
  BY SomeNumbers DEF Outcome
<1>4. Cardinality({t}) = 1 /\ t[1] = d /\ t[2] = n
  BY <1>1, FS_Singleton
<1>5. CASE l.result = i
  <2>1. l.result # Null /\ <<l.dir, l.name, l.result>> = t
    BY <1>1, <1>3, <1>5 DEF Null
  <2>2. NameStep(S, T, l)
    BY <1>2, <1>4, <2>1 DEF NameStep
  <2> QED
    BY <1>1, <1>3, <2>2 DEF Done
<1>6. CASE l.result = 0 /\ l.oom = TRUE
  <2>1. PICK u : u = <<l.dir, l.name, l.result>>
    OBVIOUS
  <2>2. u[1] = t[1] /\ u[2] = t[2]
    BY <1>4, <2>1
  <2>3. l.result = Null
    BY <1>6 DEF Null
  <2>4. NameStep(S, T, l)
    BY <1>2, <1>4, <1>6, <2>1, <2>2, <2>3 DEF NameStep
  <2> QED
    BY <1>1, <1>3, <2>4 DEF Done
<1> QED
  BY <1>5, <1>6 DEF Outcome

\* ext2_create, up to the entry.
NewFile(m, i) == [AllocIno(m) EXCEPT !.raw[i] = Inode("file", 1, <<>>)]

LEMMA NewInodeIs ==
    ASSUME NEW m, m \in Volume, m.freeIno # {}, NEW i, i = Lowest(m.freeIno)
    PROVE  i \in Ino /\ i \in m.freeIno /\ i \notin Given(m)
<1>1. m.freeIno \in SUBSET Nat
  BY VolumeIs, SomeNumbers
<1>2. i \in m.freeIno
  BY <1>1, LowestIn
<1> QED
  BY <1>2, VolumeIs DEF Given

LEMMA NewFileGood ==
    ASSUME NEW m, Ready(m), m.freeIno # {}, NEW i, i = Lowest(m.freeIno), NEW k, k = NewFile(m, i)
    PROVE  /\ k \in Volume /\ Good(k, Debt(i, 1)) /\ View(k) = View(m)
           /\ i \in Ino /\ Given(k) = Given(m) \cup {i} /\ Dirs(k) = Dirs(m) /\ Nameless(k, i) /\ k.ref = m.ref
<1>0. m \in Volume /\ Good(m, NoDebt)
  BY DEF Ready
<1>1. i \in Ino /\ i \in m.freeIno /\ i \notin Given(m)
  BY <1>0, NewInodeIs
<1>2. PICK F, r : F = m.freeIno \ {i} /\ r = [m.raw EXCEPT ![i] = Inode("file", 1, <<>>)]
  OBVIOUS
<1>3. Inode("file", 1, <<>>) \in InodeType
  BY DEF Inode, InodeType
<1>4. F \subseteq Ino /\ r \in [Ino -> InodeType] /\ r[i] = Inode("file", 1, <<>>) /\ \A j \in Ino : j # i => r[j] = m.raw[j]
  BY <1>0, <1>1, <1>2, <1>3, VolumeIs
<1>5. k = [m EXCEPT !.freeIno = F, !.raw = r]
  <2>1. PICK v : v = AllocIno(m)
    OBVIOUS
  <2>2. v = [m EXCEPT !.freeIno = F] /\ v.raw = m.raw
    BY <1>0, <1>2, <2>1 DEF AllocIno, Volume
  <2>3. k = [v EXCEPT !.raw = r]
    BY <1>2, <2>1, <2>2 DEF NewFile
  <2> QED
    BY <1>0, <2>2, <2>3 DEF Volume
<1>6. k \in Volume /\ k.freeIno = F /\ k.freeBlk = m.freeBlk /\ k.entries = m.entries /\ k.raw = r /\ k.mem = m.mem
      /\ k.ref = m.ref
  BY <1>0, <1>4, <1>5 DEF Volume
<1>7. Fresh(m, k, {i})
  <2>1. \A j \in Given(m) : k.raw[j] = m.raw[j]
    BY <1>1, <1>4, <1>6 DEF Given
  <2> QED
    BY <1>2, <1>4, <1>6, <2>1 DEF Fresh
<1>8. \A j \in Given(m) : Debt(i, 1)[j] = NoDebt[j]
  BY <1>1, DebtIs DEF Given
<1>9. \A x \in {i} : Debt(i, 1)[x] = 1
  BY <1>1, DebtIs
<1>10. /\ Good(k, Debt(i, 1)) /\ View(k) = View(m) /\ Dirs(k) = Dirs(m) /\ Given(k) = Given(m) \cup {i}
       /\ \A x \in {i} : Nameless(k, x)
  <2>1. {i} \in SUBSET m.freeIno
    BY <1>1
  <2> QED
    BY ONLY <1>0, <1>6, <1>7, <1>8, <1>9, <2>1, FreshGood
<1> QED
  BY <1>1, <1>6, <1>10

\* A call that fails may leave something in what is free.
LEMMA ScratchGood ==
    ASSUME NEW m, Ready(m), NEW w, w \in Volume, Fresh(m, w, {})
    PROVE  Good(w, NoDebt) /\ View(w) = View(m)
<1>0. m \in Volume /\ Good(m, NoDebt)
  BY DEF Ready
<1>1. {} \in SUBSET m.freeIno /\ (\A j \in Given(m) : NoDebt[j] = NoDebt[j]) /\ \A x \in {} : NoDebt[x] = 1
  OBVIOUS
<1>2. /\ Good(w, NoDebt) /\ View(w) = View(m) /\ Dirs(w) = Dirs(m) /\ Given(w) = Given(m) \cup {}
      /\ \A x \in {} : Nameless(w, x)
  BY <1>0, <1>1, FreshGood
<1> QED
  BY <1>2

\* The entry for an inode without a name: the names of the directory grow by one.
LEMMA EntryNames ==
    ASSUME NEW k, NEW h, NEW p, NEW d, NEW n \in Name, NEW i, Nameless(k, i), Added(k, h, p, <<d, n, i>>)
    PROVE  /\ Proper(Named(View(h))) = Proper(Named(View(k))) \cup {<<d, n, i>>}
           /\ <<d, n, i>> \notin Proper(Named(View(k)))
<1>1. PICK t : t = <<d, n, i>>
  OBVIOUS
<1>2. t[2] = n /\ t[3] = i /\ Gains(View(k), View(h), t)
  BY <1>1 DEF Added
<1>3. Named(View(h)) = Named(View(k)) \cup {t}
  BY <1>2, GainNamed
<1>4. t \notin Named(View(k))
  <2>1. ASSUME t \in Named(View(k))
        PROVE  FALSE
    <3>1. PICK x \in LinksOf(k) : View(k)[x] = t
      BY <2>1, LinksFinite DEF Named
    <3> QED
      BY <1>2, <3>1 DEF Nameless
  <2> QED
    BY <2>1
<1> QED
  BY <1>1, <1>2, <1>3, <1>4 DEF Proper

LEMMA CreateDone ==
    ASSUME NEW m, Ready(m), NEW d \in Dirs(m), m.ref[d] > 0, NEW n \in Name, m.freeIno # {},
           NEW i, i = Lowest(m.freeIno), NEW k, k = NewFile(m, i), CanAdd(k, d, n),
           NEW h, h = add_entry(k, d, n, i), NEW oom, NEW w, w = Returned(h, i, oom),
           NEW l, l.op = "create", l.dir = d, l.name = n, Outcome(l, i)
    PROVE  Done(m, w, l)
<1>1. /\ k \in Volume /\ Good(k, Debt(i, 1)) /\ View(k) = View(m)
      /\ i \in Ino /\ Given(k) = Given(m) \cup {i} /\ Dirs(k) = Dirs(m) /\ Nameless(k, i) /\ k.ref = m.ref
  BY NewFileGood
<1>2. Debt(i, 1) \in [Ino -> Int] /\ NoDebt = [Debt(i, 1) EXCEPT ![i] = Debt(i, 1)[i] - 1]
  BY <1>1, DebtIs
<1>3. d \in Dirs(k) /\ k.ref[d] > 0 /\ i \in Given(k) /\ n \in Name /\ CanAdd(k, d, n) /\ h = add_entry(k, d, n, i)
  BY <1>1
<1>4. Added(k, h, NoDebt, <<d, n, i>>)
  BY ONLY <1>1, <1>2, <1>3, AddGood
<1>5. Ready(h) /\ i \in Given(h)
  BY <1>1, <1>4 DEF Added, Ready
<1>6. w \in Volume /\ Good(w, NoDebt) /\ View(w) = View(h)
  BY <1>5, ReturnedGood
<1>7. /\ Proper(Named(View(h))) = Proper(Named(View(k))) \cup {<<d, n, i>>}
      /\ <<d, n, i>> \notin Proper(Named(View(k)))
  BY ONLY <1>1, <1>3, <1>4, EntryNames
<1>8. /\ Proper(Named(View(w))) = Proper(Named(View(m))) \cup {<<d, n, i>>}
      /\ <<d, n, i>> \notin Proper(Named(View(m)))
  BY <1>1, <1>6, <1>7
<1>9. l.op \in {"create", "mkdir"} /\ l.dir = d /\ l.name = n /\ Outcome(l, i) /\ n \in Name
  OBVIOUS
<1> QED
  BY ONLY <1>1, <1>6, <1>8, <1>9, Naming

\* The number is given back, and what was written to the inode table stays there.
Numbered(m, i, x) == [AllocIno(m) EXCEPT !.raw[i] = x]

LEMMA NumberBack ==
    ASSUME NEW m, Ready(m), m.freeIno # {}, NEW i, i = Lowest(m.freeIno), NEW x, x \in InodeType,
           NEW w, w = Undo(Numbered(m, i, x), i), NEW l, l.result = 0, l.oom = FALSE
    PROVE  Done(m, w, l)
<1>0. m \in Volume /\ Good(m, NoDebt)
  BY DEF Ready
<1>1. i \in Ino /\ i \in m.freeIno /\ i \notin Given(m)
  BY <1>0, NewInodeIs
<1>2. PICK r : r = [m.raw EXCEPT ![i] = x]
  OBVIOUS
<1>3. PICK k : k = Numbered(m, i, x)
  OBVIOUS
<1>4. r \in [Ino -> InodeType] /\ \A j \in Ino : j # i => r[j] = m.raw[j]
  BY <1>0, <1>1, <1>2, VolumeIs
<1>5. w = [m EXCEPT !.raw = r]
  <2>1. PICK v : v = AllocIno(m)
    OBVIOUS
  <2>2. v = [m EXCEPT !.freeIno = m.freeIno \ {i}] /\ v.raw = m.raw
    BY <1>0, <2>1 DEF AllocIno, Volume
  <2>3. k = [v EXCEPT !.raw = r]
    BY <1>2, <1>3, <2>1, <2>2 DEF Numbered
  <2>4. k = [m EXCEPT !.freeIno = m.freeIno \ {i}, !.raw = r] /\ k.freeIno = m.freeIno \ {i}
    BY <1>0, <2>2, <2>3 DEF Volume
  <2>5. (m.freeIno \ {i}) \cup {i} = m.freeIno
    BY <1>1
  <2>6. w = [k EXCEPT !.freeIno = m.freeIno]
    BY <1>3, <2>4, <2>5 DEF Undo, FreeIno
  <2> QED
    BY <1>0, <2>4, <2>6 DEF Volume
<1>6. w \in Volume /\ w.freeIno = m.freeIno /\ w.freeBlk = m.freeBlk /\ w.entries = m.entries /\ w.raw = r
      /\ w.mem = m.mem /\ w.ref = m.ref
  BY <1>0, <1>4, <1>5 DEF Volume
<1>7. Fresh(m, w, {})
  <2>1. \A j \in Given(m) : w.raw[j] = m.raw[j]
    BY <1>1, <1>4, <1>6 DEF Given
  <2> QED
    BY <1>6, <2>1 DEF Fresh
<1>8. Good(w, NoDebt) /\ View(w) = View(m)
  BY <1>6, <1>7, ScratchGood
<1>9. l.result \in Ino \cup {0} /\ l.oom \in BOOLEAN /\ (l.op \in {"create", "mkdir", "unlink"} => l.result = 0 /\ l.oom = FALSE)
  OBVIOUS
<1> QED
  BY ONLY <1>6, <1>8, <1>9, Quiet

LEMMA CreateUndone ==
    ASSUME NEW m, Ready(m), m.freeIno # {}, NEW i, i = Lowest(m.freeIno), NEW k, k = NewFile(m, i),
           NEW w, w = Undo(k, i), NEW l, l.result = 0, l.oom = FALSE
    PROVE  Done(m, w, l)
<1>1. PICK x : x = Inode("file", 1, <<>>)
  OBVIOUS
<1>2. x \in InodeType
  BY <1>1 DEF Inode, InodeType
<1>3. w = Undo(Numbered(m, i, x), i)
  BY <1>1 DEF Numbered, NewFile
<1> QED
  BY <1>2, <1>3, NumberBack

\* ext2_mkdir, up to the entry.
NewDir(m, i, b, d) ==
    [AllocBlk(Numbered(m, i, Inode("dir", 2, <<>>))) EXCEPT !.raw[i] = Inode("dir", 2, <<b>>), !.entries[b] = Dots(i, d)]

LEMMA NewDirIs ==
    ASSUME NEW m, Ready(m), m.freeIno # {}, NEW i, i = Lowest(m.freeIno), m.freeBlk # {}, NEW b, b = Lowest(m.freeBlk),
           NEW d \in Dirs(m), NEW k, k = NewDir(m, i, b, d)
    PROVE  /\ i \in m.freeIno /\ b \in m.freeBlk /\ i \in Ino /\ b \in Blk
           /\ k \in Volume /\ Made(m, k, i, b, d)
           /\ \A j \in Ino : j # i => k.raw[j] = m.raw[j]
           /\ \A a \in Blk : a # b => k.entries[a] = m.entries[a]
<1>0. m \in Volume /\ Good(m, NoDebt)
  BY DEF Ready
<1>1. i \in Ino /\ i \in m.freeIno /\ i \notin Given(m)
  BY <1>0, NewInodeIs
<1>2. b \in Blk /\ b \in m.freeBlk
  BY <1>0, LowestIn, VolumeIs, SomeNumbers
<1>3. d \in Ino
  BY DEF Dirs, Given
<1>4. PICK F, G, r, e : /\ F = m.freeIno \ {i} /\ G = m.freeBlk \ {b}
                        /\ r = [m.raw EXCEPT ![i] = Inode("dir", 2, <<b>>)]
                        /\ e = [m.entries EXCEPT ![b] = Dots(i, d)]
  OBVIOUS
<1>5. Inode("dir", 2, <<b>>) \in InodeType
  BY <1>2 DEF Inode, InodeType
<1>6. Dots(i, d) \in Chain
  BY <1>1, <1>3, DotsTiled
<1>7. /\ F \subseteq Ino /\ G \subseteq Blk /\ r \in [Ino -> InodeType] /\ e \in [Blk -> Chain]
      /\ r[i] = Inode("dir", 2, <<b>>) /\ e[b] = Dots(i, d)
      /\ \A j \in Ino : j # i => r[j] = m.raw[j]
      /\ \A a \in Blk : a # b => e[a] = m.entries[a]
  BY <1>0, <1>1, <1>2, <1>4, <1>5, <1>6, VolumeIs
<1>8. k = [m EXCEPT !.freeIno = F, !.freeBlk = G, !.raw = r, !.entries = e]
  <2>1. PICK x, z : x = Inode("dir", 2, <<>>) /\ z = [m.raw EXCEPT ![i] = x]
    OBVIOUS
  <2>2. PICK y, u : y = AllocIno(m) /\ u = Numbered(m, i, x)
    OBVIOUS
  <2>3. y = [m EXCEPT !.freeIno = F] /\ y.raw = m.raw
    BY <1>0, <1>4, <2>2 DEF AllocIno, Volume
  <2>4. u = [y EXCEPT !.raw = z]
    BY <2>1, <2>2, <2>3 DEF Numbered
  <2>5. u = [m EXCEPT !.freeIno = F, !.raw = z] /\ u.freeBlk = m.freeBlk
    BY <1>0, <2>3, <2>4 DEF Volume
  <2>6. PICK v : v = AllocBlk(u)
    OBVIOUS
  <2>7. v = [u EXCEPT !.freeBlk = G]
    BY <1>4, <2>5, <2>6 DEF AllocBlk
  <2>8. v = [m EXCEPT !.freeIno = F, !.freeBlk = G, !.raw = z] /\ v.raw = z /\ v.entries = m.entries
    BY <1>0, <2>5, <2>7 DEF Volume
  <2>9. [z EXCEPT ![i] = Inode("dir", 2, <<b>>)] = r
    <3>1. m.raw \in [Ino -> InodeType]
      BY <1>0, VolumeIs
    <3> QED
      BY <1>1, <1>4, <2>1, <3>1
  <2>10. k = [v EXCEPT !.raw = r, !.entries = e]
    <3>1. k = [v EXCEPT !.raw[i] = Inode("dir", 2, <<b>>), !.entries[b] = Dots(i, d)]
      BY ONLY <2>1, <2>2, <2>6, k = NewDir(m, i, b, d) DEF NewDir
    <3>2. PICK c, g : c = Inode("dir", 2, <<b>>) /\ g = Dots(i, d)
      OBVIOUS
    <3>3. k = [v EXCEPT !.raw = [z EXCEPT ![i] = c], !.entries = [m.entries EXCEPT ![b] = g]]
      BY <2>8, <3>1, <3>2
    <3> QED
      BY <1>4, <2>9, <3>2, <3>3
  <2> QED
    BY <1>0, <2>8, <2>10 DEF Volume
<1>9. k \in Volume /\ k.freeIno = F /\ k.freeBlk = G /\ k.entries = e /\ k.raw = r /\ k.mem = m.mem
      /\ k.ref = m.ref
  BY <1>0, <1>7, <1>8 DEF Volume
<1>10. Made(m, k, i, b, d)
  <2>1. \A j \in Given(m) : k.raw[j] = m.raw[j]
    BY <1>1, <1>7, <1>9 DEF Given
  <2>2. \A a \in Blk \ m.freeBlk : k.entries[a] = m.entries[a]
    BY <1>2, <1>7, <1>9
  <2> QED
    BY <1>4, <1>7, <1>9, <2>1, <2>2 DEF Made
<1> QED
  BY <1>1, <1>2, <1>7, <1>9, <1>10

LEMMA MkdirDone ==
    ASSUME NEW m, Ready(m), NEW d \in Dirs(m), m.ref[d] > 0, NEW n \in Name, m.freeIno # {},
           NEW i, i = Lowest(m.freeIno), m.freeBlk # {}, NEW b, b = Lowest(m.freeBlk),
           NEW k, k = NewDir(m, i, b, d), CanAdd(k, d, n), NEW h, h = add_entry(k, d, n, i),
           NEW v, v = Linked(h, d), NEW oom, NEW w, w = Returned(v, i, oom),
           NEW l, l.op = "mkdir", l.dir = d, l.name = n, Outcome(l, i)
    PROVE  Done(m, w, l)
<1>0. m \in Volume /\ Good(m, NoDebt) /\ NoDebt \in [Ino -> Int]
  BY DEF Ready, NoDebt
<1>1. /\ i \in m.freeIno /\ b \in m.freeBlk /\ i \in Ino /\ b \in Blk
      /\ k \in Volume /\ Made(m, k, i, b, d)
  BY NewDirIs
<1>2. d \in Ino /\ i # d
  BY <1>0, <1>1, MadeShape
<1>3. PICK p : p = [NoDebt EXCEPT ![i] = 1, ![d] = NoDebt[d] - 1]
  OBVIOUS
<1>4. p \in [Ino -> Int] /\ p[i] = 1 /\ p[d] = -1 /\ \A j \in Ino : j # i /\ j # d => p[j] = 0
  BY <1>1, <1>2, <1>3 DEF NoDebt
<1>5. /\ Good(k, p) /\ Given(k) = Given(m) \cup {i} /\ Dirs(k) = Dirs(m) \cup {i} /\ Nameless(k, i)
      /\ Named(View(k)) = Named(View(m)) \cup {<<i, Dot, i>>, <<i, DotDot, d>>}
  <2>1. d \in Dirs(m)
    OBVIOUS
  <2>2. p[i] = 1 /\ p[d] = NoDebt[d] - 1 /\ \A j \in Ino : j # i /\ j # d => p[j] = NoDebt[j]
    BY <1>1, <1>2, <1>4 DEF NoDebt
  <2>3. Good(k, p) /\ Dotted(m, k, i, d)
    BY ONLY <1>0, <1>1, <2>1, <2>2, MadeGood
  <2> QED
    BY <2>3 DEF Dotted
<1>6. PICK q : q = [p EXCEPT ![i] = p[i] - 1]
  OBVIOUS
<1>7. q \in [Ino -> Int] /\ q[d] = -1 /\ \A j \in Ino : j # d => q[j] = 0
  <2>1. p[i] - 1 = 0 /\ i \in Ino
    BY <1>1, <1>4
  <2>2. q = [p EXCEPT ![i] = 0]
    BY <1>6, <2>1
  <2>3. q \in [Ino -> Int] /\ q[i] = 0 /\ \A j \in Ino : j # i => q[j] = p[j]
    BY <1>4, <2>1, <2>2
  <2> QED
    BY <1>2, <1>4, <2>3
<1>8. d \in Dirs(k) /\ k.ref[d] > 0 /\ i \in Given(k) /\ n \in Name /\ CanAdd(k, d, n) /\ h = add_entry(k, d, n, i)
  BY <1>1, <1>5 DEF Made
<1>9. Added(k, h, q, <<d, n, i>>)
  BY ONLY <1>1, <1>4, <1>5, <1>6, <1>8, AddGood
<1>10. h \in Volume /\ Good(h, q) /\ h.ref = k.ref /\ Given(h) = Given(k)
  BY <1>9 DEF Added
<1>11. h.ref[d] > 0 /\ h.mem[d] = h.raw[d] /\ h.raw[d].nlinks \in Nat
  BY <1>2, <1>8, <1>10, GoodParts
<1>12. PICK c \in Nat : c = h.raw[d].nlinks
  BY <1>11
<1>13. PICK e \in Nat : e = c + 1
  OBVIOUS
<1>14. v = WriteInode([h EXCEPT !.mem[d].nlinks = e], d)
  BY <1>11, <1>12, <1>13 DEF Linked
<1>15. (\A j \in Ino : j # d => NoDebt[j] = q[j]) /\ NoDebt[d] = q[d] + (e - h.raw[d].nlinks)
  BY <1>2, <1>7, <1>12, <1>13 DEF NoDebt
<1>16. v \in Volume /\ Good(v, NoDebt) /\ View(v) = View(h) /\ Given(v) = Given(h)
  BY <1>0, <1>2, <1>7, <1>10, <1>11, <1>13, <1>14, <1>15, SetLinksGood
<1>17. Ready(v) /\ i \in Given(v)
  BY <1>8, <1>10, <1>16 DEF Ready
<1>18. w \in Volume /\ Good(w, NoDebt) /\ View(w) = View(v)
  BY <1>17, ReturnedGood
<1>19. /\ Proper(Named(View(h))) = Proper(Named(View(k))) \cup {<<d, n, i>>}
       /\ <<d, n, i>> \notin Proper(Named(View(k)))
  <2>1. Nameless(k, i) /\ n \in Name
    BY <1>5
  <2> QED
    BY ONLY <1>9, <2>1, EntryNames
<1>20. Proper(Named(View(k))) = Proper(Named(View(m)))
  <2>1. PICK s, t : s = <<i, Dot, i>> /\ t = <<i, DotDot, d>>
    OBVIOUS
  <2>2. s[2] \notin Name /\ t[2] \notin Name /\ Named(View(k)) = Named(View(m)) \cup {s, t}
    BY <1>5, <2>1, NameAssumption
  <2> QED
    BY <2>2 DEF Proper
<1>21. /\ Proper(Named(View(w))) = Proper(Named(View(m))) \cup {<<d, n, i>>}
       /\ <<d, n, i>> \notin Proper(Named(View(m)))
  BY <1>16, <1>18, <1>19, <1>20
<1>22. l.op \in {"create", "mkdir"} /\ l.dir = d /\ l.name = n /\ Outcome(l, i) /\ n \in Name
  OBVIOUS
<1> QED
  BY ONLY <1>1, <1>18, <1>21, <1>22, Naming

LEMMA MkdirUndone ==
    ASSUME NEW m, Ready(m), NEW d \in Dirs(m), m.freeIno # {},
           NEW i, i = Lowest(m.freeIno), m.freeBlk # {}, NEW b, b = Lowest(m.freeBlk),
           NEW k, k = NewDir(m, i, b, d), NEW w, w = Undo(FreeBlks(k, {b}), i), NEW l, l.result = 0, l.oom = FALSE
    PROVE  Done(m, w, l)
<1>0. m \in Volume /\ Good(m, NoDebt)
  BY DEF Ready
<1>1. /\ i \in m.freeIno /\ b \in m.freeBlk /\ i \in Ino /\ b \in Blk
      /\ k \in Volume /\ Made(m, k, i, b, d)
      /\ \A j \in Ino : j # i => k.raw[j] = m.raw[j]
      /\ \A a \in Blk : a # b => k.entries[a] = m.entries[a]
  BY NewDirIs
<1>2. w = [k EXCEPT !.freeBlk = k.freeBlk \cup {b}, !.freeIno = k.freeIno \cup {i}]
  <2>1. PICK u : u = FreeBlks(k, {b})
    OBVIOUS
  <2>2. u = [k EXCEPT !.freeBlk = k.freeBlk \cup {b}] /\ u.freeIno = k.freeIno
    BY <1>1, <2>1 DEF FreeBlks, Volume
  <2>3. w = [u EXCEPT !.freeIno = k.freeIno \cup {i}]
    BY <2>1, <2>2 DEF Undo, FreeIno
  <2> QED
    BY <1>1, <2>2, <2>3 DEF Volume
<1>3. k.freeIno = m.freeIno \ {i} /\ k.freeBlk = m.freeBlk \ {b} /\ k.mem = m.mem /\ k.ref = m.ref
  BY <1>1 DEF Made
<1>4. k.freeBlk \cup {b} = m.freeBlk /\ k.freeIno \cup {i} = m.freeIno
  BY <1>1, <1>3
<1>5. w = [k EXCEPT !.freeBlk = m.freeBlk, !.freeIno = m.freeIno]
  BY <1>2, <1>4
<1>6. w \in Volume /\ w.freeIno = m.freeIno /\ w.freeBlk = m.freeBlk /\ w.entries = k.entries /\ w.raw = k.raw
      /\ w.mem = k.mem /\ w.ref = k.ref
  <2>1. m.freeIno \subseteq Ino /\ m.freeBlk \subseteq Blk
    BY <1>0, VolumeIs
  <2> QED
    BY <1>1, <1>5, <2>1 DEF Volume
<1>7. Fresh(m, w, {})
  <2>1. \A j \in Given(m) : w.raw[j] = m.raw[j]
    BY <1>1, <1>6 DEF Given
  <2>2. \A a \in Blk \ m.freeBlk : w.entries[a] = m.entries[a]
    BY <1>1, <1>6
  <2> QED
    BY <1>3, <1>6, <2>1, <2>2 DEF Fresh
<1>8. Good(w, NoDebt) /\ View(w) = View(m)
  BY <1>6, <1>7, ScratchGood
<1>9. l.result \in Ino \cup {0} /\ l.oom \in BOOLEAN /\ (l.op \in {"create", "mkdir", "unlink"} => l.result = 0 /\ l.oom = FALSE)
  OBVIOUS
<1> QED
  BY ONLY <1>6, <1>8, <1>9, Quiet



LEMMA UnlinkDone ==
    ASSUME NEW m, Ready(m), NEW d \in Dirs(m), m.ref[d] > 0, NEW n \in Name, Found(m, d, n) # {},
           NEW p, p = FirstOf(Found(m, d, n)), NEW i, i = At(m, d, p).ino, NEW k, k = Removed(m, d, p),
           NEW w, w = k \/ w = Unlinked(k, i),
           NEW l, l.op = "unlink", l.dir = d, l.name = n, l.result = i, l.oom \in BOOLEAN
    PROVE  Done(m, w, l)
<1>0. m \in Volume /\ Good(m, NoDebt)
  BY DEF Ready
<1>1. p \in Found(m, d, n)
  <2>1. Found(m, d, n) \in SUBSET Places(m, d)
    BY DEF Found
  <2> QED
    BY <2>1, PlacesPair
<1>2. i \in Given(m) /\ i \in Ino
  <2>1. NoDebt \in [Ino -> Int]
    BY DEF NoDebt
  <2>2. PICK u : u = [NoDebt EXCEPT ![i] = NoDebt[i] + 1]
    OBVIOUS
  <2>3. i \in Given(m) /\ Withdrawn(m, k, u, <<d, n, i>>)
    <3>1. d \in Dirs(m) /\ m.ref[d] > 0 /\ n \in Name /\ i = At(m, d, p).ino /\ k = Removed(m, d, p)
      OBVIOUS
    <3> QED
      BY ONLY <1>0, <1>1, <2>1, <2>2, <3>1, RemovedGood
  <2> QED
    BY <2>3 DEF Given
<1>3. NoDebt \in [Ino -> Int] /\ Debt(i, 1) = [NoDebt EXCEPT ![i] = NoDebt[i] + 1]
  BY <1>2, DebtIs
<1>4. Withdrawn(m, k, Debt(i, 1), <<d, n, i>>)
  BY <1>0, <1>1, <1>3, RemovedGood
<1>5. PICK t : t = <<d, n, i>>
  OBVIOUS
<1>6. k \in Volume /\ Good(k, Debt(i, 1)) /\ Gains(View(k), View(m), t) /\ i \in Given(k)
  BY <1>2, <1>4, <1>5 DEF Withdrawn
<1>7. w \in Volume /\ Good(w, NoDebt) /\ View(w) = View(k)
  <2>1. CASE w = k
    BY <1>6, <2>1, LeakGood
  <2>2. CASE w = Unlinked(k, i)
    BY <1>6, <2>2, UnlinkedGood
  <2> QED
    BY <2>1, <2>2
<1>8. Named(View(m)) = Named(View(w)) \cup {t}
  BY <1>6, <1>7, GainNamed
<1>9. t[2] = n /\ t \notin Named(View(w))
  <2>1. t[2] = n /\ OneName(View(m))
    BY <1>0, <1>5 DEF Good
  <2> QED
    BY <1>6, <1>7, <2>1, LoseOneName
<1>10. PICK S, T : S = Proper(Named(View(m))) /\ T = Proper(Named(View(w)))
  OBVIOUS
<1>11. T \ S = {} /\ S \ T = {t}
  BY <1>8, <1>9, <1>10 DEF Proper
<1>12. i # Null
  BY <1>2, SomeNumbers DEF Null
<1>13. NameStep(S, T, l)
  BY <1>5, <1>11, <1>12 DEF NameStep
<1> QED
  BY <1>2, <1>7, <1>10, <1>13 DEF Done

-----------------------------------------------------------------------------
(***************************************************************************)
(* Path resolution.                                                        *)
(***************************************************************************)
LEMMA NumberGiven ==
    ASSUME NEW k, Ready(k), \A j \in Ino : k.mem[j] = k.raw[j], NEW j \in Given(k), NEW n
    PROVE  Number(k, j, n) \in Given(k) \cup {0}
<1>0. k \in Volume /\ Good(k, NoDebt) /\ j \in Ino
  BY DEF Ready, Given
<1>1. CASE k.mem[j].type # "dir" \/ Found(k, j, n) = {}
  BY <1>1 DEF Number
<1>2. CASE ~ (k.mem[j].type # "dir" \/ Found(k, j, n) = {})
  <2>1. j \in Dirs(k) /\ k.mem[j] = k.raw[j]
    BY <1>0, <1>2 DEF Dirs
  <2>2. PICK p : p = FirstOf(Found(k, j, n))
    OBVIOUS
  <2>3. p \in Found(k, j, n)
    <3>1. Found(k, j, n) \in SUBSET Places(k, j)
      BY DEF Found
    <3> QED
      BY <1>2, <2>2, <3>1, PlacesPair
  <2>4. PICK b : b = k.mem[j].blocks[p[1]]
    OBVIOUS
  <2>5. PICK c : c = k.entries[b]
    OBVIOUS
  <2>6. FoundAt(k, j, n, p, b, c)
    BY ONLY <1>0, <2>1, <2>3, <2>4, <2>5, FoundIs
  <2>7. At(k, j, p).ino \in Given(k)
    BY <2>6 DEF FoundAt
  <2>8. Number(k, j, n) = At(k, j, p).ino
    BY <1>2, <2>2 DEF Number
  <2> QED
    BY <2>7, <2>8
<1> QED
  BY <1>1, <1>2

\* g is the way along path in k, as far as n.
Walk(g, k, path, n) ==
    g = [h \in 0 .. n |-> IF h = 0 THEN Root ELSE IF g[h - 1] = 0 THEN 0 ELSE Number(k, g[h - 1], path[h])]

LEMMA WalkOn ==
    ASSUME NEW k, NEW path, NEW n \in Nat \ {0}, NEW g, Walk(g, k, path, n - 1)
    PROVE  \E f : Walk(f, k, path, n)
<1>1. PICK e : e = IF g[n - 1] = 0 THEN 0 ELSE Number(k, g[n - 1], path[n])
  OBVIOUS
<1>2. PICK f : f = [h \in 0 .. n |-> IF h = n THEN e ELSE g[h]]
  OBVIOUS
<1>3. \A h \in 0 .. (n - 1) : g[h] = IF h = 0 THEN Root ELSE IF g[h - 1] = 0 THEN 0 ELSE Number(k, g[h - 1], path[h])
  BY DEF Walk
<1>4. \A h \in 0 .. (n - 1) : h \in 0 .. n /\ h # n /\ f[h] = g[h]
  BY <1>2
<1>5. \A h \in 0 .. n : f[h] = IF h = 0 THEN Root ELSE IF f[h - 1] = 0 THEN 0 ELSE Number(k, f[h - 1], path[h])
  <2>1. SUFFICES ASSUME NEW h \in 0 .. n
                 PROVE  f[h] = IF h = 0 THEN Root ELSE IF f[h - 1] = 0 THEN 0 ELSE Number(k, f[h - 1], path[h])
    OBVIOUS
  <2>2. CASE h = n
    <3>1. n - 1 \in 0 .. (n - 1) /\ n # 0 /\ n \in 0 .. n
      OBVIOUS
    <3>2. f[h] = e /\ f[h - 1] = g[n - 1]
      BY <1>2, <1>4, <2>2, <3>1
    <3> QED
      BY <1>1, <2>2, <3>1, <3>2
  <2>3. CASE h # n
    <3>1. h \in 0 .. (n - 1) /\ (h # 0 => h - 1 \in 0 .. (n - 1))
      BY <2>3
    <3> QED
      BY <1>3, <1>4, <3>1
  <2> QED
    BY <2>2, <2>3
<1>6. f = [h \in 0 .. n |-> IF h = 0 THEN Root ELSE IF f[h - 1] = 0 THEN 0 ELSE Number(k, f[h - 1], path[h])]
  BY <1>2, <1>5
<1> QED
  BY <1>6 DEF Walk

\* Every inode on the way is in use.
LEMMA WalkGiven ==
    ASSUME NEW k, Ready(k), \A j \in Ino : k.mem[j] = k.raw[j], NEW path, NEW n \in Nat,
           NEW g, Walk(g, k, path, n)
    PROVE  \A h \in 0 .. n : g[h] \in Given(k) \cup {0}
<1>1. Root \in Given(k)
  BY GoodParts DEF Ready
<1>2. \A h \in 0 .. n : g[h] = IF h = 0 THEN Root ELSE IF g[h - 1] = 0 THEN 0 ELSE Number(k, g[h - 1], path[h])
  BY DEF Walk
<1> DEFINE S == {h \in 0 .. n : g[h] \in Given(k) \cup {0}}
<1>3. 0 \in S
  BY <1>1, <1>2
<1>4. \A h \in 1 .. n : h - 1 \in S => h \in S
  <2>1. SUFFICES ASSUME NEW h \in 1 .. n, h - 1 \in S
                 PROVE  h \in S
    OBVIOUS
  <2>2. h \in 0 .. n /\ h # 0
    OBVIOUS
  <2>3. CASE g[h - 1] = 0
    BY <1>2, <2>2, <2>3
  <2>4. CASE g[h - 1] # 0
    <3>1. g[h - 1] \in Given(k)
      BY <2>1, <2>4
    <3>2. Number(k, g[h - 1], path[h]) \in Given(k) \cup {0}
      BY <3>1, NumberGiven
    <3> QED
      BY <1>2, <2>2, <2>4, <3>2
  <2> QED
    BY <2>3, <2>4
<1>5. \A h \in 0 .. n : h \in S
  <2> HIDE DEF S
  <2>1. n \in Nat
    OBVIOUS
  <2> QED
    BY ONLY <2>1, <1>3, <1>4, Climb
<1> QED
  BY <1>5

LEMMA InodesReady ==
    ASSUME NEW m, Ready(m), NEW k,
           k = [m EXCEPT !.mem = [i \in Ino |-> IF m.ref[i] > 0 THEN m.mem[i] ELSE m.raw[i]]]
    PROVE  Ready(k) /\ (\A j \in Ino : k.mem[j] = k.raw[j]) /\ Given(k) = Given(m)
<1>0. m \in Volume /\ Good(m, NoDebt)
  BY DEF Ready
<1>1. [i \in Ino |-> IF m.ref[i] > 0 THEN m.mem[i] ELSE m.raw[i]] = m.raw
  BY <1>0, VolumeIs DEF Good, Cached
<1>2. k = [m EXCEPT !.mem = m.raw]
  BY <1>1
<1>3. m.raw \in [Ino -> InodeType]
  BY <1>0, VolumeIs
<1>4. k \in Volume /\ k.freeIno = m.freeIno /\ k.freeBlk = m.freeBlk /\ k.entries = m.entries /\ k.raw = m.raw
      /\ k.mem = m.raw /\ k.ref = m.ref
  BY <1>0, <1>2, <1>3 DEF Volume
<1>5. Mild(m, k, NoDebt)
  <2>1. /\ \A j \in m.freeIno : m.ref[j] = 0
        /\ m.ref[Root] > 0
        /\ \A j \in Given(m) : m.raw[j].nlinks >= Count(View(m), j) + NoDebt[j]
        /\ \A j \in Given(m) : m.ref[j] = 0 => m.raw[j].nlinks > 0
    BY <1>0, GoodParts
  <2>2. Cached(k)
    BY <1>4 DEF Cached
  <2> QED
    BY <1>4, <2>1, <2>2 DEF Mild
<1>6. Good(k, NoDebt) /\ Given(k) = Given(m)
  BY <1>0, <1>4, <1>5, Harmless
<1> QED
  BY <1>4, <1>6 DEF Ready

LEMMA ReachedGiven ==
    ASSUME VolumeInv, NEW path, Len(path) \in Nat, NEW h \in 0 .. Len(path)
    PROVE  Reached(path)[h] \in Given(FS) \cup {0}
<1>1. PICK m : m = FS
  OBVIOUS
<1>2. PICK k : k = Inodes
  OBVIOUS
<1>3. Ready(m)
  BY <1>1 DEF VolumeInv, Ready
<1>4. k = [m EXCEPT !.mem = [i \in Ino |-> IF m.ref[i] > 0 THEN m.mem[i] ELSE m.raw[i]]]
  BY <1>1, <1>2 DEF Inodes, FS
<1>5. Ready(k) /\ (\A j \in Ino : k.mem[j] = k.raw[j]) /\ Given(k) = Given(m)
  BY <1>3, <1>4, InodesReady
<1>6. PICK n : n = Len(path)
  OBVIOUS
<1>7. n \in Nat /\ h \in 0 .. n
  BY <1>6
<1> DEFINE S == {i \in 0 .. n : \E f : Walk(f, k, path, i)}
<1>8. 0 \in S
  <2>1. PICK f : f = [i \in 0 .. 0 |-> Root]
    OBVIOUS
  <2>2. f = [i \in 0 .. 0 |-> IF i = 0 THEN Root ELSE IF f[i - 1] = 0 THEN 0 ELSE Number(k, f[i - 1], path[i])]
    BY <2>1
  <2>3. Walk(f, k, path, 0)
    BY <2>2 DEF Walk
  <2>4. 0 \in 0 .. n
    BY <1>7
  <2> QED
    BY <2>3, <2>4
<1>9. \A i \in 1 .. n : i - 1 \in S => i \in S
  <2>1. SUFFICES ASSUME NEW i \in 1 .. n, i - 1 \in S
                 PROVE  i \in S
    OBVIOUS
  <2>2. PICK f : Walk(f, k, path, i - 1)
    BY <2>1
  <2>3. i \in Nat \ {0} /\ i \in 0 .. n
    BY <1>7
  <2>4. \E e : Walk(e, k, path, i)
    BY ONLY <2>2, <2>3, WalkOn
  <2> QED
    BY <2>3, <2>4
<1>10. \A i \in 0 .. n : i \in S
  <2> HIDE DEF S
  <2> QED
    BY ONLY <1>7, <1>8, <1>9, Climb
<1>11. \E f : Walk(f, k, path, n)
  BY <1>7, <1>10
<1>12. PICK g : g = Reached(path)
  OBVIOUS
<1>13. Walk(g, k, path, n)
  BY <1>2, <1>6, <1>11, <1>12 DEF Reached, Walk
<1>14. \A i \in 0 .. n : g[i] \in Given(k) \cup {0}
  BY <1>5, <1>7, <1>13, WalkGiven
<1> QED
  BY <1>1, <1>5, <1>7, <1>12, <1>14

-----------------------------------------------------------------------------
(***************************************************************************)
(* The calls.                                                              *)
(***************************************************************************)
LEMMA BecomesIs ==
    ASSUME NEW w, w \in Volume, Becomes(w)
    PROVE  FS' = w
<1>1. FS' = [freeIno |-> w.freeIno, freeBlk |-> w.freeBlk, entries |-> w.entries, raw |-> w.raw, mem |-> w.mem,
             ref |-> w.ref]
  BY DEF FS, Becomes
<1> QED
  BY <1>1 DEF Volume

\* A step that leads to w is a good one, if w is.
LEMMA DoneStep ==
    ASSUME NEW m, m = FS, NEW w, Becomes(w), Done(m, w, last')
    PROVE  Done(FS, FS', last')
<1>1. w \in Volume
  BY DEF Done
<1>2. FS' = w
  BY <1>1, BecomesIs
<1> QED
  BY <1>2

LEMMA FSIs ==
    ASSUME VolumeInv, NEW m, m = FS
    PROVE  /\ Ready(m) /\ m.freeIno = freeIno /\ m.freeBlk = freeBlk /\ m.ref = ref /\ m.mem = mem
           /\ m.raw = raw /\ m.entries = entries
<1>1. Ready(m)
  BY DEF VolumeInv, Ready
<1> QED
  BY <1>1 DEF FS

\* Calls are made on directories in use.
LEMMA OpenIs ==
    ASSUME VolumeInv, NEW m, m = FS, NEW d \in Ino, Open(d)
    PROVE  d \in Dirs(m) /\ m.ref[d] > 0
<1>1. Ready(m) /\ m.ref = ref /\ m.mem = mem
  BY FSIs
<1>2. m \in Volume /\ Good(m, NoDebt)
  BY <1>1 DEF Ready
<1>3. m.ref[d] > 0 /\ m.mem[d].type = "dir"
  BY <1>1 DEF Open
<1>4. m.mem[d] = m.raw[d] /\ d \in Given(m)
  BY <1>2, <1>3, GoodParts
<1> QED
  BY <1>3, <1>4 DEF Dirs

\* A call that fails leaves everything as it was.
LEMMA FailsDone ==
    ASSUME NEW m, Ready(m), NEW l, l.result = 0, l.oom = FALSE
    PROVE  Done(m, m, l)
<1>1. m \in Volume /\ Good(m, NoDebt) /\ View(m) = View(m)
  BY DEF Ready
<1>2. l.result \in Ino \cup {0} /\ l.oom \in BOOLEAN /\ (l.op \in {"create", "mkdir", "unlink"} => l.result = 0 /\ l.oom = FALSE)
  OBVIOUS
<1> QED
  BY ONLY <1>1, <1>2, Quiet

LEMMA FailsIs ==
    ASSUME NEW w, NEW op, NEW d, NEW n, Fails(w, op, d, n)
    PROVE  Becomes(w) /\ last'.result = 0 /\ last'.oom = FALSE /\ last'.op = op
BY DEF Fails, Call, Null

LEMMA ReturnsIs ==
    ASSUME NEW h, NEW op, NEW d, NEW n, NEW i, NEW oom, Returns(h, op, d, n, i, oom)
    PROVE  /\ Becomes(Returned(h, i, oom))
           /\ last'.op = op /\ last'.dir = d /\ last'.name = n /\ Outcome(last', i)
<1>1. PICK l : l = last'
  OBVIOUS
<1>2. CASE NoMemory(h, i, oom)
  <2>1. Becomes(h) /\ l = Call(op, d, n, Null, NoMemory(h, i, oom))
    BY <1>1, <1>2 DEF Returns
  <2>2. l.op = op /\ l.dir = d /\ l.name = n /\ l.result = 0 /\ l.oom = NoMemory(h, i, oom)
    BY <2>1 DEF Call, Null
  <2>3. l.oom = TRUE
    BY <1>2, <2>2
  <2> QED
    BY <1>1, <1>2, <2>1, <2>2, <2>3 DEF Returned, Outcome
<1>3. CASE ~ NoMemory(h, i, oom)
  <2>1. Becomes(iget(h, i)) /\ l = Call(op, d, n, i, NoMemory(h, i, oom))
    BY <1>1, <1>3 DEF Returns
  <2>2. l.op = op /\ l.dir = d /\ l.name = n /\ l.result = i /\ l.oom = NoMemory(h, i, oom)
    BY <2>1 DEF Call
  <2>3. l.oom = FALSE
    BY <1>3, <2>2
  <2> QED
    BY <1>1, <1>3, <2>1, <2>2, <2>3 DEF Returned, Outcome
<1> QED
  BY <1>2, <1>3

LEMMA CreateStep ==
    ASSUME VolumeInv, NEW d \in Ino, NEW n \in Name, NEW oom \in BOOLEAN, Create(d, n, oom)
    PROVE  Done(FS, FS', last')
<1>1. PICK m : m = FS
  OBVIOUS
<1>2. Ready(m) /\ m.freeIno = freeIno
  BY <1>1, FSIs
<1>3. d \in Dirs(m) /\ m.ref[d] > 0
  BY <1>1, OpenIs DEF Create
<1>4. CASE freeIno = {}
  <2>1. Fails(m, "create", d, n)
    BY <1>1, <1>4 DEF Create
  <2>2. Becomes(m) /\ last'.result = 0 /\ last'.oom = FALSE
    BY <2>1, FailsIs
  <2>3. Done(m, m, last')
    BY <1>2, <2>2, FailsDone
  <2> QED
    BY <1>1, <2>2, <2>3, DoneStep
<1>5. CASE freeIno # {}
  <2>1. PICK i : i = Lowest(m.freeIno)
    OBVIOUS
  <2>2. PICK k : k = NewFile(m, i)
    OBVIOUS
  <2>3. IF CanAdd(k, d, n) THEN Returns(add_entry(k, d, n, i), "create", d, n, i, oom) ELSE Fails(Undo(k, i), "create", d, n)
    BY <1>1, <1>2, <1>5, <2>1, <2>2 DEF Create, NewFile
  <2>4. CASE CanAdd(k, d, n)
    <3>1. PICK h : h = add_entry(k, d, n, i)
      OBVIOUS
    <3>2. PICK w : w = Returned(h, i, oom)
      OBVIOUS
    <3>3. Becomes(w) /\ last'.op = "create" /\ last'.dir = d /\ last'.name = n /\ Outcome(last', i)
      <4>1. Returns(h, "create", d, n, i, oom)
        BY <2>3, <2>4, <3>1
      <4> QED
        BY <3>2, <4>1, ReturnsIs
    <3>4. m.freeIno # {} /\ n \in Name
      BY <1>2, <1>5
    <3>5. PICK l : l = last'
      OBVIOUS
    <3>6. l.op = "create" /\ l.dir = d /\ l.name = n /\ Outcome(l, i)
      BY <3>3, <3>5
    <3>7. Done(m, w, l)
      BY ONLY <1>2, <1>3, <2>1, <2>2, <2>4, <3>1, <3>2, <3>4, <3>6, CreateDone
    <3> QED
      BY <1>1, <3>3, <3>5, <3>7, DoneStep
  <2>5. CASE ~ CanAdd(k, d, n)
    <3>1. PICK w : w = Undo(k, i)
      OBVIOUS
    <3>2. Becomes(w) /\ last'.result = 0 /\ last'.oom = FALSE
      BY <2>3, <2>5, <3>1, FailsIs
    <3>3. Done(m, w, last')
      BY <1>2, <1>5, <2>1, <2>2, <3>1, <3>2, CreateUndone
    <3> QED
      BY <1>1, <3>2, <3>3, DoneStep
  <2> QED
    BY <2>4, <2>5
<1> QED
  BY <1>4, <1>5

LEMMA MkdirStep ==
    ASSUME VolumeInv, NEW d \in Ino, NEW n \in Name, NEW oom \in BOOLEAN, Mkdir(d, n, oom)
    PROVE  Done(FS, FS', last')
<1>1. PICK m : m = FS
  OBVIOUS
<1>2. Ready(m) /\ m.freeIno = freeIno /\ m.freeBlk = freeBlk
  BY <1>1, FSIs
<1>3. d \in Dirs(m) /\ m.ref[d] > 0
  BY <1>1, OpenIs DEF Mkdir
<1>4. CASE freeIno = {}
  <2>1. Fails(m, "mkdir", d, n)
    BY <1>1, <1>4 DEF Mkdir
  <2>2. Becomes(m) /\ last'.result = 0 /\ last'.oom = FALSE
    BY <2>1, FailsIs
  <2>3. Done(m, m, last')
    BY <1>2, <2>2, FailsDone
  <2> QED
    BY <1>1, <2>2, <2>3, DoneStep
<1>5. CASE freeIno # {} /\ freeBlk = {}
  <2>1. PICK i : i = Lowest(m.freeIno)
    OBVIOUS
  <2>2. PICK x : x = Inode("dir", 2, <<>>)
    OBVIOUS
  <2>3. x \in InodeType
    BY <2>2 DEF Inode, InodeType
  <2>4. PICK w : w = Undo(Numbered(m, i, x), i)
    OBVIOUS
  <2>5. Fails(w, "mkdir", d, n)
    BY <1>1, <1>2, <1>5, <2>1, <2>2, <2>4 DEF Mkdir, Numbered
  <2>6. Becomes(w) /\ last'.result = 0 /\ last'.oom = FALSE
    BY <2>5, FailsIs
  <2>7. Done(m, w, last')
    BY <1>2, <1>5, <2>1, <2>3, <2>4, <2>6, NumberBack
  <2> QED
    BY <1>1, <2>6, <2>7, DoneStep
<1>6. CASE freeIno # {} /\ freeBlk # {}
  <2>1. PICK i : i = Lowest(m.freeIno)
    OBVIOUS
  <2>2. PICK b : b = Lowest(m.freeBlk)
    OBVIOUS
  <2>3. PICK k : k = NewDir(m, i, b, d)
    OBVIOUS
  <2>4. IF CanAdd(k, d, n) THEN Returns(Linked(add_entry(k, d, n, i), d), "mkdir", d, n, i, oom)
        ELSE Fails(Undo(FreeBlks(k, {b}), i), "mkdir", d, n)
    BY <1>1, <1>2, <1>6, <2>1, <2>2, <2>3 DEF Mkdir, NewDir, Numbered
  <2>5. m.freeIno # {} /\ m.freeBlk # {} /\ n \in Name
    BY <1>2, <1>6
  <2>6. PICK l : l = last'
    OBVIOUS
  <2>7. CASE CanAdd(k, d, n)
    <3>1. PICK h : h = add_entry(k, d, n, i)
      OBVIOUS
    <3>2. PICK v : v = Linked(h, d)
      OBVIOUS
    <3>3. PICK w : w = Returned(v, i, oom)
      OBVIOUS
    <3>4. Becomes(w) /\ l.op = "mkdir" /\ l.dir = d /\ l.name = n /\ Outcome(l, i)
      <4>1. Returns(v, "mkdir", d, n, i, oom)
        BY <2>4, <2>7, <3>1, <3>2
      <4> QED
        BY <2>6, <3>3, <4>1, ReturnsIs
    <3>5. Done(m, w, l)
      BY ONLY <1>2, <1>3, <2>1, <2>2, <2>3, <2>5, <2>7, <3>1, <3>2, <3>3, <3>4, MkdirDone
    <3> QED
      BY <1>1, <2>6, <3>4, <3>5, DoneStep
  <2>8. CASE ~ CanAdd(k, d, n)
    <3>1. PICK w : w = Undo(FreeBlks(k, {b}), i)
      OBVIOUS
    <3>2. Becomes(w) /\ l.result = 0 /\ l.oom = FALSE
      BY <2>4, <2>6, <2>8, <3>1, FailsIs
    <3>3. Done(m, w, l)
      BY ONLY <1>2, <1>3, <2>1, <2>2, <2>3, <2>5, <3>1, <3>2, MkdirUndone
    <3> QED
      BY <1>1, <2>6, <3>2, <3>3, DoneStep
  <2> QED
    BY <2>7, <2>8
<1> QED
  BY <1>4, <1>5, <1>6

LEMMA UnlinkStep ==
    ASSUME VolumeInv, NEW d \in Ino, NEW n \in Name, NEW oom \in BOOLEAN, Unlink(d, n, oom)
    PROVE  Done(FS, FS', last')
<1>1. PICK m : m = FS
  OBVIOUS
<1>2. Ready(m) /\ m.ref = ref
  BY <1>1, FSIs
<1>3. d \in Dirs(m) /\ m.ref[d] > 0
  BY <1>1, OpenIs DEF Unlink
<1>4. CASE Found(m, d, n) = {}
  <2>1. Fails(m, "unlink", d, n)
    BY <1>1, <1>4 DEF Unlink
  <2>2. Becomes(m) /\ last'.result = 0 /\ last'.oom = FALSE
    BY <2>1, FailsIs
  <2>3. Done(m, m, last')
    BY <1>2, <2>2, FailsDone
  <2> QED
    BY <1>1, <2>2, <2>3, DoneStep
<1>5. CASE Found(m, d, n) # {}
  <2>1. PICK p : p = FirstOf(Found(m, d, n))
    OBVIOUS
  <2>2. PICK i : i = At(m, d, p).ino
    OBVIOUS
  <2>3. PICK k : k = Removed(m, d, p)
    OBVIOUS
  <2>4. PICK w : w = IF NoMemory(k, i, oom) THEN k ELSE Unlinked(k, i)
    OBVIOUS
  <2>5. Becomes(w) /\ last' = Call("unlink", d, n, i, NoMemory(k, i, oom))
    BY <1>1, <1>5, <2>1, <2>2, <2>3, <2>4 DEF Unlink
  <2>6. w = k \/ w = Unlinked(k, i)
    BY <2>4
  <2>7. PICK l : l = last'
    OBVIOUS
  <2>8. l.op = "unlink" /\ l.dir = d /\ l.name = n /\ l.result = i /\ l.oom \in BOOLEAN
    <3>1. NoMemory(k, i, oom) \in BOOLEAN
      BY DEF NoMemory
    <3> QED
      BY <2>5, <2>7, <3>1 DEF Call
  <2>9. n \in Name
    OBVIOUS
  <2>10. Done(m, w, l)
    BY ONLY <1>2, <1>3, <1>5, <2>1, <2>2, <2>3, <2>6, <2>8, <2>9, UnlinkDone
  <2> QED
    BY <1>1, <2>5, <2>7, <2>10, DoneStep
<1> QED
  BY <1>4, <1>5

LEMMA ResolveStep ==
    ASSUME VolumeInv, NEW op \in {"namei", "nameiparent"}, NEW path, Len(path) \in Nat, NEW len \in 0 .. Len(path),
           NEW oom \in BOOLEAN, Resolve(op, path, len, oom)
    PROVE  Done(FS, FS', last')
<1>1. PICK m : m = FS
  OBVIOUS
<1>2. Ready(m)
  BY <1>1, FSIs
<1>3. PICK i : i = Reached(path)[len]
  OBVIOUS
<1>4. i \in Given(m) \cup {0}
  BY <1>1, <1>3, ReachedGiven
<1>5. Fails(m, op, Null, Dot) \/ (i # 0 /\ Becomes(iget(m, i)) /\ last' = Call(op, Null, Dot, i, FALSE))
  BY <1>1, <1>3 DEF Resolve
<1>6. CASE Fails(m, op, Null, Dot)
  <2>1. Becomes(m) /\ last'.result = 0 /\ last'.oom = FALSE
    BY <1>6, FailsIs
  <2>2. Done(m, m, last')
    BY <1>2, <2>1, FailsDone
  <2> QED
    BY <1>1, <2>1, <2>2, DoneStep
<1>7. CASE i # 0 /\ Becomes(iget(m, i)) /\ last' = Call(op, Null, Dot, i, FALSE)
  <2>1. i \in Given(m) /\ i \in Ino
    BY <1>4, <1>7 DEF Given
  <2>2. PICK w : w = iget(m, i)
    OBVIOUS
  <2>3. m \in Volume /\ Good(m, NoDebt)
    BY <1>2 DEF Ready
  <2>4. w \in Volume /\ Good(w, NoDebt) /\ View(w) = View(m)
    BY <2>1, <2>2, <2>3, IgetGood
  <2>5. PICK l : l = last'
    OBVIOUS
  <2>6. l.result \in Ino \cup {0} /\ l.oom \in BOOLEAN /\ (l.op \in {"create", "mkdir", "unlink"} => l.result = 0 /\ l.oom = FALSE)
    BY <1>7, <2>1, <2>5 DEF Call
  <2>7. Done(m, w, l)
    BY ONLY <2>4, <2>6, Quiet
  <2> QED
    BY <1>1, <1>7, <2>2, <2>5, <2>7, DoneStep
<1> QED
  BY <1>5, <1>6, <1>7

LEMMA IputStep ==
    ASSUME VolumeInv, NEW i \in Ino, Iput(i)
    PROVE  Done(FS, FS', last')
<1>1. PICK m : m = FS
  OBVIOUS
<1>2. Ready(m) /\ m.ref = ref
  BY <1>1, FSIs
<1>3. m \in Volume /\ Good(m, NoDebt)
  BY <1>2 DEF Ready
<1>4. m.ref[i] > 0
  <2>1. m.ref[i] \in Nat
    BY <1>3, VolumeIs
  <2> QED
    BY <1>2, <2>1 DEF Iput, Held
<1>5. PICK w : w = iput(m, i)
  OBVIOUS
<1>6. NoDebt[i] = 0 /\ i \in Ino
  BY DEF NoDebt
<1>7. w \in Volume /\ Good(w, NoDebt) /\ View(w) = View(m)
  BY ONLY <1>3, <1>4, <1>5, <1>6, IputGood
<1>8. PICK l : l = last'
  OBVIOUS
<1>9. Becomes(w) /\ l = Call("iput", Null, Dot, 0, FALSE)
  BY <1>1, <1>5, <1>8 DEF Iput, Null
<1>10. l.result \in Ino \cup {0} /\ l.oom \in BOOLEAN /\ (l.op \in {"create", "mkdir", "unlink"} => l.result = 0 /\ l.oom = FALSE)
  BY <1>9 DEF Call
<1>11. Done(m, w, l)
  BY ONLY <1>7, <1>10, Quiet
<1> QED
  BY <1>1, <1>8, <1>9, <1>11, DoneStep

LEMMA NextDone ==
    ASSUME VolumeInv, Next
    PROVE  Done(FS, FS', last')
<1>1. ASSUME NEW path \in Path, NEW oom \in BOOLEAN, Namei(path, oom)
      PROVE  Done(FS, FS', last')
  <2>1. Len(path) \in Nat
    BY PathAssumption
  <2>2. Len(path) \in 0 .. Len(path) /\ "namei" \in {"namei", "nameiparent"}
    BY <2>1
  <2>3. Resolve("namei", path, Len(path), oom)
    BY <1>1 DEF Namei
  <2> QED
    BY <2>1, <2>2, <2>3, ResolveStep
<1>2. ASSUME NEW path \in Path, NEW oom \in BOOLEAN, NameiParent(path, oom)
      PROVE  Done(FS, FS', last')
  <2>1. path \in Seq(AnyName) /\ path # <<>>
    BY <1>2, PathAssumption DEF NameiParent
  <2>2. Len(path) \in Nat /\ Len(path) # 0
    BY <2>1
  <2>3. Len(path) - 1 \in 0 .. Len(path) /\ "nameiparent" \in {"namei", "nameiparent"}
    BY <2>2
  <2>4. Resolve("nameiparent", path, Len(path) - 1, oom)
    BY <1>2 DEF NameiParent
  <2> QED
    BY <2>2, <2>3, <2>4, ResolveStep
<1> QED
  BY <1>1, <1>2, CreateStep, MkdirStep, UnlinkStep, IputStep DEF Next

-----------------------------------------------------------------------------
(***************************************************************************)
(* The volume as it is made: the root directory in block 1.                *)
(***************************************************************************)
Blank(m) ==
    /\ m.freeIno = Ino \ {Root} /\ m.freeBlk = Blk \ {1}
    /\ m.entries[1] = Dots(Root, Root)
    /\ m.raw[Root] = Inode("dir", 2, <<1>>) /\ m.mem[Root] = m.raw[Root]
    /\ \A i \in Ino : m.ref[i] = (IF i = Root THEN 1 ELSE 0)

LEMMA BlankShape ==
    ASSUME NEW m, m \in Volume, Blank(m), NEW c, c = m.entries[1]
    PROVE  /\ Given(m) = {Root} /\ Dirs(m) = {Root} /\ BlocksOf(m, Root) = {1}
           /\ Root \in Ino /\ 1 \in Blk /\ 0 \notin Ino
           /\ m.raw[Root].nlinks = 2 /\ m.raw[Root].blocks = <<1>>
           /\ Len(m.raw[Root].blocks) = 1 /\ m.raw[Root].blocks[1] = 1
           /\ c \in Chain /\ Tiled(c) /\ Len(c) = 2
           /\ c[1].ino = Root /\ c[1].name = Dot /\ c[2].ino = Root /\ c[2].name = DotDot
<1>1. Root \in Ino /\ 1 \in Blk /\ 0 \notin Ino
  BY SomeNumbers
<1>2. Given(m) = {Root}
  BY <1>1 DEF Blank, Given
<1>3. m.raw[Root].type = "dir" /\ m.raw[Root].nlinks = 2 /\ m.raw[Root].blocks = <<1>>
  BY DEF Blank, Inode
<1>4. Len(m.raw[Root].blocks) = 1 /\ m.raw[Root].blocks[1] = 1
  BY <1>3
<1>5. BlocksOf(m, Root) = {1}
  BY <1>4 DEF BlocksOf
<1>6. c = Dots(Root, Root)
  BY DEF Blank
<1>7. /\ c \in Chain /\ Tiled(c) /\ Len(c) = 2
      /\ c[1].ino = Root /\ c[1].name = Dot /\ c[2].ino = Root /\ c[2].name = DotDot
  BY <1>1, <1>6, DotsTiled
<1>8. Dirs(m) = {Root}
  BY <1>2, <1>3 DEF Dirs
<1> QED
  BY <1>1, <1>2, <1>3, <1>4, <1>5, <1>7, <1>8

LEMMA BlankPlaced ==
    ASSUME NEW m, m \in Volume, Blank(m)
    PROVE  Placed(m) /\ Arranged(m)
<1>1. PICK c : c = m.entries[1]
  OBVIOUS
<1>2. /\ Given(m) = {Root} /\ Dirs(m) = {Root} /\ BlocksOf(m, Root) = {1}
      /\ Len(m.raw[Root].blocks) = 1 /\ m.raw[Root].blocks[1] = 1
      /\ Tiled(c) /\ Len(c) = 2 /\ c[1].ino = Root /\ c[1].name = Dot
  BY <1>1, BlankShape
<1>3. Placed(m)
  <2>1. SUFFICES ASSUME NEW i \in Given(m), NEW j \in Given(m), NEW k \in 1 .. Len(m.raw[i].blocks),
                        NEW h \in 1 .. Len(m.raw[j].blocks)
                 PROVE  i = j /\ k = h
    <3>1. \A i \in Given(m) : BlocksOf(m, i) \cap m.freeBlk = {}
      BY <1>2 DEF Blank
    <3>2. \A b \in Blk \ m.freeBlk : \E i \in Given(m) : b \in BlocksOf(m, i)
      BY <1>2 DEF Blank
    <3> QED
      BY <2>1, <3>1, <3>2 DEF Placed
  <2>2. i = Root /\ j = Root
    BY <1>2
  <2>3. k \in 1 .. 1 /\ h \in 1 .. 1
    BY <1>2, <2>2
  <2> QED
    BY <2>2, <2>3
<1>4. Arranged(m)
  <2>1. \A d \in Dirs(m) : d = Root
    BY <1>2
  <2>2. \A b \in Blk : b \in BlocksOf(m, Root) => Tiled(m.entries[b])
    BY <1>1, <1>2
  <2>3. /\ Len(m.raw[Root].blocks) >= 1 /\ Len(m.entries[m.raw[Root].blocks[1]]) >= 1
        /\ m.entries[m.raw[Root].blocks[1]][1].ino = Root
        /\ m.entries[m.raw[Root].blocks[1]][1].name = Dot
    BY <1>1, <1>2
  <2>4. Given(m) \ Dirs(m) = {}
    BY <1>2
  <2> QED
    BY <2>1, <2>2, <2>3, <2>4 DEF Arranged
<1> QED
  BY <1>3, <1>4

LEMMA BlankGood ==
    ASSUME NEW m, m \in Volume, Blank(m)
    PROVE  Good(m, NoDebt)
<1>1. PICK c : c = m.entries[1]
  OBVIOUS
<1>2. /\ Given(m) = {Root} /\ Dirs(m) = {Root} /\ BlocksOf(m, Root) = {1}
      /\ Root \in Ino /\ 1 \in Blk /\ 0 \notin Ino /\ m.raw[Root].nlinks = 2
      /\ Len(c) = 2 /\ c[1].ino = Root /\ c[1].name = Dot /\ c[2].ino = Root /\ c[2].name = DotDot
  BY <1>1, BlankShape
<1>3. Placed(m) /\ Arranged(m)
  BY BlankPlaced
<1>4. PICK y, z : y = <<Root, 1, 1>> /\ z = <<Root, 1, 2>>
  OBVIOUS
<1>5. y # z
  BY <1>4
<1>6. /\ y \in LinksOf(m) /\ View(m)[y] = <<Root, Dot, Root>>
      /\ z \in LinksOf(m) /\ View(m)[z] = <<Root, DotDot, Root>>
  <2>1. Root \in Dirs(m) /\ 1 \in BlocksOf(m, Root)
    BY <1>2
  <2>2. 1 \in 1 .. Len(m.entries[1]) /\ 2 \in 1 .. Len(m.entries[1])
    BY <1>1, <1>2
  <2>3. m.entries[1][1].ino # 0 /\ m.entries[1][2].ino # 0 /\ m \in Volume
    BY <1>1, <1>2
  <2>4. <<Root, 1, 1>> \in LinksOf(m) /\ View(m)[<<Root, 1, 1>>] = <<Root, m.entries[1][1].name, m.entries[1][1].ino>>
    BY ONLY <1>3, <2>1, <2>2, <2>3, LinkIs
  <2>5. <<Root, 1, 2>> \in LinksOf(m) /\ View(m)[<<Root, 1, 2>>] = <<Root, m.entries[1][2].name, m.entries[1][2].ino>>
    BY ONLY <1>3, <2>1, <2>2, <2>3, LinkIs
  <2> QED
    BY <1>1, <1>2, <1>4, <2>4, <2>5
<1>7. ASSUME NEW x \in LinksOf(m)
      PROVE  x = y \/ x = z
  <2>1. PICK e, a, k : e = x[1] /\ a = x[2] /\ k = x[3]
    OBVIOUS
  <2>2. x = <<e, a, k>> /\ e \in Dirs(m) /\ a \in BlocksOf(m, e) /\ k \in 1 .. BS /\ k <= Len(m.entries[a])
    BY <2>1, LinkParts
  <2>3. e = Root /\ a = 1
    BY <1>2, <2>2
  <2>4. k \in Nat /\ k >= 1 /\ k <= 2
    <3>1. BS \in Nat
      BY SomeNumbers
    <3>2. Len(m.entries[a]) = 2
      BY <1>1, <1>2, <2>3
    <3> QED
      BY <2>2, <3>1, <3>2
  <2>5. k = 1 \/ k = 2
    BY <2>4
  <2> QED
    BY <1>4, <2>2, <2>3, <2>5
<1>8. DOMAIN View(m) = {y, z}
  BY <1>6, <1>7, LinksFinite
<1>9. Cached(m) /\ Unused(m)
  <2>1. \A i \in Ino : m.ref[i] > 0 => i = Root
    BY DEF Blank
  <2>2. m.ref[Root] = 1 /\ \A i \in m.freeIno : m.ref[i] = 0
    BY <1>2 DEF Blank
  <2>3. \A x \in LinksOf(m) : View(m)[x][3] \in Given(m)
    BY <1>2, <1>6, <1>7
  <2> QED
    BY <2>1, <2>2, <2>3 DEF Cached, Unused, Blank
<1>10. OneName(View(m))
  <2>1. Dot \notin Name /\ DotDot \notin Name
    BY NameAssumption
  <2>2. View(m)[y][2] \notin Name /\ View(m)[z][2] \notin Name
    BY <1>6, <2>1
  <2> QED
    BY <1>8, <2>2 DEF OneName
<1>11. Count(View(m), Root) = 2
  <2>1. {x \in DOMAIN View(m) : View(m)[x][3] = Root} = {y, z}
    BY <1>6, <1>8
  <2>2. IsFiniteSet({y}) /\ Cardinality({y}) = 1
    BY FS_Singleton
  <2>3. z \notin {y} /\ {y} \cup {z} = {y, z}
    BY <1>5
  <2>4. Cardinality({y, z}) = 1 + 1
    BY <2>2, <2>3, FS_AddElement
  <2> QED
    BY <2>1, <2>4 DEF Count
<1>12. Counted(m, NoDebt)
  <2>1. NoDebt[Root] = 0 /\ m.ref[Root] = 1
    BY <1>2 DEF Blank, NoDebt
  <2>2. \A i \in Given(m) : i = Root
    BY <1>2
  <2>3. m.raw[Root].nlinks >= Count(View(m), Root) + NoDebt[Root]
    BY <1>2, <1>11, <2>1
  <2> QED
    BY <1>2, <2>1, <2>2, <2>3 DEF Counted
<1> QED
  BY <1>3, <1>9, <1>10, <1>12 DEF Good

LEMMA InitGood ==
    ASSUME Init
    PROVE  VolumeInv
<1>1. Root \in Ino /\ 1 \in Blk
  BY SomeNumbers
<1>2. Dots(Root, Root) \in Chain /\ <<>> \in Chain
  BY <1>1, DotsTiled DEF Chain
<1>3. /\ Inode("dir", 2, <<1>>) \in InodeType /\ Inode("file", 0, <<>>) \in InodeType /\ NotCached \in InodeType
  BY <1>1 DEF Inode, InodeType, NotCached
<1>4. /\ freeIno = Ino \ {Root} /\ freeBlk = Blk \ {1} /\ ref \in [Ino -> Nat]
      /\ \A i \in Ino : ref[i] = (IF i = Root THEN 1 ELSE 0)
  BY DEF Init
<1>5. entries \in [Blk -> Chain] /\ entries[1] = Dots(Root, Root)
  BY <1>1, <1>2 DEF Init
<1>6. raw \in [Ino -> InodeType] /\ raw[Root] = Inode("dir", 2, <<1>>)
  BY <1>1, <1>3 DEF Init
<1>7. mem \in [Ino -> InodeType] /\ mem[Root] = raw[Root]
  BY <1>1, <1>3, <1>6 DEF Init
<1>8. PICK m : m = FS
  OBVIOUS
<1>9. m \in Volume /\ m.freeIno = freeIno /\ m.freeBlk = freeBlk /\ m.ref = ref /\ m.mem = mem
      /\ m.raw = raw /\ m.entries = entries
  BY <1>4, <1>5, <1>6, <1>7, <1>8 DEF FS, Volume
<1>10. Blank(m)
  BY <1>4, <1>5, <1>6, <1>7, <1>9 DEF Blank
<1>11. Good(m, NoDebt)
  BY <1>9, <1>10, BlankGood
<1>12. last.result \in Ino \cup {0} /\ last.oom \in BOOLEAN
  BY <1>1 DEF Init, Call
<1> QED
  BY <1>8, <1>9, <1>11, <1>12 DEF VolumeInv

LEMMA LinksAre ==
    /\ Allocated = Given(FS) /\ Directories = Dirs(FS) /\ Links = LinksOf(FS) /\ Names = Named(View(FS))
    /\ \A x \in Links : Target(x) = View(FS)[x][3]
<1>1. PICK m : m = FS
  OBVIOUS
<1>2. m.freeIno = freeIno /\ m.raw = raw /\ m.entries = entries
  BY <1>1 DEF FS
<1>3. Allocated = Given(m)
  BY <1>2 DEF Allocated, Given
<1>4. Directories = Dirs(m)
  BY <1>2, <1>3 DEF Directories, Dirs
<1>5. Links = LinksOf(m)
  BY <1>2, <1>4 DEF Links, LinksOf, BlocksOf
<1>6. DOMAIN View(m) = Links /\ \A x \in Links : View(m)[x] = <<x[1], entries[x[2]][x[3]].name, Target(x)>>
  BY <1>2, <1>5 DEF View, Target
<1>7. Names = Named(View(m))
  BY <1>6 DEF Names, Named
<1> QED
  BY <1>1, <1>3, <1>4, <1>5, <1>6, <1>7

LEMMA NamesNext ==
    Names' = Named(View(FS'))
<1>1. PICK m : m = FS'
  OBVIOUS
<1>2. m.freeIno = freeIno' /\ m.raw = raw' /\ m.entries = entries'
  BY <1>1 DEF FS
<1>3. Allocated' = Given(m)
  BY <1>2 DEF Allocated, Given
<1>4. Directories' = Dirs(m)
  BY <1>2, <1>3 DEF Directories, Dirs
<1>5. Links' = LinksOf(m)
  BY <1>2, <1>4 DEF Links, LinksOf, BlocksOf
<1>6. DOMAIN View(m) = Links' /\ \A x \in Links' : View(m)[x] = <<x[1], (entries')[x[2]][x[3]].name, (entries')[x[2]][x[3]].ino>>
  BY <1>2, <1>5 DEF View
<1>7. Names' = Named(View(m))
  BY <1>6 DEF Names, Named, Target
<1> QED
  BY <1>1, <1>7

LEMMA VolumeStep ==
    ASSUME VolumeInv, [Next]_vars
    PROVE  VolumeInv'
<1>1. CASE Next
  <2>1. PICK k, l : k = FS' /\ l = last'
    OBVIOUS
  <2>2. Done(FS, k, l)
    BY <1>1, <2>1, NextDone
  <2>3. k \in Volume /\ Good(k, NoDebt) /\ l.result \in Ino \cup {0} /\ l.oom \in BOOLEAN
    BY <2>2 DEF Done
  <2> QED
    BY <2>1, <2>3 DEF VolumeInv
<1>2. CASE UNCHANGED vars
  <2>1. FS' = FS /\ last' = last
    BY <1>2 DEF vars, FS
  <2> QED
    BY <2>1 DEF VolumeInv
<1> QED
  BY <1>1, <1>2

\* The inductive invariant of the volume: the state is well formed, and the conjuncts of
\* Good hold of it with no debt outstanding, between any two calls.
THEOREM VolumeGood == Spec => []VolumeInv
<1>1. Init => VolumeInv
  BY InitGood
<1>2. VolumeInv /\ [Next]_vars => VolumeInv'
  BY VolumeStep
<1> QED
  BY <1>1, <1>2, PTL DEF Spec

\* Directories and inodes have their types, in particular every reference count stays
\* a natural number and the root is always in use.
THEOREM DirTypeCorrect == Spec => []TypeOK
<1>1. VolumeInv => TypeOK
  <2>1. SUFFICES ASSUME VolumeInv PROVE TypeOK
    OBVIOUS
  <2>2. PICK m : m = FS
    OBVIOUS
  <2>3. Ready(m) /\ m.freeIno = freeIno /\ m.freeBlk = freeBlk /\ m.ref = ref /\ m.mem = mem
        /\ m.raw = raw /\ m.entries = entries
    BY <2>1, <2>2, FSIs
  <2>4. m \in Volume /\ m.ref[Root] > 0
    BY <2>3, GoodParts DEF Ready
  <2> QED
    BY <2>1, <2>3, <2>4, VolumeIs DEF TypeOK, VolumeInv, Chain, EntryType, Null
<1> QED
  BY <1>1, VolumeGood, PTL

\* ext2_dir_add_entry and ext2_unlink keep every directory block tiled by its entries,
\* each long enough for its name.
THEOREM DirectoriesTiled == Spec => []EntriesTile
<1>1. VolumeInv => EntriesTile
  <2>1. SUFFICES ASSUME VolumeInv, NEW x \in Links
                 PROVE  Tiled(entries[x[2]])
    BY <2>1 DEF EntriesTile, Tiled
  <2>2. PICK m : m = FS
    OBVIOUS
  <2>3. Ready(m) /\ m.entries = entries
    BY <2>1, <2>2, FSIs
  <2>4. x \in LinksOf(m)
    BY <2>1, <2>2, LinksAre
  <2>5. x[1] \in Dirs(m) /\ x[2] \in Blk /\ x[2] \in BlocksOf(m, x[1])
    BY <2>4, LinkParts
  <2> QED
    BY <2>3, <2>5 DEF Ready, Good, Arranged
<1> QED
  BY <1>1, VolumeGood, PTL

\* ext2_create, ext2_mkdir and ext2_unlink never leave an inode with fewer links than
\* entries that name it, and one without links is freed with its last reference.
THEOREM NamedIsLinked == Spec => []LinksCovered
<1>1. VolumeInv => LinksCovered
  <2>1. SUFFICES ASSUME VolumeInv, NEW i \in Allocated, NEW S, S = NamesOf(i)
                 PROVE  /\ raw[i].nlinks >= Cardinality(S)
                        /\ raw[i].nlinks = 0 => ref[i] > 0
    BY <2>1 DEF LinksCovered
  <2>2. PICK m : m = FS
    OBVIOUS
  <2>3. Ready(m) /\ m.raw = raw /\ m.ref = ref
    BY <2>1, <2>2, FSIs
  <2>4. m \in Volume /\ Good(m, NoDebt) /\ i \in Given(m) /\ i \in Ino
    BY <2>1, <2>2, <2>3, LinksAre DEF Ready, Given
  <2>5. PICK c : c = Count(View(m), i)
    OBVIOUS
  <2>6. /\ m.raw[i].nlinks >= c + NoDebt[i] /\ c \in Nat /\ m.raw[i].nlinks \in Nat /\ m.ref[i] \in Nat
        /\ m.ref[i] = 0 => m.raw[i].nlinks > 0
    BY <2>4, <2>5, GoodParts
  <2>7. c = Cardinality(S)
    <3>1. S = {x \in DOMAIN View(m) : View(m)[x][3] = i}
      BY <2>1, <2>2, LinksAre, LinksFinite DEF NamesOf
    <3> QED
      BY <2>5, <3>1 DEF Count
  <2>8. NoDebt[i] = 0
    BY <2>4 DEF NoDebt
  <2> QED
    BY <2>3, <2>6, <2>7, <2>8
<1> QED
  BY <1>1, VolumeGood, PTL

\* An inode has no more blocks than there are.
LEMMA FewBlocks ==
    ASSUME NEW m, m \in Volume, Placed(m), NEW i \in Given(m)
    PROVE  Len(m.raw[i].blocks) <= NBLK
<1>1. i \in Ino /\ NBLK \in Nat
  BY SizeAssumption DEF Given
<1>2. PICK s : s = m.raw[i].blocks
  OBVIOUS
<1>3. PICK L : L = Len(s)
  OBVIOUS
<1>4. L \in Nat /\ \A k \in 1 .. L : s[k] \in Blk
  BY <1>1, <1>2, <1>3, BlocksIs
<1>5. \A k, h \in 1 .. L : s[k] = s[h] => k = h
  BY <1>2, <1>3 DEF Placed
<1>6. PICK f : f = [k \in 1 .. L |-> s[k]]
  OBVIOUS
<1>7. f \in Injection(1 .. L, Blk)
  BY <1>4, <1>5, <1>6 DEF Injection, IsInjective
<1>8. IsFiniteSet(1 .. L) /\ Cardinality(1 .. L) = L
  BY <1>4, FS_Interval
<1>9. IsFiniteSet(Blk) /\ Cardinality(Blk) = NBLK
  BY <1>1, FS_Interval DEF Blk
<1>10. Cardinality(1 .. L) <= Cardinality(Blk)
  BY <1>7, <1>9, FS_Injection
<1> QED
  BY <1>2, <1>3, <1>8, <1>9, <1>10

\* The places of a block.
LEMMA OnePlace ==
    ASSUME NEW m, m \in Volume, Placed(m), NEW b \in Blk,
           NEW S, S = {x \in Given(m) \X (1 .. NBLK) :
                         x[2] <= Len(m.raw[x[1]].blocks) /\ m.raw[x[1]].blocks[x[2]] = b}
    PROVE  Cardinality(S) = IF b \in m.freeBlk THEN 0 ELSE 1
<1>1. NBLK \in Nat
  BY SizeAssumption
<1>2. ASSUME NEW x \in S
      PROVE  /\ x = <<x[1], x[2]>> /\ x[1] \in Given(m) /\ x[2] \in 1 .. Len(m.raw[x[1]].blocks)
             /\ m.raw[x[1]].blocks[x[2]] = b /\ b \in BlocksOf(m, x[1])
  <2>1. PICK i, k : i = x[1] /\ k = x[2]
    OBVIOUS
  <2>2. x = <<i, k>> /\ i \in Given(m) /\ k \in 1 .. NBLK /\ k <= Len(m.raw[i].blocks) /\ m.raw[i].blocks[k] = b
    BY <2>1
  <2>3. Len(m.raw[i].blocks) \in Nat
    BY <2>2, BlocksIs DEF Given
  <2>4. k \in 1 .. Len(m.raw[i].blocks)
    BY <1>1, <2>2, <2>3
  <2>5. b \in BlocksOf(m, i)
    BY <2>2, <2>4 DEF BlocksOf
  <2> QED
    BY <2>1, <2>2, <2>4, <2>5
<1>3. CASE b \in m.freeBlk
  <2>1. S = {}
    BY <1>2, <1>3 DEF Placed
  <2> QED
    BY <1>3, <2>1, FS_EmptySet
<1>4. CASE b \notin m.freeBlk
  <2>1. PICK i \in Given(m) : b \in BlocksOf(m, i)
    BY <1>4 DEF Placed
  <2>2. PICK k \in 1 .. Len(m.raw[i].blocks) : m.raw[i].blocks[k] = b
    BY <2>1 DEF BlocksOf
  <2>3. Len(m.raw[i].blocks) \in Nat /\ Len(m.raw[i].blocks) <= NBLK
    BY <2>1, FewBlocks, BlocksIs DEF Given
  <2>4. PICK y : y = <<i, k>>
    OBVIOUS
  <2>5. k \in 1 .. NBLK /\ k <= Len(m.raw[i].blocks)
    BY <1>1, <2>2, <2>3
  <2>6. y \in S
    BY <2>2, <2>4, <2>5
  <2>7. ASSUME NEW x \in S
        PROVE  x = y
    <3>1. PICK j, h : j = x[1] /\ h = x[2]
      OBVIOUS
    <3>2. x = <<j, h>> /\ j \in Given(m) /\ h \in 1 .. Len(m.raw[j].blocks) /\ m.raw[j].blocks[h] = b
      BY <1>2, <3>1
    <3>3. j = i /\ h = k
      <4>1. m.raw[j].blocks[h] = m.raw[i].blocks[k]
        BY <2>2, <3>2
      <4> QED
        BY <2>2, <3>2, <4>1 DEF Placed
    <3> QED
      BY <2>4, <3>2, <3>3
  <2>8. S = {y}
    BY <2>6, <2>7
  <2> QED
    BY <1>4, <2>8, FS_Singleton
<1> QED
  BY <1>3, <1>4

\* A free inode number is named by no entry and cached nowhere; a block is free or has
\* one place in one inode; and whatever is cached is as it is in the inode table.
THEOREM InodesStayConsistent == Spec => []InodesConsistent
<1>1. VolumeInv => InodesConsistent
  <2>1. SUFFICES ASSUME VolumeInv PROVE InodesConsistent
    OBVIOUS
  <2>2. PICK m : m = FS
    OBVIOUS
  <2>3. Ready(m) /\ m.freeIno = freeIno /\ m.freeBlk = freeBlk /\ m.raw = raw /\ m.mem = mem /\ m.ref = ref
    BY <2>1, <2>2, FSIs
  <2>4. m \in Volume /\ Good(m, NoDebt) /\ Placed(m)
    BY <2>3 DEF Ready, Good
  <2>5. Allocated = Given(m) /\ Links = LinksOf(m) /\ \A x \in Links : Target(x) = View(m)[x][3]
    BY <2>2, LinksAre
  <2>6. \A i \in Ino : ref[i] > 0 => mem[i] = raw[i]
    BY <2>3, <2>4, GoodParts
  <2>7. ASSUME NEW i \in freeIno
        PROVE  ref[i] = 0 /\ \A x \in Links : Target(x) # i
    <3>1. ref[i] = 0
      BY <2>3, <2>4, GoodParts
    <3>2. \A x \in LinksOf(m) : View(m)[x][3] \in Given(m)
      BY <2>4 DEF Good, Unused
    <3> QED
      BY <2>3, <2>5, <3>1, <3>2 DEF Given
  <2>8. ASSUME NEW b \in Blk
        PROVE  Cardinality({x \in Allocated \X (1 .. NBLK) :
                              x[2] <= Len(raw[x[1]].blocks) /\ raw[x[1]].blocks[x[2]] = b})
               = (IF b \in freeBlk THEN 0 ELSE 1)
    BY <2>3, <2>4, <2>5, OnePlace
  <2> QED
    BY <2>6, <2>7, <2>8 DEF InodesConsistent
<1> QED
  BY <1>1, VolumeGood, PTL

\* ext2_create, ext2_mkdir and ext2_unlink change the names of their directory by exactly
\* the entry they report. One that fails changes none, except that ext2_create and
\* ext2_mkdir leave the name they were called with when ext2_iget has no memory for the
\* new inode. Nothing else changes a name.
THEOREM CallsNameOnlyTheirOwn == Spec => CallsChangeOneName
<1> DEFINE new == ProperNames' \ ProperNames
           gone == ProperNames \ ProperNames'
           done == last'.result # Null
           it == <<last'.dir, last'.name, last'.result>>
           Step == CASE last'.op \in {"create", "mkdir"} /\ (done \/ last'.oom) ->
                            /\ gone = {} /\ Cardinality(new) = 1
                            /\ \A t \in new : IF done THEN t = it ELSE t[1] = it[1] /\ t[2] = it[2]
                     [] last'.op = "unlink" /\ done -> new = {} /\ gone = {it}
                     [] OTHER -> new = {} /\ gone = {}
<1>1. VolumeInv /\ [Next]_vars => [Step]_vars
  <2>1. SUFFICES ASSUME VolumeInv, Next PROVE Step
    OBVIOUS
  <2>2. PICK S, T, l : S = Proper(Named(View(FS))) /\ T = Proper(Named(View(FS'))) /\ l = last'
    OBVIOUS
  <2>3. NameStep(S, T, l)
    BY <2>1, <2>2, NextDone DEF Done
  <2>4. ProperNames = S /\ ProperNames' = T
    BY <2>2, LinksAre, NamesNext DEF Proper, ProperNames
  <2>5. new = T \ S /\ gone = S \ T /\ it = <<l.dir, l.name, l.result>>
    BY <2>2, <2>4
  <2> HIDE DEF new, gone, it
  <2> QED
    BY <2>2, <2>3, <2>5 DEF NameStep
<1>2. []VolumeInv /\ [][Next]_vars => CallsChangeOneName
  BY <1>1, PTL DEF CallsChangeOneName
<1> QED
  BY <1>2, VolumeGood, PTL DEF Spec

-----------------------------------------------------------------------------
(***************************************************************************)
(* Ext2Dir over Ext2Alloc: AllocIno, AllocBlk, FreeIno and FreeBlks of     *)
(* Ext2Dir keep a set of numbers where Ext2Alloc has bitmaps, groups and   *)
(* counts.  FreeUnits is the mapping.                                      *)
(***************************************************************************)
TakesLowest ==
    /\ FreeUnits # {} /\ FreeUnits' = FreeUnits \ {Lowest(FreeUnits)}
    /\ result' = [op |-> "alloc", unit |-> Lowest(FreeUnits)]

TakesNone == FreeUnits = {} /\ FreeUnits' = {} /\ result' = [op |-> "alloc", unit |-> NoUnit]

GivesBack(u) ==
    /\ u \notin FreeUnits /\ FreeUnits' = FreeUnits \cup {u}
    /\ result' = [op |-> "free", unit |-> u]

IgnoresNumber == FreeUnits' = FreeUnits /\ result'.op = "free"

\* A set of free numbers: a call takes the lowest or fails because there is none, or gives
\* back one that is not in the set.
NumberSet ==
    [][TakesLowest \/ TakesNone \/ (\E u \in Unit \ Reserved : GivesBack(u)) \/ IgnoresNumber]_<<FreeUnits, result>>

LEMMA LowestIs ==
    ASSUME NEW S \in SUBSET Nat, NEW n \in S, \A k \in S : n <= k
    PROVE  Lowest(S) = n
<1>1. PICK z : z = Lowest(S)
  OBVIOUS
<1>2. z \in S /\ \A k \in S : z <= k
  BY <1>1 DEF Lowest
<1>3. z <= n /\ n <= z /\ z \in Nat /\ n \in Nat
  BY <1>2
<1> QED
  BY <1>1, <1>3

\* The bitmap allocators implement the set of free numbers that ext2_create, ext2_mkdir
\* and ext2_unlink are modelled with.
THEOREM AllocatorsImplementSet == AllocSpec => NumberSet
<1> DEFINE Step == TakesLowest \/ TakesNone \/ (\E u \in Unit \ Reserved : GivesBack(u)) \/ IgnoresNumber
<1>1. FreeUnits \in SUBSET Nat
  BY FirstAssumption, NGroupAssumption DEF FreeUnits, Unit
<1>2. ASSUME AllocIInv, NEW g \in Group, NEW k \in Bit, Alloc(g, k)
      PROVE  TakesLowest
  <2>1. PICK n : n = Base(g) + k
    OBVIOUS
  <2>2. result' = [op |-> "alloc", unit |-> n] /\ owned' = owned \cup {n} /\ k \in Zeros(g)
    BY <1>2, <2>1 DEF Alloc
  <2>3. n \in FreeUnits
    BY <1>2, <2>1, <2>2, ZeroIsFree
  <2>4. \A u \in FreeUnits : n <= u
    BY <1>2, <2>1, FirstFree
  <2>5. Lowest(FreeUnits) = n
    BY ONLY <1>1, <2>3, <2>4, LowestIs
  <2>6. FreeUnits' = FreeUnits \ {n}
    BY <2>2 DEF FreeUnits
  <2> QED
    BY <2>2, <2>3, <2>5, <2>6 DEF TakesLowest
<1>3. ASSUME AllocIInv, AllocFails
      PROVE  TakesNone
  <2>1. \A g \in Group : Zeros(g) = {}
    BY <1>3, UsableIff DEF AllocFails
  <2>2. FreeUnits = {}
    BY <1>3, <2>1, FreeIsZero
  <2>3. FreeUnits' = FreeUnits
    BY <1>3 DEF AllocFails, FreeUnits
  <2> QED
    BY <1>3, <2>2, <2>3 DEF AllocFails, TakesNone
<1>4. ASSUME AllocIInv, NEW u \in owned, Free(u)
      PROVE  u \in Unit \ Reserved /\ GivesBack(u)
  <2>1. u \in Unit /\ u \notin Reserved
    BY <1>4 DEF AllocIInv, AllocTypeOK
  <2>2. owned' = owned \ {u} /\ result' = [op |-> "free", unit |-> u]
    BY <1>4 DEF Free
  <2>3. u \notin FreeUnits /\ FreeUnits' = FreeUnits \cup {u}
    BY <1>4, <2>1, <2>2 DEF FreeUnits
  <2> QED
    BY <2>1, <2>2, <2>3 DEF GivesBack
<1>5. ASSUME NEW u, FreeIgnored(u)
      PROVE  IgnoresNumber
  BY <1>5 DEF FreeIgnored, IgnoresNumber, FreeUnits
<1>6. AllocIInv /\ [AllocNext]_allocVars => [Step]_<<FreeUnits, result>>
  <2>1. SUFFICES ASSUME AllocIInv, [AllocNext]_allocVars
                 PROVE  Step \/ UNCHANGED <<FreeUnits, result>>
    OBVIOUS
  <2>2. CASE UNCHANGED allocVars
    <3>1. owned' = owned /\ result' = result
      BY <2>2 DEF allocVars
    <3> QED
      BY <3>1 DEF FreeUnits
  <2>3. CASE AllocNext
    BY <1>2, <1>3, <1>4, <1>5, <2>1, <2>3 DEF AllocNext
  <2> QED
    BY <2>1, <2>2, <2>3
<1> QED
  BY <1>6, AllocInvariance, PTL DEF AllocSpec, NumberSet

=============================================================================
