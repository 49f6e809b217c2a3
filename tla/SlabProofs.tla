----------------------------- MODULE SlabProofs -----------------------------
(***************************************************************************)
(* Proofs about Slab for every number of pages, every set of size classes  *)
(* and every bound on empty slabs.                                         *)
(*                                                                         *)
(* The lists of the heap have no state of their own, only links in pages.  *)
(* The proofs name the sequences of pages the links stand for: F the free  *)
(* list, L[x] the slab list of class and kind x.                           *)
(***************************************************************************)
EXTENDS Slab, FiniteSetTheorems, SequenceTheorems, WellFoundedInduction, TLAPS

-----------------------------------------------------------------------------
(***************************************************************************)
(* Sequences given by a function, and the least number of a set.           *)
(***************************************************************************)
LEMMA FunctionIsSeq ==
    ASSUME NEW S, NEW n \in Nat, NEW f \in [1 .. n -> S]
    PROVE  f \in Seq(S) /\ Len(f) = n
<1>1. f \in Seq(S)
  BY SeqDef
<1> QED
  BY <1>1, LenProperties

LEMMA IntervalSize ==
    ASSUME NEW n \in Nat
    PROVE  Cardinality(1 .. n) = n /\ Cardinality(0 .. (n - 1)) = n
<1>1. 0 \in Int /\ 1 \in Int /\ n \in Int /\ n - 1 \in Int
  OBVIOUS
<1>2. Cardinality(1 .. n) = IF 1 > n THEN 0 ELSE n - 1 + 1
  BY <1>1, FS_Interval
<1>3. Cardinality(0 .. (n - 1)) = IF 0 > n - 1 THEN 0 ELSE n - 1 - 0 + 1
  BY <1>1, FS_Interval
<1> QED
  BY <1>2, <1>3

LEMMA LeastNumber ==
    ASSUME NEW S \in SUBSET Nat, S # {}
    PROVE  \E n \in S : \A k \in S : n <= k
<1> DEFINE R == OpToRel(<, Nat)
<1>1. IsWellFoundedOn(R, Nat)
  BY NatLessThanWellFounded
<1>2. \A x, y \in Nat : <<x, y>> \in R <=> x < y
  BY DEF OpToRel
<1> HIDE DEF R
<1>3. \E n \in S : \A k \in S : ~ (<<k, n>> \in R)
  BY <1>1, WFMin
<1>4. PICK n \in S : \A k \in S : ~ (<<k, n>> \in R)
  BY <1>3
<1>5. ASSUME NEW k \in S
      PROVE  n <= k
  <2>1. k \in Nat /\ n \in Nat
    OBVIOUS
  <2>2. ~ (k < n)
    BY <1>2, <1>4, <2>1
  <2> QED
    BY <2>1, <2>2
<1> QED
  BY <1>5

-----------------------------------------------------------------------------
(***************************************************************************)
(* The links w of pages lead from h along q, and the links b lead back.    *)
(***************************************************************************)
Word == Page \cup {Null, Magic}
Link == Page \cup {Null}

Leads(w, h, q) ==
    /\ h = IF Len(q) = 0 THEN Null ELSE q[1]
    /\ \A k \in 1 .. Len(q) : w[q[k]] = IF k = Len(q) THEN Null ELSE q[k + 1]

Back(b, q) == \A k \in 1 .. Len(q) : b[q[k]] = IF k = 1 THEN Null ELSE q[k - 1]

Distinct(q) == \A j, k \in 1 .. Len(q) : q[j] = q[k] => j = k

In(q, s) == \E k \in 1 .. Len(q) : q[k] = s

Front(s, q) == [k \in 1 .. (Len(q) + 1) |-> IF k = 1 THEN s ELSE q[k - 1]]
Without(q, j) == [k \in 1 .. (Len(q) - 1) |-> IF k < j THEN q[k] ELSE q[k + 1]]

LEMMA PageTyped ==
    /\ Null \notin Page /\ Magic \notin Page /\ Null # Magic
    /\ Page \subseteq Nat /\ IsFiniteSet(Page) /\ Cardinality(Page) = NPAGE
<1>1. NPAGE \in Nat \ {0}
  BY NPAGEAssumption
<1>2. IsFiniteSet(Page) /\ Cardinality(Page) = NPAGE
  BY <1>1, FS_Interval DEF Page
<1> QED
  BY <1>1, <1>2 DEF Page, Null, Magic

LEMMA FrontTyped ==
    ASSUME NEW s \in Page, NEW q \in Seq(Page)
    PROVE  /\ Front(s, q) \in Seq(Page) /\ Len(Front(s, q)) = Len(q) + 1
           /\ Front(s, q)[1] = s
           /\ \A k \in 1 .. Len(q) : Front(s, q)[k + 1] = q[k]
           /\ \A k \in 2 .. (Len(q) + 1) : Front(s, q)[k] = q[k - 1] /\ k - 1 \in 1 .. Len(q)
<1>1. Len(q) \in Nat /\ \A k \in 1 .. Len(q) : q[k] \in Page
  OBVIOUS
<1>2. Front(s, q) \in [1 .. (Len(q) + 1) -> Page]
  BY <1>1 DEF Front
<1>3. Front(s, q) \in Seq(Page) /\ Len(Front(s, q)) = Len(q) + 1
  BY <1>1, <1>2, FunctionIsSeq
<1> QED
  BY <1>1, <1>3 DEF Front

LEMMA WithoutTyped ==
    ASSUME NEW q \in Seq(Page), NEW j \in 1 .. Len(q)
    PROVE  /\ Without(q, j) \in Seq(Page) /\ Len(Without(q, j)) = Len(q) - 1
           /\ \A k \in 1 .. (Len(q) - 1) :
                 Without(q, j)[k] = IF k < j THEN q[k] ELSE q[k + 1]
<1>1. Len(q) \in Nat \ {0} /\ \A k \in 1 .. Len(q) : q[k] \in Page
  OBVIOUS
<1>2. Len(q) - 1 \in Nat
  BY <1>1
<1>3. Without(q, j) \in [1 .. (Len(q) - 1) -> Page]
  BY <1>1 DEF Without
<1>4. Without(q, j) \in Seq(Page) /\ Len(Without(q, j)) = Len(q) - 1
  BY <1>2, <1>3, FunctionIsSeq
<1> QED
  BY <1>1, <1>4 DEF Without

\* Distinct pages are no more than there are.
LEMMA DistinctBounded ==
    ASSUME NEW q \in Seq(Page), Distinct(q)
    PROVE  Len(q) <= NPAGE
<1>1. q \in [1 .. Len(q) -> Page] /\ Len(q) \in Nat
  OBVIOUS
<1>2. q \in Injection(1 .. Len(q), Page)
  BY <1>1 DEF Distinct, Injection, IsInjective
<1>3. Cardinality(1 .. Len(q)) <= NPAGE
  BY <1>2, FS_Injection, PageTyped
<1>4. Cardinality(1 .. Len(q)) = Len(q)
  BY <1>1, IntervalSize
<1> QED
  BY <1>3, <1>4

(***************************************************************************)
(* Walk finds the sequence that the links stand for.                       *)
(***************************************************************************)
LEMMA StepsFollow ==
    ASSUME NEW q \in Seq(Page), Len(q) <= NPAGE, NEW h, Leads(word, h, q)
    PROVE  Steps(h) = [k \in 0 .. NPAGE |-> IF k < Len(q) THEN q[k + 1] ELSE Null]
<1> DEFINE f == [k \in 0 .. NPAGE |-> IF k < Len(q) THEN q[k + 1] ELSE Null]
           Next_(g) == [k \in 0 .. NPAGE |->
                          IF k = 0 THEN h
                          ELSE IF g[k - 1] \in Page THEN word[g[k - 1]] ELSE Null]
<1>1. NPAGE \in Nat /\ Len(q) \in Nat /\ \A k \in 1 .. Len(q) : q[k] \in Page
  BY NPAGEAssumption
<1>2. ASSUME NEW k \in 0 .. NPAGE
      PROVE  f[k] = Next_(f)[k]
  <2>1. CASE k = 0
    BY <1>1, <2>1 DEF Leads
  <2>2. CASE k > 0 /\ k - 1 < Len(q)
    <3>1. k \in 1 .. Len(q) /\ f[k - 1] = q[k] /\ k - 1 \in 0 .. NPAGE
      BY <1>1, <2>2
    <3>2. word[q[k]] = IF k = Len(q) THEN Null ELSE q[k + 1]
      BY <3>1 DEF Leads
    <3>3. Next_(f)[k] = word[q[k]]
      BY <1>1, <2>2, <3>1
    <3>4. f[k] = IF k = Len(q) THEN Null ELSE q[k + 1]
      BY <1>1, <3>1
    <3> QED
      BY <3>2, <3>3, <3>4
  <2>3. CASE k > 0 /\ k - 1 >= Len(q)
    <3>1. k - 1 \in 0 .. NPAGE /\ f[k - 1] = Null /\ f[k] = Null
      BY <1>1, <2>3
    <3> QED
      BY <2>3, <3>1, PageTyped
  <2> QED
    BY <1>1, <2>1, <2>2, <2>3
<1>3. f = Next_(f)
  BY <1>2
<1>4. Steps(h) = Next_(Steps(h))
  BY <1>3 DEF Steps
<1> DEFINE D == {k \in 0 .. NPAGE : Steps(h)[k] # f[k]}
<1>5. D = {}
  <2>1. SUFFICES ASSUME D # {}
                 PROVE  FALSE
    OBVIOUS
  <2>2. D \in SUBSET Nat
    BY <1>1
  <2>3. PICK n \in D : \A k \in D : n <= k
    BY <2>1, <2>2, LeastNumber
  <2>4. n \in 0 .. NPAGE /\ Steps(h)[n] # f[n]
    BY <2>3
  <2>5. n # 0
    BY <1>3, <1>4, <2>4
  <2>6. n - 1 \in 0 .. NPAGE /\ n - 1 \notin D
    BY <1>1, <2>3, <2>4, <2>5
  <2>7. Steps(h)[n - 1] = f[n - 1]
    BY <2>6
  <2>8. Next_(Steps(h))[n] = Next_(f)[n]
    BY <2>4, <2>5, <2>7
  <2> QED
    BY <1>3, <1>4, <2>4, <2>8
<1>6. \A k \in 0 .. NPAGE : Steps(h)[k] = f[k]
  BY <1>5
<1> QED
  BY <1>4, <1>6

LEMMA WalkFollows ==
    ASSUME NEW q \in Seq(Page), Len(q) <= NPAGE, NEW h, Leads(word, h, q)
    PROVE  Walk(h) = q
<1> DEFINE f == [k \in 0 .. NPAGE |-> IF k < Len(q) THEN q[k + 1] ELSE Null]
           On == {k \in 0 .. NPAGE : f[k] # Null}
<1>1. NPAGE \in Nat /\ Len(q) \in Nat /\ \A k \in 1 .. Len(q) : q[k] \in Page
  BY NPAGEAssumption
<1>2. Steps(h) = f
  BY StepsFollow
<1>3. On = 0 .. (Len(q) - 1)
  BY <1>1, PageTyped
<1>4. Cardinality(On) = Len(q)
  BY <1>1, <1>3, IntervalSize
<1>5. Walk(h) = [k \in 1 .. Len(q) |-> f[k - 1]]
  BY <1>2, <1>4 DEF Walk
<1>6. \A k \in 1 .. Len(q) : f[k - 1] = q[k]
  BY <1>1
<1> QED
  BY <1>1, <1>5, <1>6

-----------------------------------------------------------------------------
(***************************************************************************)
(* A heap m, as the helpers of the model take and return it, in which the  *)
(* free list is F and the slab lists are L.                                *)
(***************************************************************************)
Key == Cache \X List
Seqs == Seq(Page)

CacheType == [head : [List -> Link], empty_slabs : Int]

IsHeap(m) ==
    /\ m = [memlist |-> m.memlist, word |-> m.word, prev |-> m.prev, slab |-> m.slab,
            cache |-> m.cache]
    /\ m.memlist \in Link /\ m.word \in [Page -> Word] /\ m.prev \in [Page -> Link]
    /\ m.cache \in [Cache -> CacheType]

HeadOf(m, x) == m.cache[x[1]].head[x[2]]

On(L, x, s) == In(L[x], s)
OnAny(L, s) == \E x \in Key : On(L, x, s)

Linked(m, L) ==
    /\ \A x \in Key : /\ Leads(m.word, HeadOf(m, x), L[x]) /\ Back(m.prev, L[x])
                      /\ Distinct(L[x])
    /\ \A x, y \in Key, s \in Page : On(L, x, s) /\ On(L, y, s) => x = y

FreeList(m, F, L) ==
    /\ Leads(m.word, m.memlist, F) /\ Distinct(F)
    /\ \A k \in 1 .. Len(F) : ~OnAny(L, F[k])

Arranged(m, F, L) ==
    /\ IsHeap(m) /\ F \in Seqs /\ L \in [Key -> Seqs]
    /\ Linked(m, L) /\ FreeList(m, F, L)

WithHead(C, c, l, v) == [C EXCEPT ![c].head[l] = v]

LEMMA HeadSet ==
    ASSUME NEW C \in [Cache -> CacheType], NEW c \in Cache, NEW l \in List, NEW v \in Link,
           NEW D, D = WithHead(C, c, l, v)
    PROVE  /\ D \in [Cache -> CacheType]
           /\ \A d \in Cache, k \in List :
                 /\ D[d].head[k] = IF d = c /\ k = l THEN v ELSE C[d].head[k]
                 /\ D[d].empty_slabs = C[d].empty_slabs
<1>1. C[c] \in CacheType /\ C[c].head \in [List -> Link]
  BY DEF CacheType
<1>2. [C[c] EXCEPT !.head[l] = v] \in CacheType
  BY <1>1 DEF CacheType
<1>3. D = [C EXCEPT ![c] = [C[c] EXCEPT !.head[l] = v]]
  BY DEF WithHead
<1>4. D \in [Cache -> CacheType]
  BY <1>2, <1>3
<1>5. \A d \in Cache : D[d] = IF d = c THEN [C[c] EXCEPT !.head[l] = v] ELSE C[d]
  BY <1>3
<1> QED
  BY <1>1, <1>4, <1>5 DEF CacheType

\* What list_remove and list_insert write.
LEMMA RemoveEffect ==
    ASSUME NEW m, IsHeap(m), NEW c \in Cache, NEW l \in List, NEW s \in Page,
           NEW next, next = m.word[s], next \in Link,
           NEW r, r = list_remove(m, c, l, s)
    PROVE  /\ IsHeap(r)
           /\ r.memlist = m.memlist /\ r.slab = m.slab
           /\ r.word = IF m.prev[s] # Null THEN [m.word EXCEPT ![m.prev[s]] = next]
                       ELSE m.word
           /\ r.prev = IF next # Null THEN [m.prev EXCEPT ![next] = m.prev[s]]
                       ELSE m.prev
           /\ \A d \in Cache, k \in List :
                 /\ r.cache[d].head[k] = IF m.prev[s] = Null /\ d = c /\ k = l
                                         THEN next ELSE m.cache[d].head[k]
                 /\ r.cache[d].empty_slabs = m.cache[d].empty_slabs
<1> DEFINE m1 == IF m.prev[s] # Null
                 THEN [m EXCEPT !.word[m.prev[s]] = next]
                 ELSE [m EXCEPT !.cache[c].head[l] = next]
<1>1. m.prev[s] \in Link /\ Link \subseteq Word
  BY DEF IsHeap, Link, Word
<1>2. /\ m1.memlist = m.memlist /\ m1.slab = m.slab /\ m1.prev = m.prev
      /\ m1 = [memlist |-> m1.memlist, word |-> m1.word, prev |-> m1.prev, slab |-> m1.slab,
               cache |-> m1.cache]
      /\ m1.word = IF m.prev[s] # Null THEN [m.word EXCEPT ![m.prev[s]] = next]
                   ELSE m.word
      /\ m1.cache = IF m.prev[s] # Null THEN m.cache
                    ELSE [m.cache EXCEPT ![c].head[l] = next]
  BY DEF IsHeap
<1>3. m1.word \in [Page -> Word]
  BY <1>1, <1>2 DEF IsHeap
<1>4. PICK C : C = WithHead(m.cache, c, l, next)
  OBVIOUS
<1>5. /\ m1.cache \in [Cache -> CacheType]
      /\ \A d \in Cache, k \in List :
            /\ m1.cache[d].head[k] = IF m.prev[s] = Null /\ d = c /\ k = l
                                     THEN next ELSE m.cache[d].head[k]
            /\ m1.cache[d].empty_slabs = m.cache[d].empty_slabs
  <2>1. m.cache \in [Cache -> CacheType]
    BY DEF IsHeap
  <2> HIDE DEF m1
  <2>2. /\ C \in [Cache -> CacheType]
        /\ \A d \in Cache, k \in List :
              /\ C[d].head[k] = IF d = c /\ k = l THEN next ELSE m.cache[d].head[k]
              /\ C[d].empty_slabs = m.cache[d].empty_slabs
    BY <2>1, <1>4, HeadSet
  <2>3. m1.cache = IF m.prev[s] # Null THEN m.cache ELSE C
    BY <1>2, <1>4 DEF WithHead
  <2> QED
    BY <2>1, <2>2, <2>3
<1>6. r = IF next # Null THEN [m1 EXCEPT !.prev[next] = m.prev[s]] ELSE m1
  BY DEF list_remove
<1> HIDE DEF m1
<1>7. /\ r.memlist = m1.memlist /\ r.slab = m1.slab /\ r.word = m1.word /\ r.cache = m1.cache
      /\ r = [memlist |-> r.memlist, word |-> r.word, prev |-> r.prev, slab |-> r.slab,
              cache |-> r.cache]
      /\ r.prev = IF next # Null THEN [m.prev EXCEPT ![next] = m.prev[s]]
                  ELSE m.prev
  BY <1>2, <1>6
<1>8. r.prev \in [Page -> Link]
  BY <1>1, <1>7 DEF IsHeap
<1>9. r.memlist \in Link
  BY <1>2, <1>7 DEF IsHeap
<1>10. IsHeap(r)
  BY <1>3, <1>5, <1>7, <1>8, <1>9 DEF IsHeap
<1> QED
  BY <1>2, <1>5, <1>7, <1>10

LEMMA InsertEffect ==
    ASSUME NEW m, IsHeap(m), NEW c \in Cache, NEW l \in List, NEW s \in Page,
           NEW r, r = list_insert(m, c, l, s),
           NEW top, top = m.cache[c].head[l], top # s
    PROVE  /\ IsHeap(r)
           /\ r.memlist = m.memlist /\ r.slab = m.slab
           /\ r.word = [m.word EXCEPT ![s] = top]
           /\ r.prev = IF top # Null THEN [m.prev EXCEPT ![s] = Null, ![top] = s]
                       ELSE [m.prev EXCEPT ![s] = Null]
           /\ \A d \in Cache, k \in List :
                 /\ r.cache[d].head[k] = IF d = c /\ k = l THEN s ELSE m.cache[d].head[k]
                 /\ r.cache[d].empty_slabs = m.cache[d].empty_slabs
<1> DEFINE m1 == [m EXCEPT !.word[s] = top, !.prev[s] = Null, !.cache[c].head[l] = s]
<1>1. top \in Link /\ Link \subseteq Word /\ s \in Link /\ Null \in Link
  BY DEF IsHeap, CacheType, Link, Word
<1>2. /\ m1.memlist = m.memlist /\ m1.slab = m.slab
      /\ m1 = [memlist |-> m1.memlist, word |-> m1.word, prev |-> m1.prev, slab |-> m1.slab,
               cache |-> m1.cache]
      /\ m1.word = [m.word EXCEPT ![s] = top]
      /\ m1.prev = [m.prev EXCEPT ![s] = Null]
      /\ m1.cache = [m.cache EXCEPT ![c].head[l] = s]
  <2> DEFINE m2 == [memlist |-> m.memlist, word |-> [m.word EXCEPT ![s] = top],
                    prev |-> [m.prev EXCEPT ![s] = Null], slab |-> m.slab,
                    cache |-> [m.cache EXCEPT ![c].head[l] = s]]
  <2>1. m = [memlist |-> m.memlist, word |-> m.word, prev |-> m.prev, slab |-> m.slab,
             cache |-> m.cache]
    BY DEF IsHeap
  <2>2. PICK C : C = [m.cache EXCEPT ![c].head[l] = s]
    OBVIOUS
  <2>3. PICK w, b : w = [m.word EXCEPT ![s] = top] /\ b = [m.prev EXCEPT ![s] = Null]
    OBVIOUS
  <2>4. m1 = [m EXCEPT !.word = w, !.prev = b, !.cache = C]
    BY <2>2, <2>3
  <2>5. m1 = [memlist |-> m.memlist, word |-> w, prev |-> b, slab |-> m.slab, cache |-> C]
    <3> HIDE DEF m1
    <3> QED
      BY ONLY <2>1, <2>4
  <2> QED
    BY <2>2, <2>3, <2>5
<1>3. m1.word \in [Page -> Word] /\ m1.prev \in [Page -> Link]
  BY <1>1, <1>2 DEF IsHeap
<1>4. PICK C : C = WithHead(m.cache, c, l, s)
  OBVIOUS
<1>5. /\ m1.cache \in [Cache -> CacheType]
      /\ \A d \in Cache, k \in List :
            /\ m1.cache[d].head[k] = IF d = c /\ k = l THEN s ELSE m.cache[d].head[k]
            /\ m1.cache[d].empty_slabs = m.cache[d].empty_slabs
  <2>1. m.cache \in [Cache -> CacheType]
    BY DEF IsHeap
  <2>2. /\ C \in [Cache -> CacheType]
        /\ \A d \in Cache, k \in List :
              /\ C[d].head[k] = IF d = c /\ k = l THEN s ELSE m.cache[d].head[k]
              /\ C[d].empty_slabs = m.cache[d].empty_slabs
    BY <2>1, <1>1, <1>4, HeadSet
  <2>3. m1.cache = C
    BY <1>2, <1>4 DEF WithHead
  <2> HIDE DEF m1
  <2> QED
    BY <2>2, <2>3
<1>6. r = IF top # Null THEN [m1 EXCEPT !.prev[top] = s] ELSE m1
  BY DEF list_insert
<1> HIDE DEF m1
<1>7. /\ r.memlist = m1.memlist /\ r.slab = m1.slab /\ r.word = m1.word /\ r.cache = m1.cache
      /\ r = [memlist |-> r.memlist, word |-> r.word, prev |-> r.prev, slab |-> r.slab,
              cache |-> r.cache]
      /\ r.prev = IF top # Null THEN [m1.prev EXCEPT ![top] = s] ELSE m1.prev
  BY <1>2, <1>6
<1>8. r.prev \in [Page -> Link]
  BY <1>1, <1>3, <1>7
<1>9. r.memlist \in Link
  BY <1>2, <1>7 DEF IsHeap
<1>10. IsHeap(r)
  BY <1>3, <1>5, <1>7, <1>8, <1>9 DEF IsHeap
<1> QED
  BY <1>2, <1>5, <1>7, <1>10

(***************************************************************************)
(* Unlinking the page at position j of one list, wherever it is.           *)
(***************************************************************************)
LEMMA RemoveLeads ==
    ASSUME NEW q \in Seqs, Distinct(q), NEW w \in [Page -> Word], NEW b \in [Page -> Link],
           NEW h, Leads(w, h, q), Back(b, q), NEW j \in 1 .. Len(q), NEW s, s = q[j],
           NEW w2, w2 = IF b[s] # Null THEN [w EXCEPT ![b[s]] = w[s]] ELSE w,
           NEW b2, b2 = IF w[s] # Null THEN [b EXCEPT ![w[s]] = b[s]] ELSE b
    PROVE  /\ w[s] \in Link
           /\ Leads(w2, IF b[s] = Null THEN w[s] ELSE h, Without(q, j))
           /\ Back(b2, Without(q, j))
           /\ \A p \in Page : ~In(q, p) => w2[p] = w[p] /\ b2[p] = b[p]
<1> DEFINE n == Len(q)
           u == Without(q, j)
<1>1. n \in Nat /\ j \in 1 .. n /\ \A k \in 1 .. n : q[k] \in Page /\ q[k] # Null
  BY PageTyped DEF Seqs
<1>2. /\ w[s] = IF j = n THEN Null ELSE q[j + 1]
      /\ b[s] = IF j = 1 THEN Null ELSE q[j - 1]
  BY DEF Leads, Back
<1>3. /\ \A k \in 1 .. n : w2[q[k]] = IF k = j - 1 THEN w[s] ELSE w[q[k]]
      /\ \A p \in Page : (\A k \in 1 .. n : q[k] # p) => w2[p] = w[p]
  <2>1. CASE j = 1
    BY <1>1, <1>2, <2>1
  <2>2. CASE j # 1
    <3>1. w2 = [w EXCEPT ![q[j - 1]] = w[s]] /\ j - 1 \in 1 .. n
      BY <1>1, <1>2, <2>2
    <3>2. \A k \in 1 .. n : q[k] = q[j - 1] <=> k = j - 1
      BY <3>1 DEF Distinct
    <3> QED
      BY <1>1, <3>1, <3>2
  <2> QED
    BY <2>1, <2>2
<1>4. /\ \A k \in 1 .. n : b2[q[k]] = IF k = j + 1 THEN b[s] ELSE b[q[k]]
      /\ \A p \in Page : (\A k \in 1 .. n : q[k] # p) => b2[p] = b[p]
  <2>1. CASE j = n
    BY <1>1, <1>2, <2>1
  <2>2. CASE j # n
    <3>0. j + 1 \in 1 .. n
      BY <1>1, <2>2
    <3>1. b2 = [b EXCEPT ![q[j + 1]] = b[s]] /\ j + 1 \in 1 .. n
      BY <1>1, <1>2, <2>2, <3>0
    <3>2. \A k \in 1 .. n : q[k] = q[j + 1] <=> k = j + 1
      BY <3>1 DEF Distinct
    <3> QED
      BY <1>1, <3>1, <3>2
  <2> QED
    BY <2>1, <2>2
<1>5. /\ Len(u) = n - 1
      /\ \A k \in 1 .. (n - 1) : u[k] = IF k < j THEN q[k] ELSE q[k + 1]
  BY WithoutTyped DEF Seqs
<1> HIDE DEF n, u
<1>6. \A k \in 1 .. n : /\ w[q[k]] = IF k = n THEN Null ELSE q[k + 1]
                        /\ b[q[k]] = IF k = 1 THEN Null ELSE q[k - 1]
  BY DEF Leads, Back, n
<1>7. (IF b[s] = Null THEN w[s] ELSE h) = IF Len(u) = 0 THEN Null ELSE u[1]
  <2>1. h = q[1]
    BY <1>1 DEF Leads, n
  <2>2. CASE j = 1
    <3>1. b[s] = Null
      BY <1>2, <2>2
    <3>2. CASE n = 1
      BY <1>2, <1>5, <2>2, <3>1, <3>2
    <3>3. CASE n # 1
      BY <1>1, <1>2, <1>5, <2>2, <3>1, <3>3
    <3> QED
      BY <3>2, <3>3
  <2>3. CASE j # 1
    BY <1>1, <1>2, <1>5, <2>1, <2>3
  <2> QED
    BY <2>2, <2>3
<1>8. ASSUME NEW k \in 1 .. (n - 1)
      PROVE  /\ w2[u[k]] = IF k = n - 1 THEN Null ELSE u[k + 1]
             /\ b2[u[k]] = IF k = 1 THEN Null ELSE u[k - 1]
  <2>1. k \in 1 .. n /\ k + 1 \in 1 .. n
    BY <1>1
  <2>2. CASE k < j - 1
    <3>1. u[k] = q[k] /\ u[k + 1] = q[k + 1] /\ k # n - 1 /\ (k # 1 => u[k - 1] = q[k - 1])
      BY <1>1, <1>5, <2>2
    <3> QED
      BY <1>1, <1>3, <1>4, <1>6, <2>1, <2>2, <3>1
  <2>3. CASE k = j - 1
    <3>1. /\ u[k] = q[k] /\ (k # n - 1 => u[k + 1] = q[k + 2])
          /\ (k # 1 => u[k - 1] = q[k - 1])
      BY <1>1, <1>5, <2>3
    <3>2. w2[u[k]] = w[s]
      BY <1>3, <2>1, <2>3, <3>1
    <3>3. b2[u[k]] = b[q[k]]
      BY <1>1, <1>4, <2>1, <2>3, <3>1
    <3>4. j = k + 1 /\ j + 1 = k + 2 /\ (k = n - 1 <=> j = n)
      BY <1>1, <2>3
    <3>5. w2[u[k]] = IF k = n - 1 THEN Null ELSE u[k + 1]
      BY <1>2, <3>1, <3>2, <3>4
    <3>6. b2[u[k]] = IF k = 1 THEN Null ELSE u[k - 1]
      BY <1>6, <2>1, <3>1, <3>3
    <3> QED
      BY <3>5, <3>6
  <2>4. CASE k = j
    <3>1. /\ u[k] = q[k + 1] /\ (k # n - 1 => u[k + 1] = q[k + 2])
          /\ (k # 1 => u[k - 1] = q[k - 1])
      BY <1>1, <1>5, <2>4
    <3>2. w2[u[k]] = w[q[k + 1]]
      BY <1>1, <1>3, <2>1, <2>4, <3>1
    <3>3. b2[u[k]] = b[s]
      BY <1>4, <2>1, <2>4, <3>1
    <3> QED
      BY <1>1, <1>2, <1>6, <2>1, <2>4, <3>1, <3>2, <3>3
  <2>5. CASE k > j
    <3>0. k - 1 \in 1 .. (n - 1) /\ ~(k - 1 < j) /\ (k - 1) + 1 = k /\ k # 1
      BY <1>1, <2>5
    <3>1. /\ u[k] = q[k + 1] /\ (k # n - 1 => u[k + 1] = q[k + 2])
          /\ u[k - 1] = q[k] /\ k # 1
      <4>1. u[k - 1] = q[(k - 1) + 1]
        BY <1>5, <3>0
      <4>2. k # n - 1 => k + 1 \in 1 .. (n - 1) /\ ~(k + 1 < j) /\ (k + 1) + 1 = k + 2
        BY <1>1, <2>5
      <4>3. ~(k < j)
        BY <1>1, <2>5
      <4> QED
        BY <1>5, <3>0, <4>1, <4>2, <4>3
    <3>2. w2[u[k]] = w[q[k + 1]]
      BY <1>1, <1>3, <2>1, <2>5, <3>1
    <3>3. b2[u[k]] = b[q[k + 1]]
      BY <1>1, <1>4, <2>1, <2>5, <3>1
    <3> QED
      BY <1>1, <1>6, <2>1, <2>5, <3>1, <3>2, <3>3
  <2> QED
    BY <1>1, <2>2, <2>3, <2>4, <2>5
<1>9. w[s] \in Link
  BY <1>1, <1>2 DEF Link
<1>10. \A p \in Page : ~In(q, p) => w2[p] = w[p] /\ b2[p] = b[p]
  BY <1>3, <1>4 DEF In, n
<1> QED
  BY <1>5, <1>7, <1>8, <1>9, <1>10 DEF Leads, Back, u

LEMMA InsertLeads ==
    ASSUME NEW q \in Seqs, Distinct(q), NEW w \in [Page -> Word], NEW b \in [Page -> Link],
           NEW h, Leads(w, h, q), Back(b, q),
           NEW s \in Page, ~In(q, s),
           NEW w2, w2 = [w EXCEPT ![s] = h],
           NEW b2, b2 = IF h # Null THEN [b EXCEPT ![s] = Null, ![h] = s]
                        ELSE [b EXCEPT ![s] = Null]
    PROVE  /\ h \in Link /\ h # s
           /\ Leads(w2, s, Front(s, q)) /\ Back(b2, Front(s, q))
           /\ \A p \in Page : p # s => w2[p] = w[p]
           /\ \A p \in Page : p # s /\ p # h => b2[p] = b[p]
<1> DEFINE n == Len(q)
           u == Front(s, q)
<1>1. n \in Nat /\ \A k \in 1 .. n : q[k] \in Page /\ q[k] # Null /\ q[k] # s
  BY PageTyped DEF Seqs, In
<1>2. h = IF n = 0 THEN Null ELSE q[1]
  BY DEF Leads
<1>3. s # Null /\ h \in Link /\ h # s
  BY <1>1, <1>2, PageTyped DEF Link
<1>4. \A k \in 1 .. n : /\ w[q[k]] = IF k = n THEN Null ELSE q[k + 1]
                        /\ b[q[k]] = IF k = 1 THEN Null ELSE q[k - 1]
  BY DEF Leads, Back
<1>5. /\ Len(u) = n + 1 /\ u[1] = s
      /\ \A k \in 1 .. n : u[k + 1] = q[k]
      /\ \A k \in 2 .. (n + 1) : u[k] = q[k - 1] /\ k - 1 \in 1 .. n
  BY FrontTyped DEF Seqs
<1>6. /\ w2[s] = h /\ b2[s] = Null
      /\ \A p \in Page : p # s => w2[p] = w[p]
      /\ \A p \in Page : p # s => b2[p] = IF p = h THEN s ELSE b[p]
  BY <1>3, PageTyped DEF Link
<1>7. \A k \in 1 .. n : q[k] = h <=> k = 1
  BY <1>1, <1>2 DEF Distinct
<1> HIDE DEF n, u
<1>8. ASSUME NEW k \in 1 .. (n + 1)
      PROVE  /\ w2[u[k]] = IF k = n + 1 THEN Null ELSE u[k + 1]
             /\ b2[u[k]] = IF k = 1 THEN Null ELSE u[k - 1]
  <2>1. CASE k = 1
    <3>1. n = 0 \/ 1 \in 1 .. n
      BY <1>1
    <3> QED
      BY <1>1, <1>2, <1>5, <1>6, <2>1, <3>1
  <2>2. CASE k # 1
    <3>1. PICK j \in 1 .. n : k = j + 1
      BY <1>1, <2>2
    <3>2. u[k] = q[j] /\ q[j] \in Page /\ q[j] # s
      BY <1>1, <1>5, <3>1
    <3>3. w2[u[k]] = w[q[j]] /\ b2[u[k]] = IF j = 1 THEN s ELSE b[q[j]]
      BY <1>6, <1>7, <3>2
    <3>4. j # n => j + 1 \in 1 .. n /\ u[k + 1] = q[j + 1]
      BY <1>1, <1>5, <3>1
    <3>5. u[k - 1] = IF j = 1 THEN s ELSE q[j - 1]
      <4>1. k - 1 = j
        BY <3>1
      <4>2. j # 1 => j \in 2 .. (n + 1)
        BY <1>1
      <4> QED
        BY <1>5, <4>1, <4>2
    <3> QED
      BY <1>1, <1>4, <3>1, <3>2, <3>3, <3>4, <3>5
  <2> QED
    BY <2>1, <2>2
<1>9. Leads(w2, s, u)
  <2>1. \A k \in 1 .. Len(u) : w2[u[k]] = IF k = Len(u) THEN Null ELSE u[k + 1]
    BY <1>5, <1>8
  <2>2. Len(u) # 0
    BY <1>1, <1>5 DEF n
  <2> QED
    BY <1>5, <2>1, <2>2 DEF Leads
<1>10. Back(b2, u)
  BY <1>5, <1>8 DEF Back
<1> QED
  BY <1>3, <1>6, <1>9, <1>10 DEF u

LEMMA WithoutElements ==
    ASSUME NEW q \in Seqs, Distinct(q), NEW j \in 1 .. Len(q)
    PROVE  /\ Distinct(Without(q, j))
           /\ \A p : In(Without(q, j), p) <=> In(q, p) /\ p # q[j]
<1> DEFINE u == Without(q, j)
<1>1. /\ Len(q) \in Nat /\ Len(u) = Len(q) - 1
      /\ \A k \in 1 .. (Len(q) - 1) : u[k] = IF k < j THEN q[k] ELSE q[k + 1]
  BY WithoutTyped DEF Seqs
<1> HIDE DEF u
<1>2. Distinct(u)
  <2> SUFFICES ASSUME NEW a \in 1 .. Len(u), NEW b \in 1 .. Len(u), u[a] = u[b]
               PROVE  a = b
    BY DEF Distinct
  <2> DEFINE f(k) == IF k < j THEN k ELSE k + 1
  <2>1. f(a) \in 1 .. Len(q) /\ f(b) \in 1 .. Len(q)
    BY <1>1
  <2>2. u[a] = q[f(a)] /\ u[b] = q[f(b)]
    BY <1>1
  <2>3. f(a) = f(b)
    BY <2>1, <2>2 DEF Distinct
  <2> QED
    BY <1>1, <2>3
<1>3. ASSUME NEW k \in 1 .. Len(u)
      PROVE  (\E i \in 1 .. Len(q) : q[i] = u[k]) /\ u[k] # q[j]
  <2> DEFINE i == IF k < j THEN k ELSE k + 1
  <2>1. i \in 1 .. Len(q) /\ i # j /\ u[k] = q[i]
    BY <1>1
  <2> QED
    BY <2>1 DEF Distinct
<1>4. ASSUME NEW k \in 1 .. Len(q), q[k] # q[j]
      PROVE  \E i \in 1 .. Len(u) : u[i] = q[k]
  <2> DEFINE i == IF k < j THEN k ELSE k - 1
  <2>1. k # j
    BY <1>4
  <2>2. i \in 1 .. Len(u) /\ u[i] = q[k]
    <3>1. CASE k < j
      BY <1>1, <3>1
    <3>2. CASE k > j
      <4>1. k - 1 \in 1 .. (Len(q) - 1) /\ ~(k - 1 < j) /\ (k - 1) + 1 = k
        BY <1>1, <3>2
      <4>2. u[k - 1] = q[(k - 1) + 1]
        BY <1>1, <4>1
      <4> QED
        BY <1>1, <3>2, <4>1, <4>2
    <3> QED
      BY <1>1, <2>1, <3>1, <3>2
  <2> QED
    BY <2>2
<1>5. ASSUME NEW p
      PROVE  In(u, p) <=> In(q, p) /\ p # q[j]
  BY <1>3, <1>4 DEF In
<1> QED
  BY <1>2, <1>5 DEF u

LEMMA FrontElements ==
    ASSUME NEW q \in Seqs, Distinct(q), NEW s \in Page, ~In(q, s)
    PROVE  /\ Distinct(Front(s, q))
           /\ \A p : In(Front(s, q), p) <=> In(q, p) \/ p = s
<1> DEFINE u == Front(s, q)
<1>1. /\ Len(q) \in Nat /\ Len(u) = Len(q) + 1 /\ u[1] = s
      /\ \A k \in 1 .. Len(q) : u[k + 1] = q[k] /\ k + 1 \in 1 .. Len(u)
      /\ \A k \in 2 .. Len(u) : u[k] = q[k - 1] /\ k - 1 \in 1 .. Len(q)
      /\ \A k \in 1 .. Len(u) : k = 1 \/ k \in 2 .. Len(u)
      /\ 1 \in 1 .. Len(u)
  <2>1. /\ Len(u) = Len(q) + 1 /\ u[1] = s
        /\ \A k \in 1 .. Len(q) : u[k + 1] = q[k]
        /\ \A k \in 2 .. (Len(q) + 1) : u[k] = q[k - 1] /\ k - 1 \in 1 .. Len(q)
    BY FrontTyped DEF Seqs
  <2>2. Len(q) \in Nat
    BY DEF Seqs
  <2> HIDE DEF u
  <2> QED
    BY <2>1, <2>2
<1> HIDE DEF u
<1>0. \A k \in 1 .. Len(q) : q[k] # s
  BY DEF In
<1>2. Distinct(u)
  <2> SUFFICES ASSUME NEW a \in 1 .. Len(u), NEW b \in 1 .. Len(u), u[a] = u[b]
               PROVE  a = b
    BY DEF Distinct
  <2>1. CASE a \in 2 .. Len(u) /\ b \in 2 .. Len(u)
    <3>1. a - 1 = b - 1
      BY <1>1, <2>1 DEF Distinct
    <3> QED
      BY <2>1, <3>1
  <2>2. CASE a = 1 \/ b = 1
    BY <1>0, <1>1, <2>2
  <2> QED
    BY <1>1, <2>1, <2>2
<1>3. \A k \in 1 .. Len(u) : u[k] = s \/ \E i \in 1 .. Len(q) : q[i] = u[k]
  BY <1>1
<1>4. \A k \in 1 .. Len(q) : \E i \in 1 .. Len(u) : u[i] = q[k]
  BY <1>1
<1>5. ASSUME NEW p
      PROVE  In(u, p) <=> In(q, p) \/ p = s
  BY <1>1, <1>3, <1>4 DEF In
<1> QED
  BY <1>2, <1>5 DEF u

Removed(m, F, L, x, s, r, M) ==
    /\ Arranged(r, F, M)
    /\ s \in Page /\ ~OnAny(M, s) /\ ~In(F, s)
    /\ r.memlist = m.memlist /\ r.slab = m.slab
    /\ \A d \in Cache : r.cache[d].empty_slabs = m.cache[d].empty_slabs
    /\ \A p \in Page : ~OnAny(L, p) => r.word[p] = m.word[p] /\ r.prev[p] = m.prev[p]
    /\ \A y \in Key, p \in Page : On(M, y, p) <=> On(L, y, p) /\ p # s
    /\ \A y \in Key : Len(M[y]) = IF y = x THEN Len(L[x]) - 1 ELSE Len(L[y])

LEMMA RemoveArranged ==
    ASSUME NEW m, NEW F, NEW L, Arranged(m, F, L),
           NEW c \in Cache, NEW l \in List, NEW x, x = <<c, l>>,
           NEW s, On(L, x, s), NEW r, r = list_remove(m, c, l, s)
    PROVE  \E M : Removed(m, F, L, x, s, r, M)
<1>a. PICK j \in 1 .. Len(L[x]) : s = L[x][j]
  BY DEF On, In
<1>b. PICK M : M = [L EXCEPT ![x] = Without(L[x], j)]
  OBVIOUS
<1> USE <1>a, <1>b DEF Arranged
<1>1. x \in Key /\ L[x] \in Seqs /\ x[1] = c /\ x[2] = l
  BY DEF Key
<1>2. /\ s \in Page /\ On(L, x, s)
      /\ \A y \in Key : \A p : On(L, y, p) => p \in Page
  <2>1. ASSUME NEW y \in Key
        PROVE  \A k \in 1 .. Len(L[y]) : L[y][k] \in Page
    BY DEF Seqs
  <2> QED
    BY <1>1, <2>1 DEF On, In
<1>3. /\ Leads(m.word, HeadOf(m, x), L[x]) /\ Back(m.prev, L[x]) /\ Distinct(L[x])
      /\ m.word \in [Page -> Word] /\ m.prev \in [Page -> Link] /\ IsHeap(m)
  BY <1>1 DEF Linked, IsHeap
<1>4. PICK q, w, b, h, w2, b2, u :
         /\ q = L[x] /\ w = m.word /\ b = m.prev /\ h = HeadOf(m, x) /\ u = Without(q, j)
         /\ w2 = IF b[s] # Null THEN [w EXCEPT ![b[s]] = w[s]] ELSE w
         /\ b2 = IF w[s] # Null THEN [b EXCEPT ![w[s]] = b[s]] ELSE b
  OBVIOUS
<1>5. /\ m.word[s] \in Link
      /\ Leads(w2, IF m.prev[s] = Null THEN m.word[s] ELSE HeadOf(m, x), Without(L[x], j))
      /\ Back(b2, Without(L[x], j))
      /\ \A p \in Page : ~On(L, x, p) => w2[p] = m.word[p] /\ b2[p] = m.prev[p]
  <2>1. /\ q \in Seqs /\ Distinct(q) /\ w \in [Page -> Word] /\ b \in [Page -> Link]
        /\ Leads(w, h, q) /\ Back(b, q) /\ j \in 1 .. Len(q) /\ s = q[j]
    BY <1>1, <1>3, <1>4
  <2>2. /\ w[s] \in Link
        /\ Leads(w2, IF b[s] = Null THEN w[s] ELSE h, Without(q, j))
        /\ Back(b2, Without(q, j))
        /\ \A p \in Page : ~In(q, p) => w2[p] = w[p] /\ b2[p] = b[p]
    BY <1>4, <2>1, RemoveLeads, SMTT(30)
  <2> QED
    BY <1>4, <2>2 DEF On
<1>6. /\ IsHeap(r) /\ r.memlist = m.memlist /\ r.slab = m.slab /\ r.word = w2 /\ r.prev = b2
      /\ \A d \in Cache, k \in List :
            /\ r.cache[d].head[k] = IF m.prev[s] = Null /\ d = c /\ k = l
                                    THEN m.word[s] ELSE m.cache[d].head[k]
            /\ r.cache[d].empty_slabs = m.cache[d].empty_slabs
  <2>1. PICK next : next = m.word[s]
    OBVIOUS
  <2>2. /\ IsHeap(r)
        /\ r.memlist = m.memlist /\ r.slab = m.slab
        /\ r.word = IF m.prev[s] # Null THEN [m.word EXCEPT ![m.prev[s]] = next] ELSE m.word
        /\ r.prev = IF next # Null THEN [m.prev EXCEPT ![next] = m.prev[s]] ELSE m.prev
        /\ \A d \in Cache, k \in List :
              /\ r.cache[d].head[k] = IF m.prev[s] = Null /\ d = c /\ k = l
                                      THEN next ELSE m.cache[d].head[k]
              /\ r.cache[d].empty_slabs = m.cache[d].empty_slabs
    <3>1. IsHeap(m) /\ s \in Page /\ next \in Link
      BY <1>2, <1>3, <1>5, <2>1
    <3> QED
      BY <2>1, <3>1, RemoveEffect, SMTT(30)
  <2> QED
    BY <1>4, <2>1, <2>2
<1>7. \A y \in Key : HeadOf(r, y) = IF m.prev[s] = Null /\ y = x THEN m.word[s] ELSE HeadOf(m, y)
  BY <1>1, <1>6 DEF HeadOf, Key
<1>8. /\ \A y \in Key : M[y] = IF y = x THEN Without(L[x], j) ELSE L[y]
      /\ M \in [Key -> Seqs]
  BY <1>1, WithoutTyped DEF Seqs
<1>9. /\ Distinct(M[x])
      /\ \A p : On(M, x, p) <=> On(L, x, p) /\ p # s
  <2>1. q \in Seqs /\ Distinct(q) /\ j \in 1 .. Len(q) /\ M[x] = Without(q, j)
    BY <1>1, <1>3, <1>4, <1>8
  <2>2. /\ Distinct(Without(q, j))
        /\ \A p : In(Without(q, j), p) <=> In(q, p) /\ p # q[j]
    BY <2>1, WithoutElements
  <2>3. M[x] = Without(L[x], j) /\ q = L[x] /\ q[j] = s
    BY <1>4, <2>1
  <2>4. ASSUME NEW p
        PROVE  On(M, x, p) <=> On(L, x, p) /\ p # s
    BY <2>2, <2>3 DEF On
  <2> QED
    BY <2>2, <2>3, <2>4
<1>10. \A y \in Key, p \in Page : On(M, y, p) <=> On(L, y, p) /\ p # s
  <2> TAKE y \in Key, p \in Page
  <2>1. CASE y = x
    BY <1>9, <2>1
  <2>2. CASE y # x
    <3>1. On(M, y, p) <=> On(L, y, p)
      BY <1>8, <2>2 DEF On
    <3>2. ~On(L, y, s)
      BY <1>1, <1>2, <2>2 DEF Linked
    <3> QED
      BY <3>1, <3>2
  <2> QED
    BY <2>1, <2>2
<1>11. ASSUME NEW y \in Key
       PROVE  Leads(r.word, HeadOf(r, y), M[y]) /\ Back(r.prev, M[y]) /\ Distinct(M[y])
  <2>1. CASE y = x
    <3>1. HeadOf(r, y) = IF m.prev[s] = Null THEN m.word[s] ELSE HeadOf(m, x)
      BY <1>7, <2>1
    <3>2. M[y] = Without(L[x], j)
      BY <1>8, <2>1
    <3> QED
      BY <1>5, <1>6, <1>9, <2>1, <3>1, <3>2
  <2>2. CASE y # x
    <3>1. HeadOf(r, y) = HeadOf(m, y) /\ M[y] = L[y]
      BY <1>7, <1>8, <2>2
    <3>2. Leads(m.word, HeadOf(m, y), L[y]) /\ Back(m.prev, L[y]) /\ Distinct(L[y])
      BY DEF Linked
    <3>3. \A k \in 1 .. Len(L[y]) : L[y][k] \in Page /\ On(L, y, L[y][k])
      BY <1>2 DEF On, In
    <3>4. \A k \in 1 .. Len(L[y]) : ~On(L, x, L[y][k])
      BY <1>1, <2>2, <3>3 DEF Linked
    <3>5. \A k \in 1 .. Len(L[y]) : r.word[L[y][k]] = m.word[L[y][k]]
                                  /\ r.prev[L[y][k]] = m.prev[L[y][k]]
      BY <1>5, <1>6, <3>3, <3>4
    <3>6. Leads(r.word, HeadOf(m, y), L[y])
      BY <3>2, <3>5 DEF Leads
    <3>7. Back(r.prev, L[y])
      BY <3>2, <3>5 DEF Back
    <3> QED
      BY <3>1, <3>2, <3>6, <3>7
  <2> QED
    BY <2>1, <2>2
<1>12. Linked(r, M)
  BY <1>10, <1>11 DEF Linked
<1>13. /\ F \in Seqs /\ Leads(m.word, m.memlist, F) /\ Distinct(F)
       /\ \A k \in 1 .. Len(F) : F[k] \in Page /\ ~OnAny(L, F[k])
  BY DEF FreeList, Seqs
<1>14. \A k \in 1 .. Len(F) : r.word[F[k]] = m.word[F[k]] /\ ~OnAny(M, F[k])
  BY <1>1, <1>5, <1>6, <1>10, <1>13 DEF OnAny
<1>15. FreeList(r, F, M)
  BY <1>6, <1>13, <1>14 DEF FreeList, Leads
<1>16. ~OnAny(M, s) /\ ~In(F, s)
  BY <1>1, <1>2, <1>10, <1>13 DEF OnAny, In
<1>17. \A p \in Page : ~OnAny(L, p) => r.word[p] = m.word[p] /\ r.prev[p] = m.prev[p]
  BY <1>1, <1>5, <1>6 DEF OnAny
<1>18. \A y \in Key : Len(M[y]) = IF y = x THEN Len(L[x]) - 1 ELSE Len(L[y])
  BY <1>1, <1>8, WithoutTyped DEF Seqs
<1>19. Arranged(r, F, M)
  BY <1>6, <1>8, <1>12, <1>13, <1>15
<1>20. Removed(m, F, L, x, s, r, M)
  <2>1. \A d \in Cache : r.cache[d].empty_slabs = m.cache[d].empty_slabs
    BY <1>6
  <2>2. r.memlist = m.memlist /\ r.slab = m.slab
    BY <1>6
  <2> QED
    BY <1>2, <1>10, <1>16, <1>17, <1>18, <1>19, <2>1, <2>2 DEF Removed
<1> QED
  BY <1>20

Inserted(m, F, L, x, s, r, M) ==
    /\ Arranged(r, F, M)
    /\ r.memlist = m.memlist /\ r.slab = m.slab
    /\ \A d \in Cache : r.cache[d].empty_slabs = m.cache[d].empty_slabs
    /\ \A p \in Page : p # s => r.word[p] = m.word[p]
    /\ \A y \in Key, p \in Page : On(M, y, p) <=> On(L, y, p) \/ (y = x /\ p = s)
    /\ \A y \in Key : Len(M[y]) = IF y = x THEN Len(L[x]) + 1 ELSE Len(L[y])

LEMMA InsertArranged ==
    ASSUME NEW m, NEW F, NEW L, Arranged(m, F, L),
           NEW c \in Cache, NEW l \in List, NEW x, x = <<c, l>>,
           NEW s \in Page, ~OnAny(L, s), ~In(F, s),
           NEW r, r = list_insert(m, c, l, s)
    PROVE  \E M : Inserted(m, F, L, x, s, r, M)
<1>a. PICK M : M = [L EXCEPT ![x] = Front(s, L[x])]
  OBVIOUS
<1> USE <1>a DEF Arranged
<1>1. x \in Key /\ L[x] \in Seqs /\ x[1] = c /\ x[2] = l
  BY DEF Key
<1>2. /\ \A y \in Key : \A p : On(L, y, p) => p \in Page
      /\ ~On(L, x, s)
  <2>1. ASSUME NEW y \in Key
        PROVE  \A k \in 1 .. Len(L[y]) : L[y][k] \in Page
    BY DEF Seqs
  <2> QED
    BY <1>1, <2>1 DEF On, In, OnAny
<1>3. /\ Leads(m.word, HeadOf(m, x), L[x]) /\ Back(m.prev, L[x]) /\ Distinct(L[x])
      /\ m.word \in [Page -> Word] /\ m.prev \in [Page -> Link] /\ IsHeap(m)
  BY <1>1 DEF Linked, IsHeap
<1>4. PICK q, w, b, h, w2, b2 :
         /\ q = L[x] /\ w = m.word /\ b = m.prev /\ h = HeadOf(m, x)
         /\ w2 = [w EXCEPT ![s] = h]
         /\ b2 = IF h # Null THEN [b EXCEPT ![s] = Null, ![h] = s] ELSE [b EXCEPT ![s] = Null]
  OBVIOUS
<1>5. /\ h \in Link /\ h # s /\ h = m.cache[c].head[l]
      /\ Leads(w2, s, Front(s, L[x])) /\ Back(b2, Front(s, L[x]))
      /\ \A p \in Page : p # s => w2[p] = m.word[p]
      /\ \A p \in Page : p # s /\ p # h => b2[p] = m.prev[p]
      /\ h # Null => On(L, x, h)
  <2>1. /\ q \in Seqs /\ Distinct(q) /\ w \in [Page -> Word] /\ b \in [Page -> Link]
        /\ Leads(w, h, q) /\ Back(b, q) /\ ~In(q, s)
    BY <1>1, <1>2, <1>3, <1>4 DEF On
  <2>2. /\ h \in Link /\ h # s
        /\ Leads(w2, s, Front(s, q)) /\ Back(b2, Front(s, q))
        /\ \A p \in Page : p # s => w2[p] = w[p]
        /\ \A p \in Page : p # s /\ p # h => b2[p] = b[p]
    BY <1>4, <2>1, InsertLeads, SMTT(30)
  <2>3. h # Null => In(q, h)
    <3>1. h # Null => h = q[1] /\ Len(q) # 0 /\ Len(q) \in Nat
      BY <2>1 DEF Leads, Seqs
    <3>2. h # Null => 1 \in 1 .. Len(q)
      BY <3>1
    <3> QED
      BY <3>1, <3>2 DEF In
  <2>4. h = m.cache[c].head[l]
    BY <1>1, <1>4 DEF HeadOf
  <2> QED
    BY <1>4, <2>2, <2>3, <2>4 DEF On
<1>6. /\ IsHeap(r) /\ r.memlist = m.memlist /\ r.slab = m.slab /\ r.word = w2 /\ r.prev = b2
      /\ \A d \in Cache, k \in List :
            /\ r.cache[d].head[k] = IF d = c /\ k = l THEN s ELSE m.cache[d].head[k]
            /\ r.cache[d].empty_slabs = m.cache[d].empty_slabs
  <2>1. /\ IsHeap(r)
        /\ r.memlist = m.memlist /\ r.slab = m.slab
        /\ r.word = [m.word EXCEPT ![s] = h]
        /\ r.prev = IF h # Null THEN [m.prev EXCEPT ![s] = Null, ![h] = s]
                    ELSE [m.prev EXCEPT ![s] = Null]
        /\ \A d \in Cache, k \in List :
              /\ r.cache[d].head[k] = IF d = c /\ k = l THEN s ELSE m.cache[d].head[k]
              /\ r.cache[d].empty_slabs = m.cache[d].empty_slabs
    BY <1>3, <1>5, InsertEffect, SMTT(30)
  <2> QED
    BY <1>4, <2>1
<1>7. \A y \in Key : HeadOf(r, y) = IF y = x THEN s ELSE HeadOf(m, y)
  BY <1>1, <1>6 DEF HeadOf, Key
<1>8. /\ \A y \in Key : M[y] = IF y = x THEN Front(s, L[x]) ELSE L[y]
      /\ M \in [Key -> Seqs]
  BY <1>1, FrontTyped DEF Seqs
<1>9. /\ Distinct(M[x])
      /\ \A p : On(M, x, p) <=> On(L, x, p) \/ p = s
  <2>1. q \in Seqs /\ Distinct(q) /\ M[x] = Front(s, q) /\ ~In(q, s)
    BY <1>1, <1>2, <1>3, <1>4, <1>8 DEF On
  <2>2. /\ Distinct(Front(s, q))
        /\ \A p : In(Front(s, q), p) <=> In(q, p) \/ p = s
    BY <2>1, FrontElements
  <2>3. M[x] = Front(s, L[x]) /\ q = L[x]
    BY <1>4, <2>1
  <2>4. ASSUME NEW p
        PROVE  On(M, x, p) <=> On(L, x, p) \/ p = s
    BY <2>2, <2>3 DEF On
  <2> QED
    BY <2>2, <2>3, <2>4
<1>10. \A y \in Key, p \in Page : On(M, y, p) <=> On(L, y, p) \/ (y = x /\ p = s)
  <2> TAKE y \in Key, p \in Page
  <2>1. CASE y = x
    BY <1>9, <2>1
  <2>2. CASE y # x
    BY <1>8, <2>2 DEF On
  <2> QED
    BY <2>1, <2>2
<1>11. ASSUME NEW y \in Key
       PROVE  Leads(r.word, HeadOf(r, y), M[y]) /\ Back(r.prev, M[y]) /\ Distinct(M[y])
  <2>1. CASE y = x
    <3>1. HeadOf(r, y) = s /\ M[y] = Front(s, L[x])
      BY <1>7, <1>8, <2>1
    <3> QED
      BY <1>5, <1>6, <1>9, <2>1, <3>1
  <2>2. CASE y # x
    <3>1. HeadOf(r, y) = HeadOf(m, y) /\ M[y] = L[y]
      BY <1>7, <1>8, <2>2
    <3>2. Leads(m.word, HeadOf(m, y), L[y]) /\ Back(m.prev, L[y]) /\ Distinct(L[y])
      BY DEF Linked
    <3>3. \A k \in 1 .. Len(L[y]) : L[y][k] \in Page /\ On(L, y, L[y][k])
      BY <1>2 DEF On, In
    <3>4. \A k \in 1 .. Len(L[y]) : ~On(L, x, L[y][k]) /\ L[y][k] # s
      BY <1>1, <2>2, <3>3 DEF Linked, OnAny
    <3>5. \A k \in 1 .. Len(L[y]) : L[y][k] # h
      BY <1>5, <3>3, <3>4, PageTyped
    <3>6. \A k \in 1 .. Len(L[y]) : r.word[L[y][k]] = m.word[L[y][k]]
                                  /\ r.prev[L[y][k]] = m.prev[L[y][k]]
      BY <1>5, <1>6, <3>3, <3>4, <3>5
    <3> QED
      BY <3>1, <3>2, <3>6 DEF Leads, Back
  <2> QED
    BY <2>1, <2>2
<1>12. Linked(r, M)
  <2>1. \A y, z \in Key, p \in Page : On(M, y, p) /\ On(M, z, p) => y = z
    BY <1>10 DEF Linked, OnAny
  <2> QED
    BY <1>11, <2>1 DEF Linked
<1>13. /\ F \in Seqs /\ Leads(m.word, m.memlist, F) /\ Distinct(F)
       /\ \A k \in 1 .. Len(F) : F[k] \in Page /\ ~OnAny(L, F[k]) /\ F[k] # s
  BY DEF FreeList, Seqs, In
<1>14. ASSUME NEW k \in 1 .. Len(F)
       PROVE  r.word[F[k]] = m.word[F[k]] /\ ~OnAny(M, F[k])
  <2>1. F[k] \in Page /\ ~OnAny(L, F[k]) /\ F[k] # s
    BY <1>13
  <2> QED
    BY <1>5, <1>6, <1>10, <2>1 DEF OnAny
<1>15. FreeList(r, F, M)
  BY <1>6, <1>13, <1>14 DEF FreeList, Leads
<1>16. \A p \in Page : p # s /\ ~OnAny(L, p) => r.prev[p] = m.prev[p]
  <2>1. \A p \in Page : ~OnAny(L, p) => p # h
    BY <1>1, <1>5, PageTyped DEF OnAny
  <2> QED
    BY <1>5, <1>6, <2>1
<1>17. \A p \in Page : p # s => r.word[p] = m.word[p]
  BY <1>5, <1>6
<1>18. /\ \A y \in Key : Len(M[y]) = IF y = x THEN Len(L[x]) + 1 ELSE Len(L[y])
       /\ M[x][1] = s
  BY <1>1, <1>8, FrontTyped DEF Seqs
<1>19. Arranged(r, F, M)
  BY <1>6, <1>8, <1>12, <1>13, <1>15
<1> QED
  BY <1>6, <1>10, <1>16, <1>17, <1>18, <1>19 DEF Inserted

\* Writing elsewhere, or to the counters and headers of slabs, leaves the lists as they are.
LEMMA SameLists ==
    ASSUME NEW m, NEW F, NEW L, Arranged(m, F, L),
           NEW r, IsHeap(r), r.memlist = m.memlist,
           \A d \in Cache, k \in List : r.cache[d].head[k] = m.cache[d].head[k],
           \A p \in Page : In(F, p) \/ OnAny(L, p) => r.word[p] = m.word[p],
           \A p \in Page : OnAny(L, p) => r.prev[p] = m.prev[p]
    PROVE  Arranged(r, F, L)
<1> USE DEF Arranged
<1>1. \A y \in Key : HeadOf(r, y) = HeadOf(m, y)
  BY DEF HeadOf, Key
<1>2. ASSUME NEW y \in Key
      PROVE  Leads(r.word, HeadOf(r, y), L[y]) /\ Back(r.prev, L[y]) /\ Distinct(L[y])
  <2>1. Leads(m.word, HeadOf(m, y), L[y]) /\ Back(m.prev, L[y]) /\ Distinct(L[y])
    BY DEF Linked
  <2>2. \A k \in 1 .. Len(L[y]) : L[y][k] \in Page
    BY DEF Seqs
  <2>3. \A k \in 1 .. Len(L[y]) : OnAny(L, L[y][k])
    BY DEF OnAny, On, In
  <2>4. \A k \in 1 .. Len(L[y]) : r.word[L[y][k]] = m.word[L[y][k]]
                                /\ r.prev[L[y][k]] = m.prev[L[y][k]]
    BY <2>2, <2>3
  <2> QED
    BY <1>1, <2>1, <2>4 DEF Leads, Back
<1>3. Linked(r, L)
  BY <1>2 DEF Linked
<1>4. \A k \in 1 .. Len(F) : F[k] \in Page /\ In(F, F[k])
  BY DEF Seqs, In
<1>5. Leads(r.word, r.memlist, F)
  BY <1>4 DEF FreeList, Leads
<1> QED
  BY <1>3, <1>5 DEF FreeList

\* kalloc takes the first page of a free list that is not empty.
LEMMA KallocArranged ==
    ASSUME NEW m, NEW F, NEW L, Arranged(m, F, L), NEW s, s = m.memlist, s # Null,
           NEW r, r = kalloc(m), NEW G, G = Without(F, 1)
    PROVE  /\ Arranged(r, G, L)
           /\ s \in Page /\ In(F, s) /\ ~In(G, s) /\ ~OnAny(L, s)
           /\ r.slab = m.slab /\ r.cache = m.cache /\ r.prev = m.prev
           /\ \A p \in Page : r.word[p] = IF p = s THEN Null ELSE m.word[p]
           /\ \A p : In(G, p) <=> In(F, p) /\ p # s
<1> USE DEF Arranged
<1>1. /\ F \in Seqs /\ Distinct(F) /\ Leads(m.word, m.memlist, F)
      /\ \A k \in 1 .. Len(F) : F[k] \in Page /\ ~OnAny(L, F[k])
  BY DEF FreeList, Seqs
<1>2. Len(F) \in Nat /\ Len(F) # 0 /\ s = F[1]
  BY <1>1 DEF Leads, Seqs
<1>3. 1 \in 1 .. Len(F)
  BY <1>2
<1>4. s \in Page /\ In(F, s) /\ ~OnAny(L, s)
  BY <1>1, <1>2, <1>3 DEF In
<1>5. Distinct(G) /\ \A p : In(G, p) <=> In(F, p) /\ p # s
  BY <1>1, <1>2, <1>3, WithoutElements
<1>6. m = [memlist |-> m.memlist, word |-> m.word, prev |-> m.prev, slab |-> m.slab,
           cache |-> m.cache]
  BY DEF IsHeap
<1>7. /\ r.memlist = m.word[s] /\ r.slab = m.slab /\ r.cache = m.cache /\ r.prev = m.prev
      /\ r.word = [m.word EXCEPT ![s] = Null]
      /\ r = [memlist |-> r.memlist, word |-> r.word, prev |-> r.prev, slab |-> r.slab,
              cache |-> r.cache]
  BY <1>6 DEF kalloc
<1>8. m.word[s] = IF Len(F) = 1 THEN Null ELSE F[2]
  BY <1>1, <1>2, <1>3 DEF Leads
<1>9. m.word[s] \in Link
  <2>1. ASSUME NEW n \in Nat, n # 0, n # 1
        PROVE  2 \in 1 .. n
    BY <2>1
  <2>2. Len(F) # 1 => 2 \in 1 .. Len(F)
    BY <1>2, <2>1
  <2> QED
    BY <1>1, <1>8, <2>2 DEF Link
<1>10. IsHeap(r)
  BY <1>4, <1>7, <1>9 DEF IsHeap, Word
<1>11. /\ G \in Seqs /\ Len(G) = Len(F) - 1
       /\ \A k \in 1 .. (Len(F) - 1) : G[k] = F[k + 1] /\ k + 1 \in 1 .. Len(F)
  <2>1. /\ G \in Seqs /\ Len(G) = Len(F) - 1
        /\ \A k \in 1 .. (Len(F) - 1) : G[k] = IF k < 1 THEN F[k] ELSE F[k + 1]
    BY <1>1, <1>3, WithoutTyped DEF Seqs
  <2> QED
    BY <1>2, <2>1
<1>12. Leads(r.word, r.memlist, G)
  <2>1. r.memlist = IF Len(G) = 0 THEN Null ELSE G[1]
    BY <1>2, <1>7, <1>8, <1>11
  <2>2. ASSUME NEW k \in 1 .. Len(G)
        PROVE  r.word[G[k]] = IF k = Len(G) THEN Null ELSE G[k + 1]
    <3>1. k + 1 \in 1 .. Len(F) /\ G[k] = F[k + 1] /\ k + 1 # 1
      BY <1>2, <1>11
    <3>2. F[k + 1] # s /\ F[k + 1] \in Page
      BY <1>1, <1>2, <1>3, <3>1 DEF Distinct
    <3>3. r.word[G[k]] = m.word[F[k + 1]]
      BY <1>4, <1>7, <3>1, <3>2 DEF IsHeap
    <3>4. m.word[F[k + 1]] = IF k + 1 = Len(F) THEN Null ELSE F[(k + 1) + 1]
      BY <1>1, <3>1 DEF Leads
    <3>5. k # Len(G) => G[k + 1] = F[(k + 1) + 1]
      BY <1>2, <1>11
    <3> QED
      BY <1>2, <1>11, <3>3, <3>4, <3>5
  <2> QED
    BY <2>1, <2>2 DEF Leads
<1>13. \A k \in 1 .. Len(G) : ~OnAny(L, G[k])
  BY <1>1, <1>2, <1>11
<1>14. FreeList(r, G, L)
  BY <1>5, <1>12, <1>13 DEF FreeList
<1>15. Linked(r, L)
  <2>1. \A y \in Key : HeadOf(r, y) = HeadOf(m, y)
    BY <1>7 DEF HeadOf
  <2>2. ASSUME NEW y \in Key
        PROVE  Leads(r.word, HeadOf(r, y), L[y]) /\ Back(r.prev, L[y]) /\ Distinct(L[y])
    <3>1. Leads(m.word, HeadOf(m, y), L[y]) /\ Back(m.prev, L[y]) /\ Distinct(L[y])
      BY DEF Linked
    <3>2. \A k \in 1 .. Len(L[y]) : L[y][k] \in Page /\ L[y][k] # s
      BY <1>4 DEF Seqs, OnAny, On, In
    <3>3. \A k \in 1 .. Len(L[y]) : r.word[L[y][k]] = m.word[L[y][k]]
      BY <1>4, <1>7, <3>2 DEF IsHeap
    <3> QED
      BY <1>7, <2>1, <3>1, <3>3 DEF Leads
  <2> QED
    BY <2>2 DEF Linked
<1>a. \A p \in Page : r.word[p] = IF p = s THEN Null ELSE m.word[p]
  BY <1>4, <1>7 DEF IsHeap
<1> QED
  BY <1>a, <1>4, <1>5, <1>7, <1>10, <1>11, <1>14, <1>15

\* kfree puts a page that is on no list in front of the free list.
LEMMA KfreeArranged ==
    ASSUME NEW m, NEW F, NEW L, Arranged(m, F, L), NEW p \in Page, ~In(F, p), ~OnAny(L, p),
           NEW r, r = kfree(m, p), NEW G, G = Front(p, F)
    PROVE  /\ Arranged(r, G, L)
           /\ r.slab = [q \in DOMAIN m.slab \ {p} |-> m.slab[q]] /\ r.cache = m.cache
           /\ \A q \in Page : q # p => r.word[q] = m.word[q] /\ r.prev[q] = m.prev[q]
           /\ \A q : In(G, q) <=> In(F, q) \/ q = p
<1> USE DEF Arranged
<1>1. /\ F \in Seqs /\ Distinct(F) /\ Leads(m.word, m.memlist, F)
      /\ \A k \in 1 .. Len(F) : F[k] \in Page /\ ~OnAny(L, F[k]) /\ F[k] # p
  BY DEF FreeList, Seqs, In
<1>2. Distinct(G) /\ \A q : In(G, q) <=> In(F, q) \/ q = p
  BY <1>1, FrontElements
<1>3. m = [memlist |-> m.memlist, word |-> m.word, prev |-> m.prev, slab |-> m.slab,
           cache |-> m.cache]
  BY DEF IsHeap
<1>4. /\ r.memlist = p /\ r.cache = m.cache
      /\ r.slab = [q \in DOMAIN m.slab \ {p} |-> m.slab[q]]
      /\ r.prev = [m.prev EXCEPT ![p] = Null]
      /\ r.word = [m.word EXCEPT ![p] = m.memlist]
      /\ r = [memlist |-> r.memlist, word |-> r.word, prev |-> r.prev, slab |-> r.slab,
              cache |-> r.cache]
  BY <1>3 DEF kfree
<1>5. IsHeap(r)
  BY <1>4 DEF IsHeap, Word, Link
<1>6. /\ G \in Seqs /\ Len(G) = Len(F) + 1 /\ G[1] = p /\ Len(F) \in Nat
      /\ \A k \in 1 .. Len(F) : G[k + 1] = F[k]
      /\ \A k \in 2 .. (Len(F) + 1) : G[k] = F[k - 1] /\ k - 1 \in 1 .. Len(F)
  <2> DEFINE u == Front(p, F)
  <2>0. F \in Seq(Page) /\ Len(F) \in Nat
    BY <1>1 DEF Seqs
  <2>1. /\ u \in Seqs /\ Len(u) = Len(F) + 1 /\ u[1] = p /\ Len(F) \in Nat
        /\ \A k \in 1 .. Len(F) : u[k + 1] = F[k]
        /\ \A k \in 2 .. (Len(F) + 1) : u[k] = F[k - 1] /\ k - 1 \in 1 .. Len(F)
    BY <2>0, FrontTyped DEF Seqs
  <2>2. G = u
    OBVIOUS
  <2> HIDE DEF u
  <2> QED
    BY <2>1, <2>2
<1>7. Leads(r.word, r.memlist, G)
  <2>1. ASSUME NEW k \in 1 .. Len(G)
        PROVE  r.word[G[k]] = IF k = Len(G) THEN Null ELSE G[k + 1]
    <3>1. CASE k = 1
      <4>1. r.word[G[k]] = m.memlist
        BY <1>4, <1>6, <3>1 DEF IsHeap
      <4>2. m.memlist = IF Len(F) = 0 THEN Null ELSE F[1]
        BY <1>1 DEF Leads
      <4>3. Len(F) # 0 => G[k + 1] = F[1]
        BY <1>6, <3>1
      <4> QED
        BY <1>6, <3>1, <4>1, <4>2, <4>3
    <3>2. CASE k # 1
      <4>1. PICK j \in 1 .. Len(F) : k = j + 1
        BY <1>6, <3>2
      <4>2. G[k] = F[j] /\ F[j] # p /\ F[j] \in Page
        BY <1>1, <1>6, <4>1
      <4>3. r.word[G[k]] = m.word[F[j]]
        BY <1>4, <4>2 DEF IsHeap
      <4>4. m.word[F[j]] = IF j = Len(F) THEN Null ELSE F[j + 1]
        BY <1>1, <4>1 DEF Leads
      <4>5. j # Len(F) => j + 1 \in 1 .. Len(F) /\ G[k + 1] = F[j + 1]
        BY <1>6, <4>1
      <4> QED
        BY <1>6, <4>1, <4>3, <4>4, <4>5
    <3> QED
      BY <3>1, <3>2
  <2> QED
    BY <1>4, <1>6, <2>1 DEF Leads
<1>8. ASSUME NEW k \in 1 .. Len(G)
      PROVE  ~OnAny(L, G[k])
  <2>1. k = 1 \/ k \in 2 .. (Len(F) + 1)
    BY <1>6
  <2> QED
    BY <1>1, <1>6, <2>1
<1>9. FreeList(r, G, L)
  BY <1>2, <1>7, <1>8 DEF FreeList
<1>10. Linked(r, L)
  <2>1. \A y \in Key : HeadOf(r, y) = HeadOf(m, y)
    BY <1>4 DEF HeadOf
  <2>2. ASSUME NEW y \in Key
        PROVE  Leads(r.word, HeadOf(r, y), L[y]) /\ Back(r.prev, L[y]) /\ Distinct(L[y])
    <3>1. Leads(m.word, HeadOf(m, y), L[y]) /\ Back(m.prev, L[y]) /\ Distinct(L[y])
      BY DEF Linked
    <3>2. \A k \in 1 .. Len(L[y]) : L[y][k] \in Page /\ L[y][k] # p
      BY DEF Seqs, OnAny, On, In
    <3>3. \A k \in 1 .. Len(L[y]) : r.word[L[y][k]] = m.word[L[y][k]]
                                  /\ r.prev[L[y][k]] = m.prev[L[y][k]]
      BY <1>4, <3>2 DEF IsHeap
    <3> QED
      BY <2>1, <3>1, <3>3 DEF Leads, Back
  <2> QED
    BY <2>2 DEF Linked
<1>11. \A q \in Page : q # p => r.word[q] = m.word[q] /\ r.prev[q] = m.prev[q]
  BY <1>4 DEF IsHeap
<1> QED
  BY <1>2, <1>4, <1>5, <1>6, <1>9, <1>10, <1>11

-----------------------------------------------------------------------------
(***************************************************************************)
(* The header h of a slab whose objects in used are handed out.            *)
(***************************************************************************)
Header(h) ==
    /\ h = [cache |-> h.cache, list |-> h.list, freenum |-> h.freenum]
    /\ h.cache \in Cache /\ h.freenum \in 0 .. PerSlab[h.cache]
    /\ h.list \in Seq(1 .. (PerSlab[h.cache] + 1)) /\ Len(h.list) = h.freenum + 1

Free(h) == {h.list[k] : k \in 1 .. h.freenum}

Once(h, used) ==
    /\ \A j, k \in 1 .. h.freenum : h.list[j] = h.list[k] => j = k
    /\ Free(h) \cap used = {} /\ Free(h) \cup used = 1 .. PerSlab[h.cache]

Popped(h) == [h EXCEPT !.list = Tail(h.list), !.freenum = h.freenum - 1]
Pushed(h, obj) == [h EXCEPT !.list = <<obj>> \o h.list, !.freenum = h.freenum + 1]
Fresh(c) == [cache |-> c, list |-> Chain(c), freenum |-> PerSlab[c]]

LEMMA PerSlabTyped == \A c \in Cache : PerSlab[c] \in Nat \ {0}
BY PerSlabAssumption

\* As many objects are free as the header says.
LEMMA FreeCounted ==
    ASSUME NEW h, NEW used, Header(h), Once(h, used)
    PROVE  /\ IsFiniteSet(Free(h)) /\ Cardinality(Free(h)) = h.freenum
           /\ Free(h) \subseteq 1 .. PerSlab[h.cache]
<1> DEFINE n == h.freenum
           f == [k \in 1 .. n |-> h.list[k]]
<1>1. n \in Nat
  BY PerSlabTyped DEF Header
<1>2. f \in Surjection(1 .. n, Free(h))
  BY DEF Surjection, Free
<1>3. f \in Injection(1 .. n, Free(h))
  BY <1>2 DEF Once, Injection, IsInjective, Surjection
<1>4. IsFiniteSet(1 .. n) /\ Cardinality(1 .. n) = n
  <2>1. 1 \in Int /\ n \in Int
    BY <1>1
  <2> QED
    BY <1>1, <2>1, FS_Interval, IntervalSize
<1>5. IsFiniteSet(Free(h)) /\ Cardinality(Free(h)) = n
  BY <1>2, <1>3, <1>4, FS_Surjection
<1> QED
  BY <1>5 DEF Once

\* The head of the chain is handed out.
LEMMA HeaderTaken ==
    ASSUME NEW h, NEW used, Header(h), Once(h, used), h.freenum > 0,
           NEW g, g = Popped(h)
    PROVE  /\ Header(g) /\ g.cache = h.cache /\ g.freenum = h.freenum - 1
           /\ Head(h.list) \in 1 .. PerSlab[h.cache] /\ Head(h.list) \notin used
           /\ Once(g, used \cup {Head(h.list)})
<1>1. /\ g.cache = h.cache /\ g.freenum = h.freenum - 1 /\ g.list = Tail(h.list)
      /\ g = [cache |-> g.cache, list |-> g.list, freenum |-> g.freenum]
  BY DEF Header, Popped
<1> DEFINE n == h.freenum
           P == PerSlab[h.cache]
<1>2. P \in Nat /\ n \in 1 .. P /\ h.list \in Seq(1 .. (P + 1)) /\ Len(h.list) = n + 1
  BY PerSlabTyped DEF Header
<1> HIDE DEF P, n
<1>3. /\ Tail(h.list) \in Seq(1 .. (P + 1)) /\ Len(Tail(h.list)) = n
      /\ Head(h.list) = h.list[1]
      /\ \A k \in 1 .. n : Tail(h.list)[k] = h.list[k + 1]
  <2>1. h.list # <<>>
    BY <1>2
  <2>2. /\ Head(h.list) = h.list[1] /\ Tail(h.list) \in Seq(1 .. (P + 1))
        /\ Len(Tail(h.list)) = Len(h.list) - 1
        /\ \A k \in 1 .. Len(Tail(h.list)) : Tail(h.list)[k] = h.list[k + 1]
    <3>1. PICK S : S = 1 .. (P + 1)
      OBVIOUS
    <3>2. h.list \in Seq(S)
      BY <1>2, <3>1
    <3>3. /\ Tail(h.list) \in Seq(S) /\ Len(Tail(h.list)) = Len(h.list) - 1
          /\ \A k \in 1 .. Len(Tail(h.list)) : Tail(h.list)[k] = h.list[k + 1]
      BY <2>1, <3>2, HeadTailProperties
    <3>4. Head(h.list) = h.list[1]
      BY <2>1, <3>2
    <3> QED
      BY <3>1, <3>3, <3>4
  <2>3. Len(Tail(h.list)) = n
    BY <1>2, <2>2
  <2> QED
    BY <2>2, <2>3
<1>4. Header(g)
  <2>1. g.freenum \in 0 .. PerSlab[g.cache] /\ Len(g.list) = g.freenum + 1
    BY <1>1, <1>2, <1>3 DEF P, n
  <2> QED
    BY <1>1, <1>3, <2>1 DEF Header, P
<1>5. /\ Free(g) = {h.list[k + 1] : k \in 1 .. (n - 1)}
      /\ Free(h) = {h.list[k] : k \in 1 .. n}
  <2>1. \A k \in 1 .. (n - 1) : g.list[k] = h.list[k + 1]
    <3>1. \A k \in 1 .. (n - 1) : k \in 1 .. n
      BY <1>2
    <3> QED
      BY <1>1, <1>3, <3>1
  <2>2. Free(g) = {g.list[k] : k \in 1 .. (n - 1)}
    BY <1>1 DEF Free, n
  <2>3. Free(g) = {h.list[k + 1] : k \in 1 .. (n - 1)}
    BY <2>1, <2>2
  <2>4. Free(h) = {h.list[k] : k \in 1 .. n}
    BY DEF Free, n
  <2> QED
    BY <2>3, <2>4
<1>6. h.list[1] \in Free(h) /\ h.list[1] \notin Free(g)
  <2>1. \A j, k \in 1 .. n : h.list[j] = h.list[k] => j = k
    BY DEF Once, n
  <2>2. 1 \in 1 .. n /\ \A k \in 1 .. (n - 1) : k + 1 \in 1 .. n /\ k + 1 # 1
    BY <1>2
  <2> QED
    BY <1>5, <2>1, <2>2
<1>7. Free(h) = Free(g) \cup {h.list[1]}
  <2>1. \A k \in 1 .. n : k = 1 \/ (k - 1 \in 1 .. (n - 1) /\ (k - 1) + 1 = k)
    BY <1>2
  <2>2. \A k \in 1 .. n : h.list[k] = h.list[1] \/ h.list[k] \in Free(g)
    BY <1>5, <2>1
  <2>3. \A k \in 1 .. (n - 1) : h.list[k + 1] \in Free(h)
    <3>1. \A k \in 1 .. (n - 1) : k + 1 \in 1 .. n
      BY <1>2
    <3> QED
      BY <1>5, <3>1
  <2> QED
    BY <1>5, <1>6, <2>2, <2>3
<1>8. \A j, k \in 1 .. g.freenum : g.list[j] = g.list[k] => j = k
  <2> SUFFICES ASSUME NEW j \in 1 .. (n - 1), NEW k \in 1 .. (n - 1), g.list[j] = g.list[k]
               PROVE  j = k
    BY <1>1 DEF n
  <2>1. h.list[j + 1] = h.list[k + 1] /\ j + 1 \in 1 .. n /\ k + 1 \in 1 .. n
    <3>1. \A i \in 1 .. (n - 1) : i \in 1 .. n /\ i + 1 \in 1 .. n
      <4>1. n \in Nat
        BY <1>2
      <4> QED
        BY <4>1
    <3>2. g.list[j] = h.list[j + 1] /\ g.list[k] = h.list[k + 1]
      BY <1>1, <1>3, <3>1
    <3> QED
      BY <3>1, <3>2
  <2>2. j + 1 = k + 1
    BY <2>1 DEF Once, n
  <2> QED
    BY <2>2
<1>9. Once(g, used \cup {Head(h.list)})
  <2>1. Free(h) \cap used = {} /\ Free(h) \cup used = 1 .. PerSlab[g.cache]
    BY <1>1 DEF Once
  <2>2. /\ Free(g) \cap (used \cup {h.list[1]}) = {}
        /\ Free(g) \cup (used \cup {h.list[1]}) = 1 .. PerSlab[g.cache]
    BY <1>6, <1>7, <2>1
  <2> QED
    BY <1>3, <1>8, <2>2 DEF Once
<1>10. Head(h.list) \in 1 .. P /\ Head(h.list) \notin used
  BY <1>3, <1>6 DEF Once, P
<1> QED
  BY <1>1, <1>4, <1>9, <1>10 DEF P

\* An object that was handed out comes back in front of the chain.
LEMMA HeaderGiven ==
    ASSUME NEW h, NEW used, Header(h), Once(h, used), NEW obj \in used,
           NEW g, g = Pushed(h, obj)
    PROVE  /\ Header(g) /\ g.cache = h.cache /\ g.freenum = h.freenum + 1
           /\ Once(g, used \ {obj})
<1>1. /\ g.cache = h.cache /\ g.freenum = h.freenum + 1 /\ g.list = <<obj>> \o h.list
      /\ g = [cache |-> g.cache, list |-> g.list, freenum |-> g.freenum]
  BY DEF Header, Pushed
<1> DEFINE n == h.freenum
           P == PerSlab[h.cache]
<1>2. /\ P \in Nat /\ n \in 0 .. P /\ h.list \in Seq(1 .. (P + 1)) /\ Len(h.list) = n + 1
      /\ obj \in 1 .. P /\ obj \notin Free(h)
  BY PerSlabTyped DEF Header, Once
<1> HIDE DEF P
<1>3. n + 1 <= P
  <2>1. IsFiniteSet(Free(h)) /\ Cardinality(Free(h)) = n /\ Free(h) \subseteq 1 .. P
    BY FreeCounted DEF P
  <2>2. Cardinality(Free(h) \cup {obj}) = n + 1
    BY <1>2, <2>1, FS_AddElement
  <2>3. IsFiniteSet(1 .. P) /\ Cardinality(1 .. P) = P
    <3>1. 1 \in Int /\ P \in Int
      BY <1>2
    <3> QED
      BY <1>2, <3>1, FS_Interval, IntervalSize
  <2>4. Free(h) \cup {obj} \in SUBSET (1 .. P)
    BY <1>2, <2>1
  <2> QED
    BY <2>2, <2>3, <2>4, FS_Subset
<1> HIDE DEF n
<1>4. /\ g.list \in Seq(1 .. (P + 1)) /\ Len(g.list) = n + 2
      /\ g.list[1] = obj
      /\ \A k \in 2 .. (n + 2) : g.list[k] = h.list[k - 1]
  <2>1. PICK S, t, u : S = 1 .. (P + 1) /\ t = <<obj>> /\ u = h.list
    OBVIOUS
  <2>2. t \in Seq(S) /\ u \in Seq(S) /\ Len(t) = 1 /\ t[1] = obj /\ Len(u) = n + 1
    BY <1>2, <2>1
  <2>3. /\ t \o u \in Seq(S) /\ Len(t \o u) = Len(t) + Len(u)
        /\ \A k \in 1 .. (Len(t) + Len(u)) :
              (t \o u)[k] = IF k <= Len(t) THEN t[k] ELSE u[k - Len(t)]
    BY <2>2, ConcatProperties
  <2>4. g.list = t \o u
    BY <1>1, <2>1
  <2>5. n \in Nat
    BY <1>2
  <2>6. \A k \in 1 .. (n + 2) : g.list[k] = IF k <= 1 THEN t[k] ELSE u[k - 1]
    BY <2>2, <2>3, <2>4, <2>5
  <2>7. 1 \in 1 .. (n + 2) /\ \A k \in 2 .. (n + 2) : k \in 1 .. (n + 2) /\ ~(k <= 1)
    BY <2>5
  <2> QED
    BY <2>1, <2>2, <2>3, <2>4, <2>5, <2>6, <2>7
<1>5. Header(g)
  <2>1. g.freenum \in 0 .. PerSlab[g.cache] /\ Len(g.list) = g.freenum + 1
    BY <1>1, <1>2, <1>3, <1>4 DEF P, n
  <2> QED
    BY <1>1, <1>4, <2>1 DEF Header, P
<1>6. Free(g) = Free(h) \cup {obj}
  <2>1. Free(g) = {g.list[k] : k \in 1 .. (n + 1)} /\ Free(h) = {h.list[k] : k \in 1 .. n}
    BY <1>1 DEF Free, n
  <2>2. \A k \in 1 .. (n + 1) : k = 1 \/ (k - 1 \in 1 .. n /\ g.list[k] = h.list[k - 1])
    <3>1. n \in Nat
      BY <1>2
    <3>2. \A k \in 1 .. (n + 1) : k = 1 \/ (k - 1 \in 1 .. n /\ k \in 2 .. (n + 2))
      BY <3>1
    <3> QED
      BY <1>4, <3>2
  <2>3. \A k \in 1 .. n : k + 1 \in 1 .. (n + 1) /\ g.list[k + 1] = h.list[k]
    <3> TAKE k \in 1 .. n
    <3>1. k + 1 \in 2 .. (n + 2) /\ (k + 1) - 1 = k /\ k + 1 \in 1 .. (n + 1)
      BY <1>2
    <3> QED
      BY <1>4, <3>1
  <2>4. 1 \in 1 .. (n + 1)
    BY <1>2
  <2>5. \A x \in Free(g) : x \in Free(h) \cup {obj}
    <3>1. \A k \in 1 .. (n + 1) : g.list[k] \in Free(h) \cup {obj}
      BY <1>4, <2>1, <2>2
    <3> QED
      BY <2>1, <3>1
  <2>6. obj \in Free(g) /\ \A x \in Free(h) : x \in Free(g)
    BY <1>4, <2>1, <2>3, <2>4
  <2> QED
    BY <2>5, <2>6
<1>7. \A j, k \in 1 .. g.freenum : g.list[j] = g.list[k] => j = k
  <2> SUFFICES ASSUME NEW j \in 1 .. (n + 1), NEW k \in 1 .. (n + 1), g.list[j] = g.list[k]
               PROVE  j = k
    BY <1>1 DEF n
  <2>1. \A i \in 2 .. (n + 1) : i - 1 \in 1 .. n /\ g.list[i] = h.list[i - 1] /\ g.list[i] # obj
    <3> TAKE i \in 2 .. (n + 1)
    <3>1. i - 1 \in 1 .. n /\ i \in 2 .. (n + 2)
      <4>1. n \in Nat
        BY <1>2
      <4> QED
        BY <4>1
    <3>2. h.list[i - 1] \in Free(h)
      BY <3>1 DEF Free, n
    <3> QED
      BY <1>2, <1>4, <3>1, <3>2
  <2>2. CASE j = 1 \/ k = 1
    <3>1. \A i \in 1 .. (n + 1) : i = 1 \/ i \in 2 .. (n + 1)
      BY <1>2
    <3> QED
      BY <1>4, <2>1, <2>2, <3>1
  <2>3. CASE j # 1 /\ k # 1
    <3>1. j \in 2 .. (n + 1) /\ k \in 2 .. (n + 1)
      BY <1>2, <2>3
    <3>2. j - 1 = k - 1
      BY <2>1, <3>1 DEF Once, n
    <3> QED
      BY <3>1, <3>2
  <2> QED
    BY <2>2, <2>3
<1>8. Once(g, used \ {obj})
  <2>1. Free(h) \cap used = {} /\ Free(h) \cup used = 1 .. PerSlab[g.cache]
    BY <1>1 DEF Once
  <2>2. /\ Free(g) \cap (used \ {obj}) = {}
        /\ Free(g) \cup (used \ {obj}) = 1 .. PerSlab[g.cache]
    BY <1>2, <1>6, <2>1
  <2> QED
    BY <1>7, <2>2 DEF Once
<1> QED
  BY <1>1, <1>5, <1>8

\* The header slabinit writes: all objects are free.
LEMMA HeaderNew ==
    ASSUME NEW c \in Cache, NEW g, g = Fresh(c)
    PROVE  Header(g) /\ g.cache = c /\ g.freenum = PerSlab[c] /\ Once(g, {})
<1> DEFINE P == PerSlab[c]
<1>1. P \in Nat /\ P + 1 \in Nat
  BY PerSlabTyped
<1>2. /\ g.cache = c /\ g.freenum = P /\ g.list = Chain(c)
      /\ g = [cache |-> g.cache, list |-> g.list, freenum |-> g.freenum]
  BY DEF Fresh
<1>3. Chain(c) \in [1 .. (P + 1) -> 1 .. (P + 1)]
  BY DEF Chain
<1> HIDE DEF P
<1>4. Chain(c) \in Seq(1 .. (P + 1)) /\ Len(Chain(c)) = P + 1
  BY <1>1, <1>3, FunctionIsSeq
<1>5. \A k \in 1 .. P : Chain(c)[k] = k
  BY <1>1 DEF Chain, P
<1>6. Header(g)
  BY <1>1, <1>2, <1>4 DEF Header, P
<1>7. Free(g) = 1 .. P
  BY <1>2, <1>5 DEF Free
<1>8. Once(g, {})
  BY <1>2, <1>5, <1>7 DEF Once, P
<1> QED
  BY <1>2, <1>6, <1>8 DEF P

-----------------------------------------------------------------------------
(***************************************************************************)
(* The inductive invariant of the heap m, with the objects li, the large   *)
(* allocations la and the pages ra of kalloc's callers: the lists that the *)
(* links stand for, the headers, the list each slab is on, the one owner   *)
(* of each page, the one place of each object, the counts of empty slabs.  *)
(* In the middle of an operation slab s is on list z instead of its own,   *)
(* or, when z is Nowhere, on none.                                         *)
(***************************************************************************)
Nowhere == CHOOSE z : z \notin Key

Kind(c, n) ==
    IF n = 0 THEN "full" ELSE IF n = PerSlab[c] /\ n > 1 THEN "empty" ELSE "partial"
Home(h) == <<h.cache, Kind(h.cache, h.freenum)>>

Headers(sl) ==
    /\ sl = [s \in DOMAIN sl |-> sl[s]] /\ DOMAIN sl \subseteq Page
    /\ \A s \in DOMAIN sl : Header(sl[s])

Homes(sl, L, s, z) ==
    \A y \in Key, p \in Page :
        On(L, y, p) <=> p \in DOMAIN sl /\ y = IF p = s THEN z ELSE Home(sl[p])

Owned(m, F, li, la, ra) ==
    /\ li \subseteq Page \X Nat /\ la \subseteq Page /\ ra \subseteq Page
    /\ \A p \in Page :
          /\ In(F, p) \/ p \in DOMAIN m.slab \/ p \in la \/ p \in ra
          /\ In(F, p) => p \notin DOMAIN m.slab /\ p \notin la /\ p \notin ra
          /\ p \in DOMAIN m.slab => p \notin la /\ p \notin ra
          /\ p \in la => p \notin ra /\ m.word[p] = Magic
    /\ \A o \in li : o[1] \in DOMAIN m.slab

Used(li, s) == {o[2] : o \in {x \in li : x[1] = s}}

Handed(li, s, obj) == li \cup {<<s, obj>>}
Returned(li, s, obj) == li \ {<<s, obj>>}

Objects(sl, li) == \A s \in DOMAIN sl : Once(sl[s], Used(li, s))

Placed(m, F, L, li, la, ra, s, z) ==
    /\ Arranged(m, F, L) /\ Headers(m.slab) /\ Homes(m.slab, L, s, z)
    /\ Owned(m, F, li, la, ra) /\ Objects(m.slab, li)

Count(m, c) == m.cache[c].empty_slabs

Empties(m, L) ==
    \A c \in Cache : Count(m, c) = Len(L[<<c, "empty">>]) /\ Count(m, c) <= MaxEmpty

Good(m, F, L, li, la, ra) == Placed(m, F, L, li, la, ra, Null, Nowhere) /\ Empties(m, L)

Whole == \E F, L : Good(Heap, F, L, live, large, raw)

IInv == overrun \in BOOLEAN /\ IF overrun THEN SlabTypeOK ELSE Whole

SameCounts(r, m) == \A c \in Cache : Count(r, c) = Count(m, c)
Longer(M, L, x, d) ==
    \A y \in Key : Len(M[y]) = IF y = x THEN Len(L[y]) + d ELSE Len(L[y])

LEMMA NowhereTyped == Nowhere \notin Key
BY NoSetContainsEverything DEF Nowhere

\* A page of a slab is on the free list of no page and carries no mark.
LEMMA SlabPages ==
    ASSUME NEW m, NEW F, NEW L, NEW li, NEW la, NEW ra, NEW s, NEW z,
           Placed(m, F, L, li, la, ra, s, z)
    PROVE  /\ \A p \in DOMAIN m.slab : p \in Page /\ ~In(F, p) /\ p \notin la /\ p \notin ra
           /\ \A p \in Page : p \notin DOMAIN m.slab => ~OnAny(L, p)
           /\ \A p \in Page : OnAny(L, p) => m.word[p] # Magic
<1>1. \A p \in DOMAIN m.slab : p \in Page /\ ~In(F, p) /\ p \notin la /\ p \notin ra
  BY DEF Placed, Headers, Owned
<1>2. \A p \in Page : p \notin DOMAIN m.slab => ~OnAny(L, p)
  BY DEF Placed, Homes, OnAny
<1>3. ASSUME NEW p \in Page, NEW y \in Key, On(L, y, p)
      PROVE  m.word[p] # Magic
  <2>1. L[y] \in Seqs /\ Leads(m.word, HeadOf(m, y), L[y])
    BY DEF Placed, Arranged, Linked
  <2>2. PICK k \in 1 .. Len(L[y]) : L[y][k] = p
    BY <1>3 DEF On, In
  <2>3. m.word[p] = IF k = Len(L[y]) THEN Null ELSE L[y][k + 1]
    BY <2>1, <2>2 DEF Leads
  <2>4. k # Len(L[y]) => L[y][k + 1] \in Page
    BY <2>1 DEF Seqs
  <2> QED
    BY <2>3, <2>4, PageTyped
<1> QED
  BY <1>1, <1>2, <1>3 DEF OnAny

LEMMA LeavePlaced ==
    ASSUME NEW m, NEW F, NEW L, NEW li, NEW la, NEW ra, NEW s,
           NEW c \in Cache, NEW l \in List, NEW x, x = <<c, l>>,
           Placed(m, F, L, li, la, ra, s, x), s \in DOMAIN m.slab,
           NEW r, r = list_remove(m, c, l, s)
    PROVE  \E M : /\ Placed(r, F, M, li, la, ra, s, Nowhere)
                  /\ r.slab = m.slab /\ SameCounts(r, m) /\ Longer(M, L, x, -1)
<1>1. x \in Key /\ s \in Page
  BY SlabPages DEF Key
<1>2. On(L, x, s)
  BY <1>1 DEF Placed, Homes
<1>3. Arranged(m, F, L)
  BY DEF Placed
<1>4. PICK M : Removed(m, F, L, x, s, r, M)
  BY <1>2, <1>3, RemoveArranged
<1>5. /\ Arranged(r, F, M)
      /\ r.memlist = m.memlist /\ r.slab = m.slab
      /\ \A d \in Cache : r.cache[d].empty_slabs = m.cache[d].empty_slabs
      /\ \A p \in Page : ~OnAny(L, p) => r.word[p] = m.word[p] /\ r.prev[p] = m.prev[p]
      /\ \A y \in Key, p \in Page : On(M, y, p) <=> On(L, y, p) /\ p # s
      /\ \A y \in Key : Len(M[y]) = IF y = x THEN Len(L[x]) - 1 ELSE Len(L[y])
  BY <1>4 DEF Removed
<1>6. Homes(r.slab, M, s, Nowhere)
  BY <1>5, NowhereTyped DEF Placed, Homes
<1>7. Owned(r, F, li, la, ra)
  <2>1. \A p \in la : p \in Page /\ p \notin DOMAIN m.slab
    BY DEF Placed, Owned
  <2>2. \A p \in la : p \in Page /\ ~OnAny(L, p)
    BY <2>1, SlabPages
  <2>3. \A p \in la : r.word[p] = m.word[p]
    BY <1>5, <2>2
  <2> QED
    BY <1>5, <2>3 DEF Placed, Owned
<1>8. Placed(r, F, M, li, la, ra, s, Nowhere)
  BY <1>5, <1>6, <1>7 DEF Placed
<1>9. Longer(M, L, x, -1)
  <2>1. \A y \in Key : Len(L[y]) \in Nat
    BY <1>3 DEF Arranged, Seqs
  <2>2. ASSUME NEW y \in Key
        PROVE  Len(M[y]) = IF y = x THEN Len(L[y]) + -1 ELSE Len(L[y])
    <3>1. Len(L[y]) \in Nat
      BY <2>1
    <3>2. Len(M[y]) = IF y = x THEN Len(L[y]) - 1 ELSE Len(L[y])
      BY <1>5
    <3> QED
      BY <3>1, <3>2
  <2> QED
    BY <2>2 DEF Longer
<1> QED
  BY <1>5, <1>8, <1>9 DEF SameCounts, Count

LEMMA JoinPlaced ==
    ASSUME NEW m, NEW F, NEW L, NEW li, NEW la, NEW ra, NEW s,
           NEW c \in Cache, NEW l \in List, NEW x, x = <<c, l>>,
           Placed(m, F, L, li, la, ra, s, Nowhere), s \in DOMAIN m.slab,
           NEW r, r = list_insert(m, c, l, s)
    PROVE  \E M : /\ Placed(r, F, M, li, la, ra, s, x)
                  /\ r.slab = m.slab /\ SameCounts(r, m) /\ Longer(M, L, x, 1)
<1>1. x \in Key /\ s \in Page /\ ~In(F, s)
  BY SlabPages DEF Key
<1>2. ~OnAny(L, s)
  BY <1>1, NowhereTyped DEF Placed, Homes, OnAny
<1>3. Arranged(m, F, L)
  BY DEF Placed
<1>4. PICK M : Inserted(m, F, L, x, s, r, M)
  BY <1>1, <1>2, <1>3, InsertArranged
<1>5. /\ Arranged(r, F, M)
      /\ r.memlist = m.memlist /\ r.slab = m.slab
      /\ \A d \in Cache : r.cache[d].empty_slabs = m.cache[d].empty_slabs
      /\ \A p \in Page : p # s => r.word[p] = m.word[p]
      /\ \A y \in Key, p \in Page : On(M, y, p) <=> On(L, y, p) \/ (y = x /\ p = s)
      /\ \A y \in Key : Len(M[y]) = IF y = x THEN Len(L[x]) + 1 ELSE Len(L[y])
  BY <1>4 DEF Inserted
<1>6. Homes(r.slab, M, s, x)
  <2>1. Homes(m.slab, L, s, Nowhere)
    BY DEF Placed
  <2> QED
    BY <1>1, <1>5, <2>1, NowhereTyped DEF Homes
<1>7. Owned(r, F, li, la, ra)
  <2>1. \A p \in la : p \in Page /\ p # s
    BY SlabPages DEF Placed, Owned
  <2>2. \A p \in la : r.word[p] = m.word[p]
    BY <1>5, <2>1
  <2> QED
    BY <1>5, <2>2 DEF Placed, Owned
<1>8. Placed(r, F, M, li, la, ra, s, x)
  BY <1>5, <1>6, <1>7 DEF Placed
<1>9. Longer(M, L, x, 1)
  <2>1. \A y \in Key : Len(L[y]) \in Nat
    BY <1>3 DEF Arranged, Seqs
  <2>2. ASSUME NEW y \in Key
        PROVE  Len(M[y]) = IF y = x THEN Len(L[y]) + 1 ELSE Len(L[y])
    <3>1. Len(L[y]) \in Nat
      BY <2>1
    <3>2. Len(M[y]) = IF y = x THEN Len(L[y]) + 1 ELSE Len(L[y])
      BY <1>5
    <3> QED
      BY <3>1, <3>2
  <2> QED
    BY <2>2 DEF Longer
<1> QED
  BY <1>5, <1>8, <1>9 DEF SameCounts, Count

WithCount(m, c, n) == [m EXCEPT !.cache[c].empty_slabs = n]

Fewer(m, c) == WithCount(m, c, Count(m, c) - 1)
More(m, c) == WithCount(m, c, Count(m, c) + 1)

LEMMA CountPlaced ==
    ASSUME NEW m, NEW F, NEW L, NEW li, NEW la, NEW ra, NEW s, NEW z,
           Placed(m, F, L, li, la, ra, s, z), NEW c \in Cache, NEW n \in Int,
           NEW r, r = WithCount(m, c, n)
    PROVE  /\ Placed(r, F, L, li, la, ra, s, z) /\ r.slab = m.slab
           /\ \A d \in Cache : Count(r, d) = IF d = c THEN n ELSE Count(m, d)
<1>1. Arranged(m, F, L) /\ IsHeap(m)
  BY DEF Placed, Arranged
<1>2. PICK C : C = [m.cache EXCEPT ![c].empty_slabs = n]
  OBVIOUS
<1>3. r = [memlist |-> m.memlist, word |-> m.word, prev |-> m.prev, slab |-> m.slab,
           cache |-> C]
  <2>1. m = [memlist |-> m.memlist, word |-> m.word, prev |-> m.prev, slab |-> m.slab,
             cache |-> m.cache]
    BY <1>1 DEF IsHeap
  <2> QED
    BY <1>2, <2>1 DEF WithCount
<1>4. m.cache \in [Cache -> CacheType]
  BY <1>1 DEF IsHeap
<1>5. /\ C \in [Cache -> CacheType]
      /\ \A d \in Cache : /\ C[d].head = m.cache[d].head
                          /\ C[d].empty_slabs = IF d = c THEN n ELSE m.cache[d].empty_slabs
  BY <1>2, <1>4 DEF CacheType
<1>6. /\ r.memlist = m.memlist /\ r.word = m.word /\ r.prev = m.prev /\ r.slab = m.slab
      /\ r.cache = C
  BY <1>3
<1>7. IsHeap(r)
  BY <1>1, <1>3, <1>5, <1>6 DEF IsHeap
<1>8. Arranged(r, F, L)
  BY <1>1, <1>5, <1>6, <1>7, SameLists
<1>9. Placed(r, F, L, li, la, ra, s, z)
  BY <1>6, <1>8 DEF Placed, Owned
<1> QED
  BY <1>5, <1>6, <1>9 DEF Count

LEMMA FewerPlaced ==
    ASSUME NEW m, NEW F, NEW L, NEW li, NEW la, NEW ra, NEW s, NEW z, NEW M,
           Placed(m, F, M, li, la, ra, s, z), NEW c \in Cache,
           NEW r, r = Fewer(m, c), Longer(M, L, <<c, "empty">>, -1),
           \A d \in Cache : Count(m, d) = Len(L[<<d, "empty">>])
    PROVE  /\ Placed(r, F, M, li, la, ra, s, z) /\ r.slab = m.slab
           /\ \A d \in Cache : Count(r, d) = Len(M[<<d, "empty">>])
           /\ \A d \in Cache : d # c => Count(r, d) = Count(m, d)
           /\ Count(r, c) \in Int /\ Count(r, c) + 1 = Count(m, c)
<1>1. PICK n, k : n = Count(m, c) - 1 /\ k = Count(m, c)
  OBVIOUS
<1>2. k \in Int
  <2>1. m.cache \in [Cache -> CacheType]
    BY DEF Placed, Arranged, IsHeap
  <2> QED
    BY <1>1, <2>1 DEF CacheType, Count
<1>3. n = k - 1 /\ n \in Int /\ r = WithCount(m, c, n)
  BY <1>1, <1>2 DEF Fewer
<1>4. /\ Placed(r, F, M, li, la, ra, s, z) /\ r.slab = m.slab
      /\ \A d \in Cache : Count(r, d) = IF d = c THEN n ELSE Count(m, d)
  <2>1. Placed(m, F, M, li, la, ra, s, z) /\ c \in Cache
    OBVIOUS
  <2> QED
    BY ONLY <1>3, <2>1, CountPlaced
<1>5. ASSUME NEW d \in Cache
      PROVE  Count(r, d) = Len(M[<<d, "empty">>])
  <2>1. <<d, "empty">> \in Key /\ (<<d, "empty">> = <<c, "empty">> <=> d = c)
    BY DEF Key, List
  <2>2. CASE d = c
    <3>1. Len(M[<<d, "empty">>]) = Len(L[<<d, "empty">>]) + -1
      BY <2>1, <2>2 DEF Longer
    <3>2. Len(L[<<d, "empty">>]) = k
      BY <1>1, <2>2
    <3>3. k + -1 = n
      BY <1>2, <1>3
    <3> QED
      BY <1>4, <2>2, <3>1, <3>2, <3>3
  <2>3. CASE d # c
    BY <1>4, <2>1, <2>3 DEF Longer
  <2> QED
    BY <2>2, <2>3
<1>6. Count(r, c) = n /\ n + 1 = k
  BY <1>2, <1>3, <1>4
<1> QED
  BY <1>1, <1>3, <1>4, <1>5, <1>6

LEMMA MorePlaced ==
    ASSUME NEW m, NEW F, NEW L, NEW li, NEW la, NEW ra, NEW s, NEW z, NEW M,
           Placed(m, F, M, li, la, ra, s, z), NEW c \in Cache,
           NEW r, r = More(m, c), Longer(M, L, <<c, "empty">>, 1),
           \A d \in Cache : Count(m, d) = Len(L[<<d, "empty">>])
    PROVE  /\ Placed(r, F, M, li, la, ra, s, z) /\ r.slab = m.slab
           /\ \A d \in Cache : Count(r, d) = Len(M[<<d, "empty">>])
           /\ \A d \in Cache : d # c => Count(r, d) = Count(m, d)
           /\ Count(m, c) \in Int /\ Count(r, c) = Count(m, c) + 1
<1>1. PICK n, k : n = Count(m, c) + 1 /\ k = Count(m, c)
  OBVIOUS
<1>2. k \in Int
  <2>1. m.cache \in [Cache -> CacheType]
    BY DEF Placed, Arranged, IsHeap
  <2> QED
    BY <1>1, <2>1 DEF CacheType, Count
<1>3. n = k + 1 /\ n \in Int /\ r = WithCount(m, c, n)
  BY <1>1, <1>2 DEF More
<1>4. /\ Placed(r, F, M, li, la, ra, s, z) /\ r.slab = m.slab
      /\ \A d \in Cache : Count(r, d) = IF d = c THEN n ELSE Count(m, d)
  <2>1. Placed(m, F, M, li, la, ra, s, z) /\ c \in Cache
    OBVIOUS
  <2> QED
    BY ONLY <1>3, <2>1, CountPlaced
<1>5. ASSUME NEW d \in Cache
      PROVE  Count(r, d) = Len(M[<<d, "empty">>])
  <2>1. <<d, "empty">> \in Key /\ (<<d, "empty">> = <<c, "empty">> <=> d = c)
    BY DEF Key, List
  <2>2. CASE d = c
    <3>1. Len(M[<<d, "empty">>]) = Len(L[<<d, "empty">>]) + 1
      BY <2>1, <2>2 DEF Longer
    <3>2. Len(L[<<d, "empty">>]) = k
      BY <1>1, <2>2
    <3> QED
      BY <1>3, <1>4, <2>2, <3>1, <3>2
  <2>3. CASE d # c
    BY <1>4, <2>1, <2>3 DEF Longer
  <2> QED
    BY <2>2, <2>3
<1> QED
  BY <1>1, <1>2, <1>3, <1>4, <1>5

LEMMA SettlePlaced ==
    ASSUME NEW m, NEW F, NEW L, NEW li, NEW la, NEW ra, NEW s, NEW z,
           Placed(m, F, L, li, la, ra, s, z), s \in DOMAIN m.slab, z = Home(m.slab[s])
    PROVE  Placed(m, F, L, li, la, ra, Null, Nowhere)
<1>1. Homes(m.slab, L, Null, Nowhere)
  <2>1. Homes(m.slab, L, s, z)
    BY DEF Placed
  <2>2. \A p \in Page : p # Null
    BY PageTyped
  <2> QED
    BY <2>1, <2>2 DEF Homes
<1> QED
  BY <1>1 DEF Placed

LEMMA EmptiesKept ==
    ASSUME NEW m, NEW L, Empties(m, L), NEW r, SameCounts(r, m), NEW M, NEW c, NEW l, NEW d,
           Longer(M, L, <<c, l>>, d), l # "empty"
    PROVE  Empties(r, M)
<1>1. ASSUME NEW e \in Cache
      PROVE  Len(M[<<e, "empty">>]) = Len(L[<<e, "empty">>])
  <2>1. <<e, "empty">> \in Key /\ <<e, "empty">> # <<c, l>>
    BY DEF Key, List
  <2> QED
    BY <2>1 DEF Longer
<1> QED
  BY <1>1 DEF Empties, SameCounts

LEMMA UsedAdded ==
    ASSUME NEW li, NEW s, NEW obj, NEW lj, lj = Handed(li, s, obj)
    PROVE  /\ Used(lj, s) = Used(li, s) \cup {obj}
           /\ \A p : p # s => Used(lj, p) = Used(li, p)
<1>1. <<s, obj>>[1] = s /\ <<s, obj>>[2] = obj
  OBVIOUS
<1>2. {x \in lj : x[1] = s} = {x \in li : x[1] = s} \cup {<<s, obj>>}
  BY <1>1 DEF Handed
<1>3. Used(lj, s) = Used(li, s) \cup {obj}
  BY <1>1, <1>2 DEF Used
<1>4. ASSUME NEW p, p # s
      PROVE  Used(lj, p) = Used(li, p)
  <2>1. {x \in lj : x[1] = p} = {x \in li : x[1] = p}
    BY <1>1, <1>4 DEF Handed
  <2> QED
    BY <2>1 DEF Used
<1> QED
  BY <1>3, <1>4

LEMMA UsedRemoved ==
    ASSUME NEW li \in SUBSET (Page \X Nat), NEW s, NEW obj, NEW lj, lj = Returned(li, s, obj)
    PROVE  /\ Used(lj, s) = Used(li, s) \ {obj}
           /\ \A p : p # s => Used(lj, p) = Used(li, p)
<1>1. \A o \in li : o = <<o[1], o[2]>>
  OBVIOUS
<1>2. \A o \in li : o \in lj <=> ~(o[1] = s /\ o[2] = obj)
  BY <1>1 DEF Returned
<1>3. lj \subseteq li
  BY DEF Returned
<1>4. Used(lj, s) = Used(li, s) \ {obj}
  BY <1>2, <1>3 DEF Used
<1>5. ASSUME NEW p, p # s
      PROVE  Used(lj, p) = Used(li, p)
  BY <1>2, <1>3, <1>5 DEF Used
<1> QED
  BY <1>4, <1>5

WithHeader(m, s, g) ==
    [memlist |-> m.memlist, word |-> m.word, prev |-> m.prev,
     slab |-> [m.slab EXCEPT ![s] = g], cache |-> m.cache]

\* Slab s gets header g, and lj is what is handed out then.
LEMMA HeaderPlaced ==
    ASSUME NEW m, NEW F, NEW L, NEW li, NEW la, NEW ra, NEW s, NEW z,
           Placed(m, F, L, li, la, ra, s, z), s \in DOMAIN m.slab,
           NEW g, Header(g), NEW lj, lj \subseteq Page \X Nat, Once(g, Used(lj, s)),
           \A o \in lj : o[1] \in DOMAIN m.slab, \A p : p # s => Used(lj, p) = Used(li, p),
           NEW r, r = WithHeader(m, s, g)
    PROVE  /\ Placed(r, F, L, lj, la, ra, s, z)
           /\ SameCounts(r, m) /\ r.slab[s] = g /\ DOMAIN r.slab = DOMAIN m.slab
<1>1. PICK sl : /\ r.memlist = m.memlist /\ r.word = m.word /\ r.prev = m.prev /\ r.slab = sl
                /\ r.cache = m.cache /\ sl = [m.slab EXCEPT ![s] = g]
                /\ r = [memlist |-> r.memlist, word |-> r.word, prev |-> r.prev,
                        slab |-> r.slab, cache |-> r.cache]
  BY DEF WithHeader
<1>2. Headers(m.slab) /\ Homes(m.slab, L, s, z) /\ Owned(m, F, li, la, ra)
      /\ Objects(m.slab, li) /\ Arranged(m, F, L) /\ IsHeap(m)
  BY DEF Placed, Arranged
<1>3. DOMAIN sl = DOMAIN m.slab /\ sl = [p \in DOMAIN sl |-> sl[p]]
  BY <1>1, <1>2 DEF Headers
<1>4. sl[s] = g /\ \A p \in DOMAIN sl : p # s => sl[p] = m.slab[p]
  BY <1>1, <1>2 DEF Headers
<1>5. Headers(sl)
  BY <1>2, <1>3, <1>4 DEF Headers
<1>6. Homes(sl, L, s, z)
  BY <1>2, <1>3, <1>4 DEF Homes
<1>7. Objects(sl, lj)
  BY <1>2, <1>3, <1>4 DEF Objects
<1>8. Owned(r, F, lj, la, ra)
  BY <1>1, <1>2, <1>3 DEF Owned
<1>9. IsHeap(r)
  BY <1>1, <1>2 DEF IsHeap
<1>10. Arranged(r, F, L)
  BY <1>1, <1>2, <1>9, SameLists
<1> QED
  BY <1>1, <1>3, <1>4, <1>5, <1>6, <1>7, <1>8, <1>10 DEF Placed, SameCounts, Count

\* The head of a list is a slab that belongs on it.
LEMMA HeadPlaced ==
    ASSUME NEW m, NEW F, NEW L, NEW li, NEW la, NEW ra,
           Placed(m, F, L, li, la, ra, Null, Nowhere),
           NEW c \in Cache, NEW l \in List, NEW x, x = <<c, l>>,
           NEW s, s = m.cache[c].head[l], s # Null
    PROVE  /\ Placed(m, F, L, li, la, ra, s, x)
           /\ s \in DOMAIN m.slab /\ m.slab[s].cache = c /\ Kind(c, m.slab[s].freenum) = l
<1>1. x \in Key /\ HeadOf(m, x) = s
  BY DEF Key, HeadOf
<1>2. L[x] \in Seqs /\ Leads(m.word, s, L[x])
  BY <1>1 DEF Placed, Arranged, Linked
<1>3. Len(L[x]) \in Nat /\ Len(L[x]) # 0 /\ s = L[x][1]
  BY <1>2 DEF Leads, Seqs
<1>4. 1 \in 1 .. Len(L[x])
  BY <1>3
<1>5. s \in Page /\ On(L, x, s)
  BY <1>2, <1>3, <1>4 DEF On, In, Seqs
<1>6. Homes(m.slab, L, Null, Nowhere)
  BY DEF Placed
<1>7. s \in DOMAIN m.slab /\ x = Home(m.slab[s])
  BY <1>1, <1>5, <1>6, PageTyped DEF Homes
<1>8. Homes(m.slab, L, s, x)
  BY <1>6, <1>7, PageTyped DEF Homes
<1>9. Placed(m, F, L, li, la, ra, s, x)
  BY <1>8 DEF Placed
<1>10. m.slab[s].cache = c /\ Kind(c, m.slab[s].freenum) = l
  BY <1>7 DEF Home
<1> QED
  BY <1>7, <1>9, <1>10

-----------------------------------------------------------------------------
(***************************************************************************)
(* The operations preserve the invariant.                                  *)
(***************************************************************************)
PopObject(m, s) == [m EXCEPT !.slab[s].list = Tail(@), !.slab[s].freenum = @ - 1]

Taken(m, c, s) ==
    IF Exhausted(PopObject(m, s).slab[s].freenum)
    THEN list_insert(list_remove(PopObject(m, s), c, "partial", s), c, "full", s)
    ELSE PopObject(m, s)

LEMMA PopEffect ==
    ASSUME NEW m, IsHeap(m), Headers(m.slab), NEW s \in DOMAIN m.slab
    PROVE  PopObject(m, s) = WithHeader(m, s, Popped(m.slab[s]))
<1>1. PICK h, b, sl : /\ h = m.slab[s] /\ b = m.slab
                      /\ sl = [b EXCEPT ![s] = Popped(h)]
  OBVIOUS
<1>2. m = [memlist |-> m.memlist, word |-> m.word, prev |-> m.prev, slab |-> b,
           cache |-> m.cache]
  BY <1>1 DEF IsHeap
<1>3. h = [cache |-> h.cache, list |-> h.list, freenum |-> h.freenum]
  BY <1>1 DEF Headers, Header
<1>4. b = [p \in DOMAIN b |-> b[p]] /\ s \in DOMAIN b /\ h = b[s]
  BY <1>1 DEF Headers
<1>5. [b EXCEPT ![s].list = Tail(@), ![s].freenum = @ - 1] = sl
  <2>1. [b EXCEPT ![s].list = Tail(@)] = [b EXCEPT ![s] = [h EXCEPT !.list = Tail(h.list)]]
    BY ONLY <1>3, <1>4
  <2> QED
    BY ONLY <1>1, <1>3, <1>4, <2>1 DEF Popped
<1>6. [m EXCEPT !.slab[s].list = Tail(@), !.slab[s].freenum = @ - 1]
         = [memlist |-> m.memlist, word |-> m.word, prev |-> m.prev, slab |-> sl,
            cache |-> m.cache]
  <2>1. PICK d : d = [b EXCEPT ![s].list = Tail(@), ![s].freenum = @ - 1]
    OBVIOUS
  <2>2. m.slab = b
    BY <1>1
  <2>3. [m EXCEPT !.slab[s].list = Tail(@), !.slab[s].freenum = @ - 1] = [m EXCEPT !.slab = d]
    BY ONLY <1>2, <1>4, <2>1, <2>2
  <2>4. d = sl
    BY <1>5, <2>1
  <2> QED
    BY ONLY <1>2, <2>3, <2>4
<1> QED
  BY <1>1, <1>6 DEF PopObject, WithHeader

LEMMA TakenGood ==
    ASSUME NEW m, NEW F, NEW L, NEW li, NEW la, NEW ra, NEW s,
           NEW c \in Cache, Placed(m, F, L, li, la, ra, s, <<c, "partial">>), Empties(m, L),
           s \in DOMAIN m.slab, m.slab[s].cache = c, m.slab[s].freenum > 0,
           NEW obj, obj = Head(m.slab[s].list),
           NEW r, r = Taken(m, c, s), NEW lj, lj = Handed(li, s, obj)
    PROVE  \E M : Good(r, F, M, lj, la, ra) /\ IsHeap(r)
<1>1. PICK h, g, x, y : /\ h = m.slab[s] /\ x = <<c, "partial">> /\ y = <<c, "full">>
                        /\ g = Popped(h)
  OBVIOUS
<1>2. Header(h) /\ Once(h, Used(li, s)) /\ h.freenum > 0 /\ h.cache = c /\ s \in Page
  BY <1>1, SlabPages DEF Placed, Headers, Objects
<1>3. /\ Header(g) /\ g.cache = c /\ g.freenum = h.freenum - 1
      /\ obj \in 1 .. PerSlab[c] /\ Once(g, Used(li, s) \cup {obj})
  <2>1. obj = Head(h.list)
    BY <1>1
  <2>2. PICK used : used = Used(li, s)
    OBVIOUS
  <2>3. Header(h) /\ Once(h, used) /\ h.freenum > 0 /\ g = Popped(h)
    BY <1>1, <1>2, <2>2
  <2>4. /\ Header(g) /\ g.cache = h.cache /\ g.freenum = h.freenum - 1
        /\ Head(h.list) \in 1 .. PerSlab[h.cache] /\ Once(g, used \cup {Head(h.list)})
    BY <2>3, HeaderTaken
  <2> QED
    BY <1>2, <2>1, <2>2, <2>4
<1>4. PICK m1 : m1 = PopObject(m, s)
  OBVIOUS
<1>5. m1 = WithHeader(m, s, g)
  BY <1>1, <1>4, PopEffect DEF Placed, Arranged
<1>6. /\ Placed(m1, F, L, lj, la, ra, s, x) /\ SameCounts(m1, m)
      /\ m1.slab[s] = g /\ DOMAIN m1.slab = DOMAIN m.slab
  <2>1. /\ Used(lj, s) = Used(li, s) \cup {obj} /\ \A p : p # s => Used(lj, p) = Used(li, p)
    BY UsedAdded
  <2>2. lj \subseteq Page \X Nat /\ \A o \in lj : o[1] \in DOMAIN m.slab
    <3>1. li \subseteq Page \X Nat /\ \A o \in li : o[1] \in DOMAIN m.slab
      BY DEF Placed, Owned
    <3>2. obj \in Nat /\ <<s, obj>>[1] = s
      BY <1>3, PerSlabTyped
    <3> QED
      BY <1>2, <3>1, <3>2 DEF Handed
  <2>3. Once(g, Used(lj, s))
    BY <1>3, <2>1
  <2>4. Placed(m, F, L, li, la, ra, s, x)
    BY <1>1
  <2> QED
    BY <1>3, <1>5, <2>1, <2>2, <2>3, <2>4, HeaderPlaced
<1>7. r = IF h.freenum = 1 THEN list_insert(list_remove(m1, c, "partial", s), c, "full", s)
          ELSE m1
  <2>1. r = IF Exhausted(g.freenum)
            THEN list_insert(list_remove(m1, c, "partial", s), c, "full", s) ELSE m1
    BY <1>4, <1>6 DEF Taken
  <2>2. h.freenum \in Nat
    BY <1>2, PerSlabTyped DEF Header
  <2> QED
    BY <1>3, <2>1, <2>2 DEF Exhausted
<1>8. PerSlab[c] \in Nat /\ h.freenum \in 1 .. PerSlab[c]
  BY <1>2, PerSlabTyped DEF Header
<1>9. CASE h.freenum = 1
  <2>1. PICK m2, N : /\ m2 = list_remove(m1, c, "partial", s)
                     /\ Placed(m2, F, N, lj, la, ra, s, Nowhere)
                     /\ m2.slab = m1.slab /\ SameCounts(m2, m1) /\ Longer(N, L, x, -1)
    <3>1. "partial" \in List /\ s \in DOMAIN m1.slab
      BY <1>6 DEF List
    <3>2. \E N : /\ Placed(list_remove(m1, c, "partial", s), F, N, lj, la, ra, s, Nowhere)
                 /\ list_remove(m1, c, "partial", s).slab = m1.slab
                 /\ SameCounts(list_remove(m1, c, "partial", s), m1) /\ Longer(N, L, x, -1)
      BY <1>1, <1>6, <3>1, LeavePlaced
    <3> QED
      BY <3>2
  <2>2. PICK M : /\ Placed(r, F, M, lj, la, ra, s, y)
                 /\ r.slab = m2.slab /\ SameCounts(r, m2) /\ Longer(M, N, y, 1)
    <3>1. "full" \in List /\ s \in DOMAIN m2.slab /\ r = list_insert(m2, c, "full", s)
      BY <1>6, <1>7, <1>9, <2>1 DEF List
    <3> QED
      BY <1>1, <2>1, <3>1, JoinPlaced
  <2>3. Home(r.slab[s]) = y
    <3>1. r.slab[s] = g /\ g.freenum = 0
      BY <1>3, <1>6, <1>9, <2>1, <2>2
    <3>2. Kind(c, 0) = "full"
      BY DEF Kind
    <3> QED
      BY <1>1, <1>3, <3>1, <3>2 DEF Home
  <2>4. Placed(r, F, M, lj, la, ra, Null, Nowhere)
    BY <1>6, <2>1, <2>2, <2>3, SettlePlaced
  <2>5. Empties(m2, N)
    <3>1. SameCounts(m2, m)
      BY <1>6, <2>1 DEF SameCounts
    <3>2. Longer(N, L, <<c, "partial">>, -1)
      BY <1>1, <2>1
    <3> QED
      BY <3>1, <3>2, EmptiesKept
  <2>6. Empties(r, M)
    BY <1>1, <2>2, <2>5, EmptiesKept
  <2> QED
    BY <2>4, <2>6 DEF Good, Placed, Arranged
<1>10. CASE h.freenum # 1
  <2>1. Home(m1.slab[s]) = x
    BY <1>1, <1>3, <1>6, <1>8, <1>10 DEF Home, Kind
  <2>2. Placed(r, F, L, lj, la, ra, Null, Nowhere)
    BY <1>6, <1>7, <1>10, <2>1, SettlePlaced
  <2>3. Empties(r, L)
    BY <1>6, <1>7, <1>10 DEF Empties, SameCounts
  <2> QED
    BY <2>2, <2>3 DEF Good, Placed, Arranged
<1> QED
  BY <1>9, <1>10

LEMMA SlabCounted ==
    ASSUME NEW m, NEW F, NEW L, NEW li, NEW la, NEW ra, NEW s, NEW z,
           Placed(m, F, L, li, la, ra, s, z), NEW p \in DOMAIN m.slab
    PROVE  /\ Header(m.slab[p]) /\ m.slab[p].cache \in Cache
           /\ PerSlab[m.slab[p].cache] \in Nat /\ PerSlab[m.slab[p].cache] # 0
           /\ m.slab[p].freenum \in 0 .. PerSlab[m.slab[p].cache]
           /\ m.slab[p].freenum \in Nat
<1>1. Header(m.slab[p])
  BY DEF Placed, Headers
<1> QED
  BY <1>1, PerSlabTyped DEF Header

LEMMA KindTells ==
    ASSUME NEW c, NEW n \in Nat
    PROVE  /\ Kind(c, n) = "full" => n = 0
           /\ Kind(c, n) = "partial" => n > 0
           /\ Kind(c, n) = "empty" => n = PerSlab[c] /\ n > 1
BY DEF Kind

\* The first slab of a list.
First(m, c, l) == m.cache[c].head[l]

LEMMA AllocPartialGood ==
    ASSUME NEW m, NEW F, NEW L, NEW li, NEW la, NEW ra, Good(m, F, L, li, la, ra),
           NEW c \in Cache, NEW s, s = First(m, c, "partial"), s # Null,
           NEW r, r = Taken(m, c, s), NEW lj, lj = Handed(li, s, Head(m.slab[s].list))
    PROVE  \E G, M : Good(r, G, M, lj, la, ra) /\ IsHeap(r)
<1>1. Placed(m, F, L, li, la, ra, Null, Nowhere) /\ Empties(m, L) /\ "partial" \in List
  BY DEF Good, List
<1>2. /\ Placed(m, F, L, li, la, ra, s, <<c, "partial">>)
      /\ s \in DOMAIN m.slab /\ m.slab[s].cache = c /\ Kind(c, m.slab[s].freenum) = "partial"
  <2>1. PICK x : x = <<c, "partial">>
    OBVIOUS
  <2>2. s = m.cache[c].head["partial"] /\ s # Null /\ c \in Cache
    BY DEF First
  <2>3. /\ Placed(m, F, L, li, la, ra, s, x)
        /\ s \in DOMAIN m.slab /\ m.slab[s].cache = c /\ Kind(c, m.slab[s].freenum) = "partial"
    BY ONLY <1>1, <2>1, <2>2, HeadPlaced
  <2> QED
    BY ONLY <2>1, <2>3
<1>3. m.slab[s].freenum > 0
  <2>1. PICK n : n = m.slab[s].freenum
    OBVIOUS
  <2>2. n \in Nat
    BY <1>2, <2>1, SlabCounted
  <2>3. n > 0
    BY <1>2, <2>1, <2>2, KindTells
  <2> QED
    BY <2>1, <2>3
<1> QED
  BY <1>1, <1>2, <1>3, TakenGood

\* A slab is taken off the list of empty ones.
LEMMA EmptyLeaves ==
    ASSUME NEW m, NEW F, NEW L, NEW li, NEW la, NEW ra,
           Placed(m, F, L, li, la, ra, Null, Nowhere),
           \A d \in Cache : Count(m, d) = Len(L[<<d, "empty">>]),
           NEW c \in Cache, NEW s, s = m.cache[c].head["empty"], s # Null,
           NEW r, r = Fewer(list_remove(m, c, "empty", s), c)
    PROVE  /\ \E M : /\ Placed(r, F, M, li, la, ra, s, Nowhere)
                     /\ \A d \in Cache : Count(r, d) = Len(M[<<d, "empty">>])
           /\ r.slab = m.slab /\ s \in DOMAIN m.slab /\ m.slab[s].cache = c
           /\ m.slab[s].freenum = PerSlab[c] /\ PerSlab[c] > 1
           /\ \A d \in Cache : d # c => Count(r, d) = Count(m, d)
           /\ Count(r, c) \in Int /\ Count(r, c) + 1 = Count(m, c)
<1>1. PICK x, l : x = <<c, l>> /\ l \in List /\ l = "empty"
  BY DEF List
<1>2. /\ Placed(m, F, L, li, la, ra, s, x)
      /\ s \in DOMAIN m.slab /\ m.slab[s].cache = c /\ Kind(c, m.slab[s].freenum) = l
  BY <1>1, HeadPlaced
<1>3. PICK m1, M : /\ m1 = list_remove(m, c, l, s)
                   /\ Placed(m1, F, M, li, la, ra, s, Nowhere) /\ m1.slab = m.slab
                   /\ SameCounts(m1, m) /\ Longer(M, L, x, -1)
  <2>1. c \in Cache
    OBVIOUS
  <2>2. \E M : /\ Placed(list_remove(m, c, l, s), F, M, li, la, ra, s, Nowhere)
               /\ list_remove(m, c, l, s).slab = m.slab
               /\ SameCounts(list_remove(m, c, l, s), m) /\ Longer(M, L, x, -1)
    BY ONLY <1>1, <1>2, <2>1, LeavePlaced
  <2> QED
    BY <2>2
<1>4. /\ r = Fewer(m1, c) /\ Longer(M, L, <<c, "empty">>, -1)
      /\ \A d \in Cache : Count(m1, d) = Len(L[<<d, "empty">>]) /\ Count(m1, d) = Count(m, d)
  BY <1>1, <1>3 DEF SameCounts
<1>5. /\ Placed(r, F, M, li, la, ra, s, Nowhere) /\ r.slab = m1.slab
      /\ \A d \in Cache : Count(r, d) = Len(M[<<d, "empty">>])
      /\ \A d \in Cache : d # c => Count(r, d) = Count(m1, d)
      /\ Count(r, c) \in Int /\ Count(r, c) + 1 = Count(m1, c)
  <2>1. c \in Cache
    OBVIOUS
  <2> QED
    BY ONLY <1>3, <1>4, <2>1, FewerPlaced
<1>6. m.slab[s].freenum = PerSlab[c] /\ PerSlab[c] > 1
  <2>1. PICK n : n = m.slab[s].freenum
    OBVIOUS
  <2>2. n \in Nat
    BY <1>2, <2>1, SlabCounted
  <2>3. n > 1 /\ n = PerSlab[c]
    BY <1>1, <1>2, <2>1, <2>2, KindTells
  <2> QED
    BY <2>1, <2>3
<1> QED
  BY <1>2, <1>3, <1>4, <1>5, <1>6

\* A slab with a free object that is on no list gives it, as first of the partial list.
LEMMA JoinedGood ==
    ASSUME NEW m, NEW F, NEW L, NEW li, NEW la, NEW ra, NEW s,
           Placed(m, F, L, li, la, ra, s, Nowhere), Empties(m, L),
           NEW c \in Cache, s \in DOMAIN m.slab, m.slab[s].cache = c, m.slab[s].freenum > 0,
           NEW m1, m1 = list_insert(m, c, "partial", s),
           NEW r, r = Taken(m1, c, s), NEW lj, lj = Handed(li, s, Head(m1.slab[s].list))
    PROVE  \E M : Good(r, F, M, lj, la, ra) /\ IsHeap(r)
<1>1. PICK x, l : x = <<c, l>> /\ l \in List /\ l = "partial"
  BY DEF List
<1>2. PICK M : /\ Placed(m1, F, M, li, la, ra, s, x) /\ m1.slab = m.slab
               /\ SameCounts(m1, m) /\ Longer(M, L, x, 1)
  <2>1. /\ c \in Cache /\ m1 = list_insert(m, c, l, s) /\ s \in DOMAIN m.slab
        /\ Placed(m, F, L, li, la, ra, s, Nowhere)
    BY <1>1
  <2> QED
    BY ONLY <1>1, <2>1, JoinPlaced
<1>3. Empties(m1, M)
  BY <1>1, <1>2, EmptiesKept
<1>4. /\ Placed(m1, F, M, li, la, ra, s, <<c, "partial">>)
      /\ s \in DOMAIN m1.slab /\ m1.slab[s].cache = c /\ m1.slab[s].freenum > 0
  BY <1>1, <1>2
<1> QED
  BY <1>3, <1>4, TakenGood

LEMMA AllocEmptyGood ==
    ASSUME NEW m, NEW F, NEW L, NEW li, NEW la, NEW ra, Good(m, F, L, li, la, ra),
           NEW c \in Cache, NEW s, s = First(m, c, "empty"), s # Null,
           NEW m1, m1 = list_insert(Fewer(list_remove(m, c, "empty", s), c), c, "partial", s),
           NEW r, r = Taken(m1, c, s), NEW lj, lj = Handed(li, s, Head(m1.slab[s].list))
    PROVE  \E G, M : Good(r, G, M, lj, la, ra) /\ IsHeap(r)
<1>1. /\ Placed(m, F, L, li, la, ra, Null, Nowhere)
      /\ \A d \in Cache : Count(m, d) = Len(L[<<d, "empty">>]) /\ Count(m, d) <= MaxEmpty
  BY DEF Good, Empties
<1>2. PICK m2 : m2 = Fewer(list_remove(m, c, "empty", s), c)
  OBVIOUS
<1>3. /\ \E M : /\ Placed(m2, F, M, li, la, ra, s, Nowhere)
                /\ \A d \in Cache : Count(m2, d) = Len(M[<<d, "empty">>])
      /\ m2.slab = m.slab /\ s \in DOMAIN m.slab /\ m.slab[s].cache = c
      /\ m.slab[s].freenum = PerSlab[c] /\ PerSlab[c] > 1
      /\ \A d \in Cache : d # c => Count(m2, d) = Count(m, d)
      /\ Count(m2, c) \in Int /\ Count(m2, c) + 1 = Count(m, c)
  <2>1. c \in Cache /\ s = m.cache[c].head["empty"] /\ s # Null
    BY DEF First
  <2> QED
    BY ONLY <1>1, <1>2, <2>1, EmptyLeaves
<1>4. PICK M : /\ Placed(m2, F, M, li, la, ra, s, Nowhere)
               /\ \A d \in Cache : Count(m2, d) = Len(M[<<d, "empty">>])
  BY <1>3
<1>5. Empties(m2, M)
  <2>1. Count(m2, c) <= MaxEmpty
    <3>1. PICK n, k : n = Count(m2, c) /\ k = Count(m, c)
      OBVIOUS
    <3>2. n \in Int /\ n + 1 = k /\ k <= MaxEmpty /\ MaxEmpty \in Int
      <4>1. c \in Cache /\ MaxEmpty \in Int
        BY MaxEmptyAssumption
      <4>2. Count(m, c) <= MaxEmpty
        BY ONLY <1>1, <4>1
      <4>3. Count(m2, c) \in Int /\ Count(m2, c) + 1 = Count(m, c)
        BY ONLY <1>3
      <4> QED
        BY ONLY <3>1, <4>1, <4>2, <4>3
    <3>3. n <= MaxEmpty
      BY ONLY <3>2
    <3> QED
      BY <3>1, <3>3
  <2> QED
    BY <1>1, <1>3, <1>4, <2>1 DEF Empties
<1>6. m2.slab[s].freenum > 0
  <2>1. PICK n : n = PerSlab[c] /\ n \in Nat /\ n > 1
    BY <1>3, PerSlabTyped
  <2>2. n > 0
    BY ONLY <2>1
  <2> QED
    BY <1>3, <2>1, <2>2
<1> QED
  BY <1>2, <1>3, <1>4, <1>5, <1>6, JoinedGood

\* A new page becomes a slab that is on no list yet, unless it overruns its page.
LEMMA SlabinitPlaced ==
    ASSUME NEW m, NEW F, NEW L, NEW li, NEW la, NEW ra,
           Placed(m, F, L, li, la, ra, Null, Nowhere),
           NEW c \in Cache, NEW s, s = m.memlist, s # Null,
           c \in Exact => m.word[s + 1] = Null,
           NEW r, r = slabinit(kalloc(m), c, s)
    PROVE  /\ \E G : Placed(r, G, L, li, la, ra, s, Nowhere)
           /\ SameCounts(r, m) /\ s \in DOMAIN r.slab /\ r.slab[s] = Fresh(c)
<1>1. PICK m1, G : m1 = kalloc(m) /\ G = Without(F, 1)
  OBVIOUS
<1>2. /\ Arranged(m, F, L) /\ Headers(m.slab) /\ Homes(m.slab, L, Null, Nowhere)
      /\ Owned(m, F, li, la, ra) /\ Objects(m.slab, li)
  BY DEF Placed
<1>3. /\ Arranged(m1, G, L)
      /\ s \in Page /\ In(F, s) /\ ~In(G, s) /\ ~OnAny(L, s)
      /\ m1.slab = m.slab /\ m1.cache = m.cache /\ m1.prev = m.prev
      /\ \A p \in Page : m1.word[p] = IF p = s THEN Null ELSE m.word[p]
      /\ \A p : In(G, p) <=> In(F, p) /\ p # s
  <2>1. Arranged(m, F, L) /\ s = m.memlist /\ s # Null
    BY <1>2
  <2>2. Arranged(m1, G, L)
    BY ONLY <1>1, <2>1, KallocArranged
  <2> QED
    BY ONLY <1>1, <2>1, <2>2, KallocArranged
<1>4. IsHeap(m1) /\ IsHeap(m)
  BY <1>2, <1>3 DEF Arranged
<1>5. PICK w, b, sl :
         /\ w = [p \in Page |-> IF p = s THEN Null ELSE m1.word[p]]
         /\ b = [m1.prev EXCEPT ![s] = Null]
         /\ sl = [q \in DOMAIN m.slab \cup {s} |-> IF q = s THEN Fresh(c) ELSE m.slab[q]]
  OBVIOUS
<1>6. r = [memlist |-> m1.memlist, word |-> w, prev |-> b, slab |-> sl, cache |-> m.cache]
  <2>1. m1 = [memlist |-> m1.memlist, word |-> m1.word, prev |-> m1.prev, slab |-> m.slab,
              cache |-> m.cache]
    BY <1>3, <1>4 DEF IsHeap
  <2>2. [p \in Page |-> IF p = s \/ (p = s + 1 /\ c \in Exact) THEN Null ELSE m1.word[p]] = w
    <3>1. \A p \in Page : p = s + 1 /\ c \in Exact => m1.word[p] = Null
      BY <1>3
    <3> QED
      BY <1>5, <3>1
  <2>3. r = [m1 EXCEPT !.word = w, !.prev[s] = Null, !.slab = sl]
    BY <1>1, <1>3, <1>5, <2>1, <2>2 DEF slabinit, Fresh
  <2> QED
    BY <1>3, <1>5, <2>1, <2>3
<1>7. /\ r.memlist = m1.memlist /\ r.word = w /\ r.prev = b /\ r.slab = sl /\ r.cache = m.cache
  BY <1>6
<1>8. /\ w \in [Page -> Word] /\ b \in [Page -> Link]
      /\ \A p \in Page : p # s => w[p] = m.word[p] /\ b[p] = m.prev[p]
  BY <1>3, <1>4, <1>5 DEF IsHeap, Word, Link
<1>9. IsHeap(r)
  BY <1>4, <1>6, <1>7, <1>8 DEF IsHeap
<1>10. Arranged(r, G, L)
  <2>1. \A p \in Page : In(G, p) \/ OnAny(L, p) => p # s
    BY <1>3
  <2>2. \A p \in Page : In(G, p) \/ OnAny(L, p) =>
                           r.word[p] = m1.word[p] /\ r.prev[p] = m1.prev[p]
    BY <1>3, <1>4, <1>7, <1>8, <2>1 DEF IsHeap
  <2>3. /\ Arranged(m1, G, L) /\ r.memlist = m1.memlist
        /\ \A d \in Cache, k \in List : r.cache[d].head[k] = m1.cache[d].head[k]
        /\ \A p \in Page : In(G, p) \/ OnAny(L, p) => r.word[p] = m1.word[p]
        /\ \A p \in Page : OnAny(L, p) => r.prev[p] = m1.prev[p]
    BY <1>3, <1>7, <2>2
  <2> QED
    BY <1>9, <2>3, SameLists
<1>11. s \notin DOMAIN m.slab /\ DOMAIN sl = DOMAIN m.slab \cup {s}
  BY <1>2, <1>3, <1>5 DEF Owned
<1>12. sl[s] = Fresh(c) /\ \A q \in DOMAIN m.slab : sl[q] = m.slab[q]
  BY <1>5, <1>11
<1>13. Header(Fresh(c)) /\ Once(Fresh(c), {})
  BY HeaderNew
<1>14. Headers(sl)
  <2>1. sl = [q \in DOMAIN sl |-> sl[q]]
    BY <1>5
  <2> QED
    BY <1>2, <1>3, <1>11, <1>12, <1>13, <2>1 DEF Headers
<1>15. Homes(sl, L, s, Nowhere)
  <2>1. ASSUME NEW y \in Key, NEW p \in Page
        PROVE  On(L, y, p) <=> p \in DOMAIN sl /\ y = IF p = s THEN Nowhere ELSE Home(sl[p])
    <3>1. CASE p = s
      BY <1>3, <3>1, NowhereTyped DEF OnAny
    <3>2. CASE p # s
      <4>1. p # Null
        BY PageTyped
      <4>2. On(L, y, p) <=> p \in DOMAIN m.slab /\ y = Home(m.slab[p])
        BY <1>2, <4>1 DEF Homes
      <4> QED
        BY <1>11, <1>12, <3>2, <4>2
    <3> QED
      BY <3>1, <3>2
  <2> QED
    BY <2>1 DEF Homes
<1>16. Owned(r, G, li, la, ra)
  <2>1. \A p \in la : r.word[p] = m.word[p]
    <3>1. \A p \in la : p \in Page /\ p # s
      BY <1>2, <1>3 DEF Owned
    <3> QED
      BY <1>7, <1>8, <3>1
  <2> QED
    BY <1>2, <1>3, <1>7, <1>11, <2>1 DEF Owned
<1>17. Objects(sl, li)
  <2>1. Used(li, s) = {}
    BY <1>2, <1>11 DEF Owned, Used
  <2> QED
    BY <1>2, <1>11, <1>12, <1>13, <2>1 DEF Objects
<1>18. Placed(r, G, L, li, la, ra, s, Nowhere)
  BY <1>7, <1>10, <1>14, <1>15, <1>16, <1>17 DEF Placed
<1> QED
  BY <1>7, <1>11, <1>12, <1>18 DEF SameCounts, Count

LEMMA AllocNewGood ==
    ASSUME NEW m, NEW F, NEW L, NEW li, NEW la, NEW ra, Good(m, F, L, li, la, ra),
           NEW c \in Cache, NEW s, s = m.memlist, s # Null,
           c \in Exact => m.word[s + 1] = Null,
           NEW m1, m1 = list_insert(slabinit(kalloc(m), c, s), c, "partial", s),
           NEW r, r = Taken(m1, c, s), NEW lj, lj = Handed(li, s, Head(m1.slab[s].list))
    PROVE  \E G, M : Good(r, G, M, lj, la, ra) /\ IsHeap(r)
<1>1. Placed(m, F, L, li, la, ra, Null, Nowhere) /\ Empties(m, L)
  BY DEF Good
<1>2. PICK m2 : m2 = slabinit(kalloc(m), c, s)
  OBVIOUS
<1>3. /\ \E G : Placed(m2, G, L, li, la, ra, s, Nowhere)
      /\ SameCounts(m2, m) /\ s \in DOMAIN m2.slab /\ m2.slab[s] = Fresh(c)
  BY <1>1, <1>2, SlabinitPlaced
<1>4. PICK G : Placed(m2, G, L, li, la, ra, s, Nowhere)
  BY <1>3
<1>5. Empties(m2, L)
  BY <1>1, <1>3 DEF Empties, SameCounts
<1>6. m2.slab[s].cache = c /\ m2.slab[s].freenum > 0
  <2>1. Fresh(c).cache = c /\ Fresh(c).freenum = PerSlab[c]
    BY DEF Fresh
  <2>2. PerSlab[c] \in Nat \ {0}
    BY PerSlabTyped
  <2> QED
    BY <1>3, <2>1, <2>2
<1> QED
  BY <1>2, <1>3, <1>4, <1>5, <1>6, JoinedGood

\* Whatever word the end of the chain lands on, what is written has its type.
LEMMA SlabinitTyped ==
    ASSUME NEW m, NEW F, NEW L, NEW li, NEW la, NEW ra,
           Placed(m, F, L, li, la, ra, Null, Nowhere),
           NEW c \in Cache, NEW s, s = m.memlist, s # Null,
           NEW r, r = slabinit(kalloc(m), c, s)
    PROVE  /\ IsHeap(r) /\ Headers(r.slab) /\ r.cache = m.cache
           /\ s \in DOMAIN r.slab /\ r.slab[s] = Fresh(c) /\ ~OnAny(L, s)
           /\ \A o \in li : o[1] \in DOMAIN r.slab
<1>1. PICK m1, G : m1 = kalloc(m) /\ G = Without(F, 1)
  OBVIOUS
<1>2. Arranged(m, F, L) /\ Headers(m.slab) /\ Owned(m, F, li, la, ra)
  BY DEF Placed
<1>3. /\ Arranged(m1, G, L) /\ s \in Page /\ ~OnAny(L, s)
      /\ m1.slab = m.slab /\ m1.cache = m.cache
  <2>1. Arranged(m, F, L) /\ s = m.memlist /\ s # Null
    BY <1>2
  <2>2. Arranged(m1, G, L)
    BY ONLY <1>1, <2>1, KallocArranged
  <2> QED
    BY ONLY <1>1, <2>1, <2>2, KallocArranged
<1>4. IsHeap(m1)
  BY <1>3 DEF Arranged
<1>5. PICK w, b, sl :
         /\ w = [p \in Page |-> IF p = s \/ (p = s + 1 /\ c \in Exact) THEN Null ELSE m1.word[p]]
         /\ b = [m1.prev EXCEPT ![s] = Null]
         /\ sl = [q \in DOMAIN m.slab \cup {s} |-> IF q = s THEN Fresh(c) ELSE m.slab[q]]
  OBVIOUS
<1>6. r = [memlist |-> m1.memlist, word |-> w, prev |-> b, slab |-> sl, cache |-> m.cache]
  <2>1. m1 = [memlist |-> m1.memlist, word |-> m1.word, prev |-> m1.prev, slab |-> m.slab,
              cache |-> m.cache]
    BY <1>3, <1>4 DEF IsHeap
  <2>2. r = [m1 EXCEPT !.word = w, !.prev[s] = Null, !.slab = sl]
    BY <1>1, <1>3, <1>5, <2>1 DEF slabinit, Fresh
  <2> QED
    BY <1>3, <1>5, <2>1, <2>2
<1>7. /\ r.memlist = m1.memlist /\ r.word = w /\ r.prev = b /\ r.slab = sl /\ r.cache = m.cache
  BY <1>6
<1>8. w \in [Page -> Word] /\ b \in [Page -> Link]
  BY <1>3, <1>4, <1>5 DEF IsHeap, Word, Link
<1>9. IsHeap(r)
  BY <1>3, <1>4, <1>6, <1>7, <1>8 DEF IsHeap
<1>10. Header(Fresh(c))
  BY HeaderNew
<1>11. DOMAIN sl = DOMAIN m.slab \cup {s} /\ sl[s] = Fresh(c) /\ sl = [q \in DOMAIN sl |-> sl[q]]
       /\ \A q \in DOMAIN sl : sl[q] = Fresh(c) \/ (q \in DOMAIN m.slab /\ sl[q] = m.slab[q])
  BY <1>5
<1>12. Headers(sl)
  BY <1>2, <1>3, <1>10, <1>11 DEF Headers
<1> QED
  BY <1>2, <1>3, <1>7, <1>9, <1>11, <1>12 DEF Owned

LEMMA AllocNewTyped ==
    ASSUME NEW m, NEW F, NEW L, NEW li, NEW la, NEW ra, Good(m, F, L, li, la, ra),
           NEW c \in Cache, NEW s, s = m.memlist, s # Null, First(m, c, "partial") = Null,
           NEW m1, m1 = list_insert(slabinit(kalloc(m), c, s), c, "partial", s),
           NEW r, r = Taken(m1, c, s), NEW lj, lj = Handed(li, s, Head(m1.slab[s].list))
    PROVE  /\ IsHeap(r) /\ Headers(r.slab) /\ \A d \in Cache : Count(r, d) = Count(m, d)
           /\ lj \subseteq Page \X Nat
<1>1. Placed(m, F, L, li, la, ra, Null, Nowhere)
  BY DEF Good
<1>2. PICK m2 : m2 = slabinit(kalloc(m), c, s)
  OBVIOUS
<1>3. /\ IsHeap(m2) /\ Headers(m2.slab) /\ m2.cache = m.cache
      /\ s \in DOMAIN m2.slab /\ m2.slab[s] = Fresh(c) /\ ~OnAny(L, s)
  BY <1>1, <1>2, SlabinitTyped
<1>4. s \in Page /\ {"partial", "full"} \subseteq List
  BY <1>3 DEF Headers, List
<1>5. m2.cache[c].head["partial"] = Null /\ Null # s
  BY <1>3 DEF First
<1>6. /\ IsHeap(m1) /\ m1.slab = m2.slab /\ m1.word[s] = Null /\ m1.prev[s] = Null
      /\ \A d \in Cache, k \in List : k # "partial" => m1.cache[d].head[k] = m2.cache[d].head[k]
      /\ \A d \in Cache : m1.cache[d].empty_slabs = m2.cache[d].empty_slabs
  <2>1. PICK top : top = m2.cache[c].head["partial"]
    OBVIOUS
  <2>2. top = Null /\ top # s
    BY <1>5, <2>1
  <2>3. PICK l : l = "partial"
    OBVIOUS
  <2>4. /\ IsHeap(m2) /\ c \in Cache /\ l \in List /\ s \in Page
        /\ m1 = list_insert(m2, c, l, s) /\ top = m2.cache[c].head[l] /\ top # s
    BY <1>2, <1>3, <1>4, <2>1, <2>2, <2>3
  <2>5. /\ IsHeap(m1)
        /\ m1.memlist = m2.memlist /\ m1.slab = m2.slab
        /\ m1.word = [m2.word EXCEPT ![s] = top]
        /\ m1.prev = IF top # Null THEN [m2.prev EXCEPT ![s] = Null, ![top] = s]
                     ELSE [m2.prev EXCEPT ![s] = Null]
        /\ \A d \in Cache, k \in List :
              /\ m1.cache[d].head[k] = IF d = c /\ k = l THEN s ELSE m2.cache[d].head[k]
              /\ m1.cache[d].empty_slabs = m2.cache[d].empty_slabs
    BY ONLY <2>4, InsertEffect, SMTT(30)
  <2> QED
    BY <1>3, <1>4, <2>2, <2>3, <2>5, SMTT(30) DEF IsHeap
<1>7. PICK g, m3 : g = Popped(Fresh(c)) /\ m3 = PopObject(m1, s)
  OBVIOUS
<1>8. /\ m3 = WithHeader(m1, s, g) /\ Header(g)
      /\ Head(m1.slab[s].list) \in 1 .. PerSlab[c]
  <2>1. Header(Fresh(c)) /\ Once(Fresh(c), {}) /\ Fresh(c).freenum = PerSlab[c] /\ Fresh(c).cache = c
    BY HeaderNew
  <2>2. Fresh(c).freenum > 0
    BY <2>1, PerSlabTyped
  <2>3. Header(g) /\ Head(Fresh(c).list) \in 1 .. PerSlab[Fresh(c).cache]
    BY <1>7, <2>1, <2>2, HeaderTaken
  <2>4. m1.slab[s] = Fresh(c) /\ s \in DOMAIN m1.slab /\ Headers(m1.slab)
    BY <1>3, <1>6
  <2>5. PopObject(m1, s) = WithHeader(m1, s, Popped(m1.slab[s]))
    BY <1>6, <2>4, PopEffect
  <2> QED
    BY <1>7, <2>1, <2>3, <2>4, <2>5
<1>9. /\ m3.memlist = m1.memlist /\ m3.word = m1.word /\ m3.prev = m1.prev /\ m3.cache = m1.cache
      /\ m3.slab = [m1.slab EXCEPT ![s] = g]
      /\ m3 = [memlist |-> m3.memlist, word |-> m3.word, prev |-> m3.prev, slab |-> m3.slab,
               cache |-> m3.cache]
  BY <1>8 DEF WithHeader
<1>10. IsHeap(m3) /\ Headers(m3.slab)
  <2>1. IsHeap(m3)
    BY <1>6, <1>9 DEF IsHeap
  <2> QED
    BY <1>3, <1>6, <1>8, <1>9, <2>1, SMTT(30) DEF Headers
<1>11. lj \subseteq Page \X Nat
  <2>1. Head(m1.slab[s].list) \in Nat
    BY <1>8, PerSlabTyped
  <2> QED
    BY <1>1, <1>4, <2>1 DEF Placed, Owned, Handed
<1>12. CASE r = m3
  BY <1>3, <1>6, <1>9, <1>10, <1>11, <1>12 DEF Count
<1>13. CASE r = list_insert(list_remove(m3, c, "partial", s), c, "full", s)
  <2>1. PICK m4 : m4 = list_remove(m3, c, "partial", s)
    OBVIOUS
  <2>2. /\ IsHeap(m4) /\ m4.slab = m3.slab
        /\ \A d \in Cache, k \in List :
              /\ m4.cache[d].head[k] = IF m3.prev[s] = Null /\ d = c /\ k = "partial"
                                       THEN Null ELSE m3.cache[d].head[k]
              /\ m4.cache[d].empty_slabs = m3.cache[d].empty_slabs
    <3>1. PICK next : next = m3.word[s]
      OBVIOUS
    <3>2. next = Null /\ next \in Link
      BY <1>6, <1>9, <3>1 DEF Link
    <3>3. PICK l : l = "partial"
      OBVIOUS
    <3>4. /\ IsHeap(m3) /\ c \in Cache /\ l \in List /\ s \in Page
          /\ next = m3.word[s] /\ next \in Link /\ m4 = list_remove(m3, c, l, s)
      BY <1>4, <1>10, <2>1, <3>1, <3>2, <3>3
    <3>5. /\ IsHeap(m4)
          /\ m4.memlist = m3.memlist /\ m4.slab = m3.slab
          /\ m4.word = IF m3.prev[s] # Null THEN [m3.word EXCEPT ![m3.prev[s]] = next]
                       ELSE m3.word
          /\ m4.prev = IF next # Null THEN [m3.prev EXCEPT ![next] = m3.prev[s]]
                       ELSE m3.prev
          /\ \A d \in Cache, k \in List :
                /\ m4.cache[d].head[k] = IF m3.prev[s] = Null /\ d = c /\ k = l
                                         THEN next ELSE m3.cache[d].head[k]
                /\ m4.cache[d].empty_slabs = m3.cache[d].empty_slabs
      BY ONLY <3>4, RemoveEffect, SMTT(30)
    <3> QED
      BY <3>2, <3>3, <3>5
  <2>3. PICK top : top = m4.cache[c].head["full"]
    OBVIOUS
  <2>4. top # s
    <3>1. PICK x : x = <<c, "full">>
      OBVIOUS
    <3>2. x \in Key /\ top = HeadOf(m, x)
      <4>1. top = m.cache[c].head["full"]
        BY <1>3, <1>4, <1>6, <1>9, <2>2, <2>3, SMTT(30)
      <4> QED
        BY <1>4, <3>1, <4>1 DEF Key, HeadOf
    <3>3. Leads(m.word, HeadOf(m, x), L[x]) /\ L[x] \in Seqs
      BY <1>1, <3>2 DEF Placed, Arranged, Linked
    <3>4. ~In(L[x], s)
      BY <1>3, <3>2 DEF OnAny, On
    <3>5. Len(L[x]) \in Nat /\ (Len(L[x]) # 0 => 1 \in 1 .. Len(L[x]))
      BY <3>3 DEF Seqs
    <3> QED
      BY <1>5, <3>2, <3>3, <3>4, <3>5 DEF Leads, In
  <2>5. PICK l : l = "full"
    OBVIOUS
  <2>6. /\ IsHeap(m4) /\ c \in Cache /\ l \in List /\ s \in Page
        /\ r = list_insert(m4, c, l, s) /\ top = m4.cache[c].head[l] /\ top # s
    BY <1>4, <1>13, <2>1, <2>2, <2>3, <2>4, <2>5
  <2>7. /\ IsHeap(r)
        /\ r.memlist = m4.memlist /\ r.slab = m4.slab
        /\ r.word = [m4.word EXCEPT ![s] = top]
        /\ r.prev = IF top # Null THEN [m4.prev EXCEPT ![s] = Null, ![top] = s]
                    ELSE [m4.prev EXCEPT ![s] = Null]
        /\ \A d \in Cache, k \in List :
              /\ r.cache[d].head[k] = IF d = c /\ k = l THEN s ELSE m4.cache[d].head[k]
              /\ r.cache[d].empty_slabs = m4.cache[d].empty_slabs
    BY ONLY <2>6, InsertEffect, SMTT(30)
  <2>8. Headers(r.slab)
    BY <1>10, <2>2, <2>7
  <2>9. \A d \in Cache : Count(r, d) = Count(m, d)
    <3>1. \A d \in Cache : /\ m2.cache[d].empty_slabs = m.cache[d].empty_slabs
                           /\ m1.cache[d].empty_slabs = m2.cache[d].empty_slabs
                           /\ m3.cache[d].empty_slabs = m1.cache[d].empty_slabs
      BY ONLY <1>3, <1>6, <1>9
    <3>2. \A d \in Cache : m4.cache[d].empty_slabs = m3.cache[d].empty_slabs
      BY ONLY <1>4, <2>2
    <3>3. \A d \in Cache : r.cache[d].empty_slabs = m4.cache[d].empty_slabs
      BY ONLY <2>6, <2>7
    <3> QED
      BY ONLY <3>1, <3>2, <3>3 DEF Count
  <2> QED
    BY ONLY <1>11, <2>7, <2>8, <2>9
<1> QED
  BY <1>7, <1>12, <1>13 DEF Taken

\* A page that is on no list goes back to the free list: a page that is no slab, or
\* slab s, of which nothing is handed out.
LEMMA FreePlaced ==
    ASSUME NEW m, NEW F, NEW L, NEW li, NEW la, NEW ra, NEW s,
           Placed(m, F, L, li, la, ra, s, Nowhere),
           NEW p \in Page, ~In(F, p),
           (s = Null /\ p \notin DOMAIN m.slab) \/ (s = p /\ Used(li, p) = {}),
           NEW r, r = kfree(m, p)
    PROVE  /\ \E G : Placed(r, G, L, li, la \ {p}, ra \ {p}, Null, Nowhere) /\ IsHeap(r)
           /\ SameCounts(r, m)
<1>1. /\ Arranged(m, F, L) /\ Headers(m.slab) /\ Homes(m.slab, L, s, Nowhere)
      /\ Owned(m, F, li, la, ra) /\ Objects(m.slab, li)
  BY DEF Placed
<1>2. ~OnAny(L, p)
  <2>1. CASE p \notin DOMAIN m.slab
    BY <1>1, <2>1 DEF Homes, OnAny
  <2>2. CASE s = p
    BY <1>1, <2>2, NowhereTyped DEF Homes, OnAny
  <2> QED
    BY <2>1, <2>2
<1>3. PICK G : G = Front(p, F)
  OBVIOUS
<1>4. Arranged(r, G, L)
  BY <1>1, <1>2, <1>3, KfreeArranged
<1>5. /\ r.slab = [q \in DOMAIN m.slab \ {p} |-> m.slab[q]] /\ r.cache = m.cache
      /\ \A q \in Page : q # p => r.word[q] = m.word[q] /\ r.prev[q] = m.prev[q]
      /\ \A q : In(G, q) <=> In(F, q) \/ q = p
  BY <1>1, <1>2, <1>3, <1>4, KfreeArranged
<1>6. PICK sl : sl = r.slab
  OBVIOUS
<1>7. /\ DOMAIN sl = DOMAIN m.slab \ {p} /\ sl = [q \in DOMAIN sl |-> sl[q]]
      /\ \A q \in DOMAIN sl : sl[q] = m.slab[q]
  BY <1>5, <1>6
<1>8. Headers(sl)
  BY <1>1, <1>7 DEF Headers
<1>9. Homes(sl, L, Null, Nowhere)
  <2>1. ASSUME NEW y \in Key, NEW q \in Page
        PROVE  On(L, y, q) <=> q \in DOMAIN sl /\ y = IF q = Null THEN Nowhere ELSE Home(sl[q])
    <3>1. q # Null
      BY PageTyped
    <3>2. CASE q = p
      BY <1>2, <1>7, <3>2 DEF OnAny
    <3>3. CASE q # p
      <4>1. q # s
        BY <3>1, <3>3
      <4>2. On(L, y, q) <=> q \in DOMAIN m.slab /\ y = Home(m.slab[q])
        BY <1>1, <4>1 DEF Homes
      <4> QED
        BY <1>7, <3>1, <3>3, <4>2
    <3> QED
      BY <3>2, <3>3
  <2> QED
    BY <2>1 DEF Homes
<1>10. Owned(r, G, li, la \ {p}, ra \ {p})
  <2>1. \A o \in li : o[1] \in DOMAIN m.slab /\ o[1] # p
    BY <1>1 DEF Owned, Used
  <2>2. \A q \in la \ {p} : r.word[q] = m.word[q]
    BY <1>1, <1>5 DEF Owned
  <2>3. DOMAIN r.slab = DOMAIN m.slab \ {p}
    BY <1>6, <1>7
  <2>4. ASSUME NEW q \in Page
        PROVE  /\ In(G, q) \/ q \in DOMAIN r.slab \/ q \in la \ {p} \/ q \in ra \ {p}
               /\ In(G, q) => q \notin DOMAIN r.slab /\ q \notin la \ {p} /\ q \notin ra \ {p}
               /\ q \in DOMAIN r.slab => q \notin la \ {p} /\ q \notin ra \ {p}
               /\ q \in la \ {p} => q \notin ra \ {p} /\ r.word[q] = Magic
    BY <1>1, <1>5, <2>2, <2>3 DEF Owned
  <2> QED
    BY <1>1, <2>1, <2>3, <2>4 DEF Owned
<1>11. Objects(sl, li)
  BY <1>1, <1>7 DEF Objects
<1>12. Placed(r, G, L, li, la \ {p}, ra \ {p}, Null, Nowhere)
  BY <1>4, <1>6, <1>8, <1>9, <1>10, <1>11 DEF Placed
<1>13. IsHeap(r)
  BY <1>4 DEF Arranged
<1> QED
  BY <1>5, <1>12, <1>13 DEF SameCounts, Count

LEMMA FreeGood ==
    ASSUME NEW m, NEW F, NEW L, NEW li, NEW la, NEW ra, Good(m, F, L, li, la, ra),
           NEW p \in la \cup ra, NEW r, r = kfree(m, p)
    PROVE  \E G, M : Good(r, G, M, li, la \ {p}, ra \ {p}) /\ IsHeap(r)
<1>1. Placed(m, F, L, li, la, ra, Null, Nowhere) /\ Empties(m, L)
  BY DEF Good
<1>2. p \in Page /\ ~In(F, p) /\ p \notin DOMAIN m.slab
  BY <1>1 DEF Placed, Owned
<1>3. /\ \E G : Placed(r, G, L, li, la \ {p}, ra \ {p}, Null, Nowhere) /\ IsHeap(r)
      /\ SameCounts(r, m)
  BY <1>1, <1>2, FreePlaced
<1>4. Empties(r, L)
  BY <1>1, <1>3 DEF Empties, SameCounts
<1> QED
  BY <1>3, <1>4 DEF Good

\* A slab all of whose objects are free has none handed out.
LEMMA AllFreeUnused ==
    ASSUME NEW h, NEW used, Header(h), Once(h, used), h.freenum = PerSlab[h.cache]
    PROVE  used = {}
<1>1. PICK P : P = PerSlab[h.cache] /\ P \in Nat
  BY PerSlabTyped DEF Header
<1>2. /\ IsFiniteSet(Free(h)) /\ Cardinality(Free(h)) = P /\ Free(h) \subseteq 1 .. P
  BY <1>1, FreeCounted
<1>3. IsFiniteSet(1 .. P) /\ Cardinality(1 .. P) = P
  <2>1. 1 \in Int /\ P \in Int
    BY <1>1
  <2> QED
    BY <1>1, <2>1, FS_Interval, IntervalSize
<1>4. Free(h) = 1 .. P
  BY <1>2, <1>3, FS_Subset
<1> QED
  BY <1>1, <1>4 DEF Once

\* cache_shrink, called with at most one empty slab too many.
LEMMA ShrinkGood ==
    ASSUME NEW m, NEW F, NEW L, NEW li, NEW la, NEW ra,
           Placed(m, F, L, li, la, ra, Null, Nowhere), NEW c \in Cache,
           \A d \in Cache : Count(m, d) = Len(L[<<d, "empty">>]),
           \A d \in Cache : d # c => Count(m, d) <= MaxEmpty,
           Count(m, c) <= MaxEmpty + 1,
           NEW r, r = cache_shrink(m, c)
    PROVE  \E G, M : Good(r, G, M, li, la, ra) /\ IsHeap(r)
<1>1. PICK s : s = m.cache[c].head["empty"]
  OBVIOUS
<1>2. Arranged(m, F, L) /\ IsHeap(m)
  BY DEF Placed, Arranged
<1>3. PICK k : k = Count(m, c) /\ k \in Nat
  <2>1. <<c, "empty">> \in Key
    BY DEF Key, List
  <2>2. Len(L[<<c, "empty">>]) \in Nat
    BY <1>2, <2>1 DEF Arranged, Seqs
  <2> QED
    BY <2>2
<1>4. CASE s = Null \/ k <= MaxEmpty
  <2>1. r = m
    BY <1>1, <1>3, <1>4 DEF cache_shrink, Count
  <2>2. k <= MaxEmpty
    <3>1. CASE s = Null
      <4>1. PICK x : x = <<c, "empty">> /\ x \in Key /\ HeadOf(m, x) = s
        <5>1. PICK x : x = <<c, "empty">>
          OBVIOUS
        <5>2. x \in Key /\ x[1] = c /\ x[2] = "empty"
          BY <5>1 DEF Key, List
        <5> QED
          BY <1>1, <5>1, <5>2 DEF HeadOf
      <4>2. Leads(m.word, s, L[x]) /\ L[x] \in Seqs
        BY <1>2, <4>1 DEF Arranged, Linked
      <4>3. Len(L[x]) = 0
        <5>1. Len(L[x]) # 0 => 1 \in 1 .. Len(L[x])
          BY <4>2 DEF Seqs
        <5>2. Len(L[x]) # 0 => L[x][1] \in Page
          BY <4>2, <5>1 DEF Seqs
        <5> QED
          BY <3>1, <4>2, <5>2, PageTyped DEF Leads
      <4>4. k = 0
        BY <1>3, <4>1, <4>3
      <4> QED
        BY <4>4, MaxEmptyAssumption
    <3> QED
      BY <1>4, <3>1
  <2>3. Empties(m, L)
    BY <1>3, <2>2 DEF Empties
  <2> QED
    BY <1>2, <2>1, <2>3 DEF Good
<1>5. CASE s # Null /\ ~(k <= MaxEmpty)
  <2>1. PICK m1 : m1 = Fewer(list_remove(m, c, "empty", s), c)
    OBVIOUS
  <2>2. r = kfree(m1, s)
    <3>1. [list_remove(m, c, "empty", s) EXCEPT !.cache[c].empty_slabs = @ - 1] = m1
      BY <2>1 DEF Fewer, WithCount, Count
    <3> QED
      BY <1>1, <1>3, <1>5, <3>1 DEF cache_shrink, Count
  <2>3. /\ \E M : /\ Placed(m1, F, M, li, la, ra, s, Nowhere)
                  /\ \A d \in Cache : Count(m1, d) = Len(M[<<d, "empty">>])
        /\ m1.slab = m.slab /\ s \in DOMAIN m.slab /\ m.slab[s].cache = c
        /\ m.slab[s].freenum = PerSlab[c] /\ PerSlab[c] > 1
        /\ \A d \in Cache : d # c => Count(m1, d) = Count(m, d)
        /\ Count(m1, c) \in Int /\ Count(m1, c) + 1 = Count(m, c)
    <3>1. /\ c \in Cache /\ Placed(m, F, L, li, la, ra, Null, Nowhere)
          /\ \A d \in Cache : Count(m, d) = Len(L[<<d, "empty">>])
      OBVIOUS
    <3> QED
      BY ONLY <1>1, <1>5, <2>1, <3>1, EmptyLeaves
  <2>4. PICK M : /\ Placed(m1, F, M, li, la, ra, s, Nowhere)
                 /\ \A d \in Cache : Count(m1, d) = Len(M[<<d, "empty">>])
    BY <2>3
  <2>5. Used(li, s) = {}
    <3>1. PICK h, used : h = m.slab[s] /\ used = Used(li, s)
      OBVIOUS
    <3>2. Header(h) /\ Once(h, used) /\ h.freenum = PerSlab[h.cache]
      BY <2>3, <3>1 DEF Placed, Headers, Objects
    <3>3. used = {}
      BY ONLY <3>2, AllFreeUnused
    <3> QED
      BY <3>1, <3>3
  <2>6. s \in Page /\ ~In(F, s) /\ s \notin la /\ s \notin ra
    BY <2>3, SlabPages
  <2>7. /\ \E G : Placed(r, G, M, li, la \ {s}, ra \ {s}, Null, Nowhere) /\ IsHeap(r)
        /\ SameCounts(r, m1)
    BY ONLY <2>2, <2>4, <2>5, <2>6, FreePlaced
  <2>8. la \ {s} = la /\ ra \ {s} = ra
    BY <2>6
  <2>9. Empties(r, M)
    <3>1. Count(m1, c) <= MaxEmpty
      <4>1. PICK n : n = Count(m1, c)
        OBVIOUS
      <4>2. n \in Int /\ n + 1 = k /\ k <= MaxEmpty + 1 /\ MaxEmpty \in Int
        BY <1>3, <2>3, <4>1, MaxEmptyAssumption
      <4>3. n <= MaxEmpty
        BY ONLY <4>2
      <4> QED
        BY <4>1, <4>3
    <3> QED
      BY <2>3, <2>4, <2>7, <3>1 DEF Empties, SameCounts
  <2> QED
    BY <2>7, <2>8, <2>9 DEF Good
<1> QED
  BY <1>4, <1>5

\* The page that kalloc takes becomes a large allocation or a page of its caller.
LEMMA GrantGood ==
    ASSUME NEW m, NEW F, NEW L, NEW li, NEW la, NEW ra, Good(m, F, L, li, la, ra),
           NEW s, s = m.memlist, s # Null,
           NEW r, IsHeap(r), r.memlist = kalloc(m).memlist, r.slab = m.slab,
           r.cache = m.cache, r.prev = m.prev,
           \A p \in Page : p # s => r.word[p] = m.word[p],
           NEW lb, NEW rb, \/ lb = la \cup {s} /\ rb = ra /\ r.word[s] = Magic
                           \/ lb = la /\ rb = ra \cup {s}
    PROVE  \E G, M : Good(r, G, M, li, lb, rb)
<1>1. /\ Arranged(m, F, L) /\ Headers(m.slab) /\ Homes(m.slab, L, Null, Nowhere)
      /\ Owned(m, F, li, la, ra) /\ Objects(m.slab, li) /\ Empties(m, L)
  BY DEF Good, Placed
<1>2. PICK m1, G : m1 = kalloc(m) /\ G = Without(F, 1)
  OBVIOUS
<1>3. s = m.memlist /\ s # Null
  OBVIOUS
<1>4. Arranged(m1, G, L)
  BY ONLY <1>1, <1>2, <1>3, KallocArranged
<1>5. /\ s \in Page /\ In(F, s) /\ ~In(G, s) /\ ~OnAny(L, s)
      /\ m1.slab = m.slab /\ m1.cache = m.cache /\ m1.prev = m.prev
      /\ \A p \in Page : m1.word[p] = IF p = s THEN Null ELSE m.word[p]
      /\ \A p : In(G, p) <=> In(F, p) /\ p # s
  BY ONLY <1>1, <1>2, <1>3, <1>4, KallocArranged
<1>6. Arranged(r, G, L)
  <2>1. \A p \in Page : In(G, p) \/ OnAny(L, p) => r.word[p] = m1.word[p]
    BY <1>5
  <2>2. /\ IsHeap(r) /\ r.memlist = m1.memlist
        /\ \A d \in Cache, k \in List : r.cache[d].head[k] = m1.cache[d].head[k]
        /\ \A p \in Page : OnAny(L, p) => r.prev[p] = m1.prev[p]
    BY <1>2, <1>5
  <2> QED
    BY ONLY <1>4, <2>1, <2>2, SameLists
<1>7. Owned(r, G, li, lb, rb)
  <2>1. s \notin DOMAIN m.slab /\ s \notin la /\ s \notin ra
    BY <1>1, <1>5 DEF Owned
  <2>2. ASSUME NEW p \in Page
        PROVE  /\ In(G, p) \/ p \in DOMAIN r.slab \/ p \in lb \/ p \in rb
               /\ In(G, p) => p \notin DOMAIN r.slab /\ p \notin lb /\ p \notin rb
               /\ p \in DOMAIN r.slab => p \notin lb /\ p \notin rb
               /\ p \in lb => p \notin rb /\ r.word[p] = Magic
    BY <1>1, <1>5, <2>1 DEF Owned
  <2> QED
    BY <1>1, <1>5, <2>2 DEF Owned
<1>8. Placed(r, G, L, li, lb, rb, Null, Nowhere)
  BY <1>1, <1>6, <1>7 DEF Placed
<1>9. Empties(r, L)
  BY <1>1 DEF Empties, Count
<1> QED
  BY <1>8, <1>9 DEF Good

LEMMA KallocHeap ==
    ASSUME NEW m, NEW F, NEW L, NEW li, NEW la, NEW ra, Good(m, F, L, li, la, ra),
           NEW s, s = m.memlist, s # Null, NEW r, r = kalloc(m)
    PROVE  /\ IsHeap(r) /\ r.slab = m.slab /\ r.cache = m.cache /\ r.prev = m.prev
           /\ s \in Page /\ \A p \in Page : p # s => r.word[p] = m.word[p]
<1>1. PICK G : G = Without(F, 1)
  OBVIOUS
<1>2. Arranged(m, F, L) /\ s = m.memlist /\ s # Null /\ r = kalloc(m)
  BY DEF Good, Placed
<1>3. Arranged(r, G, L)
  BY ONLY <1>1, <1>2, KallocArranged
<1>4. /\ r.slab = m.slab /\ r.cache = m.cache /\ r.prev = m.prev /\ s \in Page
      /\ \A p \in Page : r.word[p] = IF p = s THEN Null ELSE m.word[p]
  BY ONLY <1>1, <1>2, <1>3, KallocArranged
<1> QED
  BY <1>3, <1>4 DEF Arranged

LEMMA KallocGood ==
    ASSUME NEW m, NEW F, NEW L, NEW li, NEW la, NEW ra, Good(m, F, L, li, la, ra),
           NEW s, s = m.memlist, s # Null, NEW r, r = kalloc(m)
    PROVE  \E G, M : Good(r, G, M, li, la, ra \cup {s}) /\ IsHeap(r)
<1>1. /\ IsHeap(r) /\ r.slab = m.slab /\ r.cache = m.cache /\ r.prev = m.prev
      /\ s \in Page /\ \A p \in Page : p # s => r.word[p] = m.word[p]
  BY KallocHeap
<1>2. PICK lb, rb : lb = la /\ rb = ra \cup {s}
  OBVIOUS
<1>3. r.memlist = kalloc(m).memlist /\ Good(m, F, L, li, la, ra) /\ s = m.memlist /\ s # Null
  OBVIOUS
<1>4. \E G, M : Good(r, G, M, li, lb, rb)
  BY ONLY <1>1, <1>2, <1>3, GrantGood
<1> QED
  BY <1>1, <1>2, <1>4

LEMMA LargeGood ==
    ASSUME NEW m, NEW F, NEW L, NEW li, NEW la, NEW ra, Good(m, F, L, li, la, ra),
           NEW s, s = m.memlist, s # Null, NEW r, r = Mark(kalloc(m), s)
    PROVE  \E G, M : Good(r, G, M, li, la \cup {s}, ra) /\ IsHeap(r)
<1>1. PICK m1 : m1 = kalloc(m)
  OBVIOUS
<1>2. /\ IsHeap(m1) /\ m1.slab = m.slab /\ m1.cache = m.cache /\ m1.prev = m.prev
      /\ s \in Page /\ \A p \in Page : p # s => m1.word[p] = m.word[p]
  BY <1>1, KallocHeap
<1>3. PICK w : w = [m1.word EXCEPT ![s] = Magic]
  OBVIOUS
<1>4. r = [memlist |-> m1.memlist, word |-> w, prev |-> m1.prev, slab |-> m1.slab,
           cache |-> m1.cache]
  BY <1>1, <1>2, <1>3 DEF Mark, IsHeap
<1>5. /\ r.memlist = m1.memlist /\ r.word = w /\ r.prev = m1.prev /\ r.slab = m1.slab
      /\ r.cache = m1.cache
  BY <1>4
<1>6. /\ w \in [Page -> Word] /\ w[s] = Magic
      /\ \A p \in Page : p # s => w[p] = m1.word[p]
  BY <1>2, <1>3 DEF IsHeap, Word
<1>7. IsHeap(r)
  BY <1>2, <1>4, <1>5, <1>6 DEF IsHeap
<1>8. PICK lb, rb : lb = la \cup {s} /\ rb = ra
  OBVIOUS
<1>9. /\ Good(m, F, L, li, la, ra) /\ s = m.memlist /\ s # Null
      /\ IsHeap(r) /\ r.memlist = kalloc(m).memlist /\ r.slab = m.slab
      /\ r.cache = m.cache /\ r.prev = m.prev /\ r.word[s] = Magic
      /\ \A p \in Page : p # s => r.word[p] = m.word[p]
  BY <1>1, <1>2, <1>5, <1>6, <1>7
<1>10. \E G, M : Good(r, G, M, li, lb, rb)
  BY ONLY <1>8, <1>9, GrantGood
<1> QED
  BY <1>7, <1>8, <1>10

PushObject(m, s, obj) == [m EXCEPT !.slab[s].list = <<obj>> \o @, !.slab[s].freenum = @ + 1]

Given(m, c, s, obj) ==
    LET m1 == PushObject(m, s, obj)
        n == m1.slab[s].freenum
    IN  IF n = 1 THEN list_insert(list_remove(m1, c, "full", s), c, "partial", s)
        ELSE IF AllFree(c, n)
             THEN cache_shrink(More(list_insert(list_remove(m1, c, "partial", s),
                                                c, "empty", s), c), c)
        ELSE m1

LEMMA PushEffect ==
    ASSUME NEW m, IsHeap(m), Headers(m.slab), NEW s \in DOMAIN m.slab, NEW obj
    PROVE  PushObject(m, s, obj) = WithHeader(m, s, Pushed(m.slab[s], obj))
<1>1. PICK h, b, sl : /\ h = m.slab[s] /\ b = m.slab
                      /\ sl = [b EXCEPT ![s] = Pushed(h, obj)]
  OBVIOUS
<1>2. m = [memlist |-> m.memlist, word |-> m.word, prev |-> m.prev, slab |-> b,
           cache |-> m.cache]
  BY <1>1 DEF IsHeap
<1>3. h = [cache |-> h.cache, list |-> h.list, freenum |-> h.freenum]
  BY <1>1 DEF Headers, Header
<1>4. b = [p \in DOMAIN b |-> b[p]] /\ s \in DOMAIN b /\ h = b[s]
  BY <1>1 DEF Headers
<1>5. [b EXCEPT ![s].list = <<obj>> \o @, ![s].freenum = @ + 1] = sl
  <2>1. [b EXCEPT ![s].list = <<obj>> \o @]
           = [b EXCEPT ![s] = [h EXCEPT !.list = <<obj>> \o h.list]]
    BY ONLY <1>3, <1>4
  <2> QED
    BY ONLY <1>1, <1>3, <1>4, <2>1 DEF Pushed
<1>6. [m EXCEPT !.slab[s].list = <<obj>> \o @, !.slab[s].freenum = @ + 1]
         = [memlist |-> m.memlist, word |-> m.word, prev |-> m.prev, slab |-> sl,
            cache |-> m.cache]
  <2>1. PICK d : d = [b EXCEPT ![s].list = <<obj>> \o @, ![s].freenum = @ + 1]
    OBVIOUS
  <2>2. m.slab = b
    BY <1>1
  <2>3. [m EXCEPT !.slab[s].list = <<obj>> \o @, !.slab[s].freenum = @ + 1]
           = [m EXCEPT !.slab = d]
    BY ONLY <1>2, <1>4, <2>1, <2>2
  <2>4. d = sl
    BY <1>5, <2>1
  <2> QED
    BY ONLY <1>2, <2>3, <2>4
<1> QED
  BY <1>1, <1>6 DEF PushObject, WithHeader

\* A slab with object obj handed out gets it back.
LEMMA PushPlaced ==
    ASSUME NEW m, NEW F, NEW L, NEW li, NEW la, NEW ra,
           Placed(m, F, L, li, la, ra, Null, Nowhere),
           NEW s, NEW obj, <<s, obj>> \in li, NEW h, h = m.slab[s],
           NEW r, r = PushObject(m, s, obj), NEW lj, lj = Returned(li, s, obj)
    PROVE  /\ Placed(r, F, L, lj, la, ra, s, Home(h)) /\ SameCounts(r, m)
           /\ s \in DOMAIN m.slab /\ DOMAIN r.slab = DOMAIN m.slab /\ h.cache \in Cache
           /\ r.slab[s].cache = h.cache /\ r.slab[s].freenum = h.freenum + 1
           /\ Header(h) /\ Header(r.slab[s])
<1>1. /\ Headers(m.slab) /\ Homes(m.slab, L, Null, Nowhere) /\ Owned(m, F, li, la, ra)
      /\ Objects(m.slab, li) /\ IsHeap(m)
  BY DEF Placed, Arranged
<1>2. /\ s \in DOMAIN m.slab /\ li \subseteq Page \X Nat /\ \A o \in li : o[1] \in DOMAIN m.slab
      /\ obj \in Used(li, s)
  <2>1. <<s, obj>>[1] = s /\ <<s, obj>>[2] = obj
    OBVIOUS
  <2> QED
    BY <1>1, <2>1 DEF Owned, Used
<1>3. PICK g, used : g = Pushed(h, obj) /\ used = Used(li, s)
  OBVIOUS
<1>4. Header(h) /\ Once(h, used) /\ obj \in used /\ h.cache \in Cache
  BY <1>1, <1>2, <1>3 DEF Headers, Objects, Header
<1>5. /\ Header(g) /\ g.cache = h.cache /\ g.freenum = h.freenum + 1
      /\ Once(g, used \ {obj})
  BY ONLY <1>3, <1>4, HeaderGiven
<1>6. r = WithHeader(m, s, g)
  BY <1>1, <1>2, <1>3, PushEffect
<1>7. Placed(m, F, L, li, la, ra, s, Home(h))
  <2>1. Homes(m.slab, L, s, Home(h))
    BY <1>1, PageTyped DEF Homes
  <2> QED
    BY <2>1 DEF Placed
<1>8. /\ Used(lj, s) = used \ {obj} /\ \A p : p # s => Used(lj, p) = Used(li, p)
      /\ lj \subseteq Page \X Nat /\ \A o \in lj : o[1] \in DOMAIN m.slab
  <2>1. li \in SUBSET (Page \X Nat)
    BY <1>2
  <2>2. /\ Used(lj, s) = Used(li, s) \ {obj} /\ \A p : p # s => Used(lj, p) = Used(li, p)
    BY <2>1, UsedRemoved
  <2> QED
    BY <1>2, <1>3, <2>2 DEF Returned
<1>9. PICK z : z = Home(h)
  OBVIOUS
<1>10. Once(g, Used(lj, s)) /\ Placed(m, F, L, li, la, ra, s, z)
  BY <1>5, <1>7, <1>8, <1>9
<1>11. /\ Placed(r, F, L, lj, la, ra, s, z)
       /\ SameCounts(r, m) /\ r.slab[s] = g /\ DOMAIN r.slab = DOMAIN m.slab
  <2>1. /\ s \in DOMAIN m.slab /\ Header(g) /\ Once(g, Used(lj, s))
        /\ lj \subseteq Page \X Nat /\ \A o \in lj : o[1] \in DOMAIN m.slab
        /\ \A p : p # s => Used(lj, p) = Used(li, p)
        /\ Placed(m, F, L, li, la, ra, s, z)
    BY ONLY <1>2, <1>5, <1>8, <1>10
  <2>2. Placed(r, F, L, lj, la, ra, s, z)
    BY ONLY <1>6, <2>1, HeaderPlaced
  <2> QED
    BY ONLY <1>6, <2>1, <2>2, HeaderPlaced
<1> QED
  BY <1>2, <1>4, <1>5, <1>9, <1>11

LEMMA GivenGood ==
    ASSUME NEW m, NEW F, NEW L, NEW li, NEW la, NEW ra, Good(m, F, L, li, la, ra),
           NEW s, NEW obj, <<s, obj>> \in li, NEW c, c = m.slab[s].cache,
           NEW r, r = Given(m, c, s, obj), NEW lj, lj = Returned(li, s, obj)
    PROVE  \E G, M : Good(r, G, M, lj, la, ra) /\ IsHeap(r)
<1>1. Placed(m, F, L, li, la, ra, Null, Nowhere) /\ Empties(m, L)
  BY DEF Good
<1>2. PICK h, m1, g, n, P : /\ h = m.slab[s] /\ m1 = PushObject(m, s, obj) /\ g = m1.slab[s]
                            /\ n = h.freenum /\ P = PerSlab[c]
  OBVIOUS
<1>3. /\ Placed(m1, F, L, lj, la, ra, s, Home(h)) /\ SameCounts(m1, m)
      /\ s \in DOMAIN m.slab /\ DOMAIN m1.slab = DOMAIN m.slab /\ h.cache \in Cache
      /\ g.cache = h.cache /\ g.freenum = h.freenum + 1 /\ Header(h) /\ Header(g)
  <2>1. <<s, obj>> \in li /\ lj = Returned(li, s, obj)
    OBVIOUS
  <2>2. Placed(m1, F, L, lj, la, ra, s, Home(h))
    BY ONLY <1>1, <1>2, <2>1, PushPlaced
  <2> QED
    BY ONLY <1>1, <1>2, <2>1, <2>2, PushPlaced
<1>4. /\ c \in Cache /\ h.cache = c /\ g.cache = c /\ g.freenum = n + 1
      /\ P \in Nat /\ P # 0 /\ n \in 0 .. P /\ n + 1 \in 0 .. P /\ n \in Nat
  <2>1. h.cache = c /\ g.cache = c /\ c \in Cache /\ g.freenum = n + 1
    BY <1>2, <1>3
  <2>2. P \in Nat /\ P # 0
    BY <1>2, <2>1, PerSlabTyped
  <2>3. n \in 0 .. P /\ n + 1 \in 0 .. P
    BY <1>2, <1>3, <2>1 DEF Header
  <2> QED
    BY <2>1, <2>2, <2>3
<1>5. Empties(m1, L)
  BY <1>1, <1>3 DEF Empties, SameCounts
<1>6. PICK xf, xp, xe : xf = <<c, "full">> /\ xp = <<c, "partial">> /\ xe = <<c, "empty">>
  OBVIOUS
<1>7. s \in DOMAIN m1.slab /\ "full" \in List /\ "partial" \in List /\ "empty" \in List
  BY <1>3 DEF List
<1>8. r = IF n + 1 = 1 THEN list_insert(list_remove(m1, c, "full", s), c, "partial", s)
          ELSE IF n + 1 = P
               THEN cache_shrink(More(list_insert(list_remove(m1, c, "partial", s),
                                                  c, "empty", s), c), c)
          ELSE m1
  BY <1>2, <1>4 DEF Given, AllFree
<1>9. CASE n = 0
  <2>1. Home(h) = xf
    <3>1. Kind(c, 0) = "full"
      BY DEF Kind
    <3> QED
      BY <1>2, <1>4, <1>6, <1>9, <3>1 DEF Home
  <2>2. Placed(m1, F, L, lj, la, ra, s, xf)
    BY <1>3, <2>1
  <2>3. PICK m2 : m2 = list_remove(m1, c, "full", s)
    OBVIOUS
  <2>4. PICK N : /\ Placed(m2, F, N, lj, la, ra, s, Nowhere)
                 /\ m2.slab = m1.slab /\ SameCounts(m2, m1) /\ Longer(N, L, xf, -1)
    BY ONLY <1>4, <1>6, <1>7, <2>2, <2>3, LeavePlaced
  <2>5. r = list_insert(m2, c, "partial", s)
    BY <1>8, <1>9, <2>3
  <2>6. s \in DOMAIN m2.slab
    BY <1>7, <2>4
  <2>7. PICK M : /\ Placed(r, F, M, lj, la, ra, s, xp)
                 /\ r.slab = m2.slab /\ SameCounts(r, m2) /\ Longer(M, N, xp, 1)
    BY ONLY <1>4, <1>6, <1>7, <2>4, <2>5, <2>6, JoinPlaced
  <2>8. Home(r.slab[s]) = xp
    <3>1. Kind(c, 1) = "partial"
      BY DEF Kind
    <3>2. g.freenum = 1
      BY <1>4, <1>9
    <3> QED
      BY <1>2, <1>4, <1>6, <2>4, <2>7, <3>1, <3>2 DEF Home
  <2>9. Placed(r, F, M, lj, la, ra, Null, Nowhere)
    BY <2>6, <2>7, <2>8, SettlePlaced
  <2>10. Empties(m2, N)
    BY ONLY <1>5, <1>6, <2>4, EmptiesKept
  <2>11. Empties(r, M)
    BY ONLY <1>6, <2>7, <2>10, EmptiesKept
  <2> QED
    BY <2>9, <2>11 DEF Good, Placed, Arranged
<1>10. CASE n # 0
  <2>1. Home(h) = xp
    <3>1. n # P
      BY <1>4
    <3>2. Kind(c, n) = "partial"
      BY <1>2, <1>10, <3>1 DEF Kind
    <3> QED
      BY <1>2, <1>4, <1>6, <3>2 DEF Home
  <2>2. Placed(m1, F, L, lj, la, ra, s, xp)
    BY <1>3, <2>1
  <2>3. CASE n + 1 = P
    <3>1. PICK m2, m3, m4 : /\ m2 = list_remove(m1, c, "partial", s)
                            /\ m3 = list_insert(m2, c, "empty", s) /\ m4 = More(m3, c)
      OBVIOUS
    <3>2. PICK N : /\ Placed(m2, F, N, lj, la, ra, s, Nowhere)
                   /\ m2.slab = m1.slab /\ SameCounts(m2, m1) /\ Longer(N, L, xp, -1)
      BY ONLY <1>4, <1>6, <1>7, <2>2, <3>1, LeavePlaced
    <3>3. s \in DOMAIN m2.slab
      BY <1>7, <3>2
    <3>4. PICK M : /\ Placed(m3, F, M, lj, la, ra, s, xe)
                   /\ m3.slab = m2.slab /\ SameCounts(m3, m2) /\ Longer(M, N, xe, 1)
      BY ONLY <1>4, <1>6, <1>7, <3>1, <3>2, <3>3, JoinPlaced
    <3>5. Empties(m2, N)
      BY ONLY <1>5, <1>6, <3>2, EmptiesKept
    <3>6. \A d \in Cache : Count(m3, d) = Len(N[<<d, "empty">>]) /\ Count(m3, d) <= MaxEmpty
      BY <3>4, <3>5 DEF Empties, SameCounts
    <3>7. /\ Placed(m4, F, M, lj, la, ra, s, xe) /\ m4.slab = m3.slab
          /\ \A d \in Cache : Count(m4, d) = Len(M[<<d, "empty">>])
          /\ \A d \in Cache : d # c => Count(m4, d) = Count(m3, d)
          /\ Count(m3, c) \in Int /\ Count(m4, c) = Count(m3, c) + 1
      BY ONLY <1>4, <1>6, <3>1, <3>4, <3>6, MorePlaced
    <3>8. Home(m4.slab[s]) = xe
      <4>1. n + 1 > 1 /\ n + 1 # 0
        BY <1>4, <1>10
      <4>2. Kind(c, n + 1) = "empty"
        BY <1>2, <2>3, <4>1 DEF Kind
      <4> QED
        BY <1>2, <1>4, <1>6, <3>2, <3>4, <3>7, <4>2 DEF Home
    <3>9. Placed(m4, F, M, lj, la, ra, Null, Nowhere)
      BY <3>3, <3>4, <3>7, <3>8, SettlePlaced
    <3>10. /\ \A d \in Cache : d # c => Count(m4, d) <= MaxEmpty
           /\ Count(m4, c) <= MaxEmpty + 1
      <4>1. \A d \in Cache : d # c => Count(m4, d) <= MaxEmpty
        BY ONLY <3>6, <3>7
      <4>2. PICK k : k = Count(m3, c)
        OBVIOUS
      <4>3. k \in Int /\ k <= MaxEmpty /\ Count(m4, c) = k + 1 /\ MaxEmpty \in Int
        <5>1. Count(m3, c) <= MaxEmpty
          BY ONLY <1>4, <3>6
        <5>2. Count(m3, c) \in Int /\ Count(m4, c) = Count(m3, c) + 1
          BY ONLY <3>7
        <5>3. MaxEmpty \in Int
          BY MaxEmptyAssumption
        <5> QED
          BY ONLY <4>2, <5>1, <5>2, <5>3
      <4>4. Count(m4, c) <= MaxEmpty + 1
        BY ONLY <4>3
      <4> QED
        BY <4>1, <4>4
    <3>11. r = cache_shrink(m4, c)
      BY <1>4, <1>8, <1>10, <2>3, <3>1
    <3> QED
      BY ONLY <1>4, <3>7, <3>9, <3>10, <3>11, ShrinkGood
  <2>4. CASE n + 1 # P
    <3>1. r = m1
      BY <1>4, <1>8, <1>10, <2>4
    <3>2. Home(m1.slab[s]) = xp
      <4>1. Kind(c, n + 1) = "partial"
        BY <1>2, <1>4, <2>4 DEF Kind
      <4> QED
        BY <1>2, <1>4, <1>6, <4>1 DEF Home
    <3>3. Placed(m1, F, L, lj, la, ra, Null, Nowhere)
      BY <1>7, <2>2, <3>2, SettlePlaced
    <3> QED
      BY <1>5, <3>1, <3>3 DEF Good, Placed, Arranged
  <2> QED
    BY <2>3, <2>4
<1> QED
  BY <1>4, <1>9, <1>10

-----------------------------------------------------------------------------
(***************************************************************************)
(* The invariant holds at the start and after every step.                  *)
(***************************************************************************)
LEMMA KinitGood ==
    \E F, L : Good(kinit, F, L, {}, {}, {}) /\ IsHeap(kinit)
<1>1. NPAGE \in Nat /\ NPAGE # 0 /\ MaxEmpty \in Nat
  BY NPAGEAssumption, MaxEmptyAssumption
<1>2. PICK F, L : F = [k \in 1 .. NPAGE |-> NPAGE - k] /\ L = [x \in Key |-> <<>>]
  OBVIOUS
<1>3. /\ F \in [1 .. NPAGE -> Page] /\ F \in Seqs /\ Len(F) = NPAGE
      /\ \A k \in 1 .. NPAGE : F[k] = NPAGE - k
  <2>1. F \in [1 .. NPAGE -> Page]
    BY <1>1, <1>2 DEF Page
  <2>2. F \in Seq(Page) /\ Len(F) = NPAGE
    BY <1>1, <2>1, FunctionIsSeq
  <2> QED
    BY <1>2, <2>1, <2>2 DEF Seqs
<1>4. L \in [Key -> Seqs] /\ \A x \in Key : L[x] = <<>> /\ Len(L[x]) = 0
  BY <1>2 DEF Seqs
<1>5. PICK m, w, b, sl, C :
         /\ m = kinit /\ w = [p \in Page |-> p - 1] /\ b = [p \in Page |-> Null]
         /\ sl = [p \in {} |-> Null]
         /\ C = [c \in Cache |-> [head |-> [l \in List |-> Null], empty_slabs |-> 0]]
  OBVIOUS
<1>6. /\ m = [memlist |-> NPAGE - 1, word |-> w, prev |-> b, slab |-> sl, cache |-> C]
      /\ w = [p \in Page |-> p - 1] /\ b = [p \in Page |-> Null] /\ DOMAIN sl = {}
      /\ C = [c \in Cache |-> [head |-> [l \in List |-> Null], empty_slabs |-> 0]]
      /\ sl = [s \in DOMAIN sl |-> sl[s]]
  BY <1>5 DEF kinit
<1>7. /\ m.memlist = NPAGE - 1 /\ m.word = w /\ m.prev = b /\ m.slab = sl /\ m.cache = C
      /\ m = [memlist |-> m.memlist, word |-> m.word, prev |-> m.prev, slab |-> m.slab,
              cache |-> m.cache]
  BY <1>6
<1>8. IsHeap(m)
  <2>1. NPAGE - 1 \in Link /\ w \in [Page -> Word] /\ b \in [Page -> Link]
    BY <1>1, <1>6 DEF Link, Word, Page, Null
  <2>2. C \in [Cache -> CacheType]
    BY <1>6 DEF CacheType, Link
  <2> QED
    BY <1>7, <2>1, <2>2 DEF IsHeap
<1>9. Linked(m, L)
  <2>1. \A x \in Key : HeadOf(m, x) = Null
    BY <1>6, <1>7 DEF HeadOf, Key
  <2>2. \A x \in Key : Leads(m.word, HeadOf(m, x), L[x]) /\ Back(m.prev, L[x]) /\ Distinct(L[x])
    BY <1>4, <2>1 DEF Leads, Back, Distinct
  <2>3. \A x \in Key, s \in Page : ~On(L, x, s)
    BY <1>4 DEF On, In
  <2> QED
    BY <2>2, <2>3 DEF Linked
<1>10. FreeList(m, F, L)
  <2>1. NPAGE - 1 = F[1]
    <3>1. 1 \in 1 .. NPAGE
      BY <1>1
    <3> QED
      BY <1>3, <3>1
  <2>2. \A k \in 1 .. NPAGE : w[F[k]] = IF k = NPAGE THEN Null ELSE F[k + 1]
    <3> TAKE k \in 1 .. NPAGE
    <3>1. F[k] \in Page /\ F[k] = NPAGE - k
      BY <1>3
    <3>2. w[F[k]] = NPAGE - k - 1
      BY <1>6, <3>1
    <3>3. k # NPAGE => k + 1 \in 1 .. NPAGE
      BY <1>1
    <3>4. k # NPAGE => F[k + 1] = NPAGE - (k + 1)
      BY <1>3, <3>3
    <3>5. k \in Nat
      OBVIOUS
    <3> QED
      BY <1>1, <3>2, <3>4, <3>5 DEF Null
  <2>3. Leads(m.word, m.memlist, F)
    BY <1>1, <1>3, <1>7, <2>1, <2>2 DEF Leads
  <2>4. Distinct(F)
    <3>1. \A j, k \in 1 .. NPAGE : NPAGE - j = NPAGE - k => j = k
      BY <1>1
    <3> QED
      BY <1>3, <3>1 DEF Distinct
  <2>5. \A k \in 1 .. Len(F) : ~OnAny(L, F[k])
    BY <1>4 DEF OnAny, On, In
  <2> QED
    BY <2>3, <2>4, <2>5 DEF FreeList
<1>11. Owned(m, F, {}, {}, {})
  <2>1. ASSUME NEW p \in Page
        PROVE  In(F, p)
    <3>1. NPAGE - p \in 1 .. NPAGE /\ NPAGE - (NPAGE - p) = p
      BY <1>1 DEF Page
    <3> QED
      BY <1>3, <3>1 DEF In
  <2> QED
    BY <1>6, <1>7, <2>1 DEF Owned
<1>12. Headers(m.slab) /\ Objects(m.slab, {})
  BY <1>6, <1>7 DEF Headers, Objects
<1>13. Homes(m.slab, L, Null, Nowhere)
  BY <1>4, <1>6, <1>7 DEF Homes, On, In
<1>14. Empties(m, L)
  <2>1. ASSUME NEW c \in Cache
        PROVE  Count(m, c) = Len(L[<<c, "empty">>]) /\ Count(m, c) <= MaxEmpty
    <3>1. <<c, "empty">> \in Key
      BY DEF Key, List
    <3> QED
      <4>1. Count(m, c) = 0 /\ Len(L[<<c, "empty">>]) = 0
        BY <1>4, <1>6, <1>7, <3>1 DEF Count
      <4> QED
        BY <1>1, <4>1
  <2> QED
    BY <2>1 DEF Empties
<1>15. Good(m, F, L, {}, {}, {})
  BY <1>3, <1>4, <1>8, <1>9, <1>10, <1>11, <1>12, <1>13, <1>14 DEF Good, Placed, Arranged
<1> QED
  BY <1>5, <1>8, <1>15

LEMMA HeapBecomes ==
    ASSUME NEW r, IsHeap(r), Becomes(r)
    PROVE  Heap' = r
BY DEF Becomes, Heap, IsHeap

LEMMA TakeTakes ==
    ASSUME NEW m, NEW c, NEW s, Take(m, c, s)
    PROVE  /\ Becomes(Taken(m, c, s)) /\ live' = Handed(live, s, Head(m.slab[s].list))
           /\ large' = large /\ raw' = raw
BY DEF Take, Taken, PopObject, Handed

\* A call keeps the links in place if it does not overrun a page.
LEMMA CallGood ==
    ASSUME Whole, Call, ~overrun'
    PROVE  Whole'
<1>1. PICK m, F, L, li, la, ra :
         /\ m = Heap /\ li = live /\ la = large /\ ra = raw /\ Good(m, F, L, li, la, ra)
  BY DEF Whole
<1>2. /\ m.memlist = memlist /\ m.word = word /\ m.slab = slab /\ m.cache = cache
      /\ li \subseteq Page \X Nat
  <2>1. li \subseteq Page \X Nat
    BY <1>1 DEF Good, Placed, Owned
  <2> QED
    BY <1>1, <2>1 DEF Heap
<1>3. SUFFICES \E r, G, M, lj, lb, rb :
                   /\ Good(r, G, M, lj, lb, rb) /\ IsHeap(r) /\ Becomes(r)
                   /\ live' = lj /\ large' = lb /\ raw' = rb
  <2>1. ASSUME NEW r, NEW G, NEW M, NEW lj, NEW lb, NEW rb,
               Good(r, G, M, lj, lb, rb), IsHeap(r), Becomes(r),
               live' = lj, large' = lb, raw' = rb
        PROVE  Whole'
    <3>1. Heap' = r
      BY <2>1, HeapBecomes
    <3> QED
      BY <2>1, <3>1 DEF Whole
  <2> QED
    BY <2>1
<1>4. CASE Kalloc
  <2>1. PICK s, r : s = memlist /\ r = kalloc(m)
    OBVIOUS
  <2>2. s = m.memlist /\ s # Null /\ Becomes(r) /\ live' = li /\ large' = la /\ raw' = ra \cup {s}
    BY <1>1, <1>2, <1>4, <2>1 DEF Kalloc
  <2>3. \E G, M : Good(r, G, M, li, la, ra \cup {s}) /\ IsHeap(r)
    BY <1>1, <2>1, <2>2, KallocGood
  <2> QED
    BY <2>2, <2>3
<1>5. ASSUME NEW p \in raw, Kfree(p)
      PROVE  \E r, G, M, lj, lb, rb :
                   /\ Good(r, G, M, lj, lb, rb) /\ IsHeap(r) /\ Becomes(r)
                   /\ live' = lj /\ large' = lb /\ raw' = rb
  <2>1. PICK r : r = kfree(m, p)
    OBVIOUS
  <2>2. p \in ra /\ Becomes(r) /\ live' = li /\ large' = la /\ raw' = ra \ {p}
    BY <1>1, <1>5, <2>1 DEF Kfree
  <2>3. \E G, M : Good(r, G, M, li, la \ {p}, ra \ {p}) /\ IsHeap(r)
    BY <1>1, <2>1, <2>2, FreeGood
  <2>4. la \ {p} = la
    BY <1>1, <2>2 DEF Good, Placed, Owned
  <2> QED
    BY <2>2, <2>3, <2>4
<1>6. ASSUME NEW c \in Cache, AllocPartial(c)
      PROVE  \E r, G, M, lj, lb, rb :
                   /\ Good(r, G, M, lj, lb, rb) /\ IsHeap(r) /\ Becomes(r)
                   /\ live' = lj /\ large' = lb /\ raw' = rb
  <2>1. PICK s : s = First(m, c, "partial")
    OBVIOUS
  <2>2. s # Null /\ Take(m, c, s)
    BY <1>1, <1>2, <1>6, <2>1 DEF AllocPartial, First
  <2>3. PICK r, lj : r = Taken(m, c, s) /\ lj = Handed(li, s, Head(m.slab[s].list))
    OBVIOUS
  <2>4. Becomes(r) /\ live' = lj /\ large' = la /\ raw' = ra
    BY <1>1, <2>2, <2>3, TakeTakes
  <2>5. \E G, M : Good(r, G, M, lj, la, ra) /\ IsHeap(r)
    <3>1. c \in Cache /\ Good(m, F, L, li, la, ra) /\ s # Null
      BY <1>1, <2>2
    <3> QED
      BY ONLY <2>1, <2>3, <3>1, AllocPartialGood
  <2> QED
    BY <2>4, <2>5
<1>7. ASSUME NEW c \in Cache, AllocEmpty(c)
      PROVE  \E r, G, M, lj, lb, rb :
                   /\ Good(r, G, M, lj, lb, rb) /\ IsHeap(r) /\ Becomes(r)
                   /\ live' = lj /\ large' = lb /\ raw' = rb
  <2>1. PICK s, m1 : /\ s = First(m, c, "empty")
                     /\ m1 = list_insert(Fewer(list_remove(m, c, "empty", s), c), c, "partial", s)
    OBVIOUS
  <2>2. s # Null /\ Take(m1, c, s)
    <3>1. m1 = list_insert([list_remove(m, c, "empty", s) EXCEPT !.cache[c].empty_slabs = @ - 1],
                           c, "partial", s)
      BY <2>1 DEF Fewer, WithCount, Count
    <3> QED
      BY <1>1, <1>2, <1>7, <2>1, <3>1 DEF AllocEmpty, First
  <2>3. PICK r, lj : r = Taken(m1, c, s) /\ lj = Handed(li, s, Head(m1.slab[s].list))
    OBVIOUS
  <2>4. Becomes(r) /\ live' = lj /\ large' = la /\ raw' = ra
    BY <1>1, <2>2, <2>3, TakeTakes
  <2>5. \E G, M : Good(r, G, M, lj, la, ra) /\ IsHeap(r)
    <3>1. c \in Cache /\ Good(m, F, L, li, la, ra) /\ s # Null
      BY <1>1, <2>2
    <3> QED
      BY ONLY <2>1, <2>3, <3>1, AllocEmptyGood
  <2> QED
    BY <2>4, <2>5
<1>8. ASSUME NEW c \in Cache, AllocNew(c)
      PROVE  \E r, G, M, lj, lb, rb :
                   /\ Good(r, G, M, lj, lb, rb) /\ IsHeap(r) /\ Becomes(r)
                   /\ live' = lj /\ large' = lb /\ raw' = rb
  <2>1. PICK s, m1 : /\ s = m.memlist
                     /\ m1 = list_insert(slabinit(kalloc(m), c, s), c, "partial", s)
    OBVIOUS
  <2>2. s # Null /\ Take(m1, c, s)
    BY <1>1, <1>2, <1>8, <2>1 DEF AllocNew
  <2>3. PICK r, lj : r = Taken(m1, c, s) /\ lj = Handed(li, s, Head(m1.slab[s].list))
    OBVIOUS
  <2>4. Becomes(r) /\ live' = lj /\ large' = la /\ raw' = ra
    BY <1>1, <2>2, <2>3, TakeTakes
  <2>5. \E G, M : Good(r, G, M, lj, la, ra) /\ IsHeap(r)
    <3>1. c \in Exact => m.word[s + 1] = Null
      BY <1>1, <1>2, <1>8, <2>1 DEF AllocNew, InUse
    <3>2. c \in Cache /\ Good(m, F, L, li, la, ra) /\ s # Null
      BY <1>1, <1>8, <2>2
    <3> QED
      BY ONLY <2>1, <2>3, <3>1, <3>2, AllocNewGood
  <2> QED
    BY <2>4, <2>5
<1>9. CASE KmallocLarge
  <2>1. PICK s, r : s = memlist /\ r = Mark(kalloc(m), s)
    OBVIOUS
  <2>2. s = m.memlist /\ s # Null /\ Becomes(r) /\ live' = li /\ large' = la \cup {s} /\ raw' = ra
    BY <1>1, <1>2, <1>9, <2>1 DEF KmallocLarge
  <2>3. \E G, M : Good(r, G, M, li, la \cup {s}, ra) /\ IsHeap(r)
    BY <1>1, <2>1, <2>2, LargeGood
  <2> QED
    BY <2>2, <2>3
<1>10. ASSUME NEW p \in large, KmfreeLarge(p)
       PROVE  \E r, G, M, lj, lb, rb :
                   /\ Good(r, G, M, lj, lb, rb) /\ IsHeap(r) /\ Becomes(r)
                   /\ live' = lj /\ large' = lb /\ raw' = rb
  <2>1. PICK r : r = kfree(m, p)
    OBVIOUS
  <2>2. p \in la /\ Becomes(r) /\ live' = li /\ large' = la \ {p} /\ raw' = ra
    BY <1>1, <1>10, <2>1 DEF KmfreeLarge
  <2>3. \E G, M : Good(r, G, M, li, la \ {p}, ra \ {p}) /\ IsHeap(r)
    BY <1>1, <2>1, <2>2, FreeGood
  <2>4. ra \ {p} = ra
    BY <1>1, <2>2 DEF Good, Placed, Owned
  <2> QED
    BY <2>2, <2>3, <2>4
<1>11. ASSUME NEW o \in live, KmfreeObject(o[1], o[2])
       PROVE  \E r, G, M, lj, lb, rb :
                   /\ Good(r, G, M, lj, lb, rb) /\ IsHeap(r) /\ Becomes(r)
                   /\ live' = lj /\ large' = lb /\ raw' = rb
  <2>1. PICK s, obj : s = o[1] /\ obj = o[2] /\ <<s, obj>> \in li
    BY <1>1, <1>2
  <2>2. PICK c, r, lj : /\ c = m.slab[s].cache /\ r = Given(m, c, s, obj)
                        /\ lj = Returned(li, s, obj)
    OBVIOUS
  <2>3. Becomes(r) /\ live' = lj /\ large' = la /\ raw' = ra
    BY <1>1, <1>2, <1>11, <2>1, <2>2
       DEF KmfreeObject, Given, PushObject, More, WithCount, Count, Returned
  <2>4. \E G, M : Good(r, G, M, lj, la, ra) /\ IsHeap(r)
    BY <1>1, <2>1, <2>2, GivenGood
  <2> QED
    BY <2>3, <2>4
<1> QED
  BY <1>4, <1>5, <1>6, <1>7, <1>8, <1>9, <1>10, <1>11 DEF Call

\* Even a call that overruns a page writes only links, headers and counters.
LEMMA OverrunTyped ==
    ASSUME Whole, Call, ~overrun, overrun'
    PROVE  SlabTypeOK'
<1>1. PICK c \in Cache : AllocNew(c)
  BY DEF Call, Kalloc, Kfree, AllocPartial, AllocEmpty, KmallocLarge, KmfreeLarge, KmfreeObject
<1>2. PICK m, F, L, li, la, ra :
         /\ m = Heap /\ li = live /\ la = large /\ ra = raw /\ Good(m, F, L, li, la, ra)
  BY DEF Whole
<1>3. m.memlist = memlist /\ m.cache = cache
  BY <1>2 DEF Heap
<1>4. PICK s, m1 : /\ s = m.memlist
                   /\ m1 = list_insert(slabinit(kalloc(m), c, s), c, "partial", s)
  OBVIOUS
<1>5. s # Null /\ Take(m1, c, s) /\ First(m, c, "partial") = Null
  BY <1>1, <1>2, <1>3, <1>4 DEF AllocNew, First
<1>6. PICK r, lj : r = Taken(m1, c, s) /\ lj = Handed(li, s, Head(m1.slab[s].list))
  OBVIOUS
<1>7. Becomes(r) /\ live' = lj /\ large' = la /\ raw' = ra
  BY <1>2, <1>5, <1>6, TakeTakes
<1>8. /\ IsHeap(r) /\ Headers(r.slab) /\ \A d \in Cache : Count(r, d) = Count(m, d)
      /\ lj \subseteq Page \X Nat
  BY <1>2, <1>4, <1>5, <1>6, AllocNewTyped
<1>9. /\ memlist' = r.memlist /\ word' = r.word /\ prev' = r.prev /\ slab' = r.slab
      /\ cache' = r.cache
  BY <1>7 DEF Becomes
<1>10. /\ memlist' \in Page \cup {Null} /\ word' \in [Page -> Page \cup {Null, Magic}]
       /\ prev' \in [Page -> Page \cup {Null}]
  BY <1>8, <1>9 DEF IsHeap, Link, Word
<1>11. /\ DOMAIN slab' \subseteq Page
       /\ \A q \in DOMAIN slab' :
             /\ slab'[q].cache \in Cache
             /\ slab'[q].freenum \in 0 .. PerSlab[slab'[q].cache]
             /\ slab'[q].list \in Seq(1 .. (PerSlab[slab'[q].cache] + 1))
  BY <1>8, <1>9 DEF Headers, Header
<1>12. cache' \in [Cache -> [head : [List -> Page \cup {Null}], empty_slabs : Nat]]
  <2>1. r.cache \in [Cache -> CacheType]
    BY <1>8 DEF IsHeap
  <2>2. ASSUME NEW d \in Cache
        PROVE  r.cache[d].empty_slabs \in Nat
    <3>1. <<d, "empty">> \in Key
      BY DEF Key, List
    <3>2. L[<<d, "empty">>] \in Seqs /\ Count(m, d) = Len(L[<<d, "empty">>])
      BY <1>2, <3>1 DEF Good, Placed, Arranged, Empties
    <3> QED
      BY <1>8, <3>2 DEF Seqs, Count
  <2> QED
    BY <1>9, <2>1, <2>2 DEF CacheType, Link
<1>13. large' \subseteq Page /\ raw' \subseteq Page
  BY <1>2, <1>7 DEF Good, Placed, Owned
<1> QED
  BY <1>7, <1>8, <1>10, <1>11, <1>12, <1>13 DEF SlabTypeOK

LEMMA InitGood ==
    ASSUME SlabInit
    PROVE  IInv
<1>1. PICK F, L : Good(kinit, F, L, {}, {}, {})
  BY KinitGood
<1>2. Heap = kinit
  BY DEF SlabInit, Heap, kinit
<1> QED
  BY <1>1, <1>2 DEF IInv, Whole, SlabInit

LEMMA StepGood ==
    ASSUME IInv, [SlabNext]_slabVars
    PROVE  IInv'
<1>1. CASE ~overrun /\ Call
  <2>1. Whole
    BY <1>1 DEF IInv
  <2>2. overrun' \in BOOLEAN
    <3>1. overrun \in BOOLEAN
      BY DEF IInv
    <3>2. overrun' = overrun \/ \E c \in Cache : AllocNew(c)
      BY <1>1 DEF Call, Kalloc, Kfree, AllocPartial, AllocEmpty, KmallocLarge, KmfreeLarge,
                  KmfreeObject
    <3>3. ASSUME NEW c \in Cache, AllocNew(c)
          PROVE  overrun' \in BOOLEAN
      BY <3>3 DEF AllocNew
    <3> QED
      BY <3>1, <3>2, <3>3
  <2>3. overrun' => SlabTypeOK'
    BY <1>1, <2>1, OverrunTyped
  <2>4. ~overrun' => Whole'
    BY <1>1, <2>1, CallGood
  <2> QED
    BY <2>2, <2>3, <2>4 DEF IInv
<1>2. CASE SlabBoot
  <2>1. PICK F, L : Good(kinit, F, L, {}, {}, {}) /\ IsHeap(kinit)
    BY KinitGood
  <2>2. Heap' = kinit
    BY <1>2, <2>1, HeapBecomes DEF SlabBoot
  <2> QED
    BY <1>2, <2>1, <2>2 DEF IInv, Whole, SlabBoot
<1>3. CASE UNCHANGED slabVars
  <2>1. /\ memlist' = memlist /\ word' = word /\ prev' = prev /\ slab' = slab /\ cache' = cache
        /\ live' = live /\ large' = large /\ raw' = raw /\ overrun' = overrun
    BY <1>3 DEF slabVars
  <2>2. Heap' = Heap
    BY <2>1 DEF Heap
  <2>3. Whole => Whole'
    BY <2>1, <2>2 DEF Whole
  <2>4. SlabTypeOK => SlabTypeOK'
    BY <2>1 DEF SlabTypeOK
  <2> QED
    BY <2>1, <2>3, <2>4 DEF IInv
<1> QED
  BY <1>1, <1>2, <1>3 DEF SlabNext

-----------------------------------------------------------------------------
(***************************************************************************)
(* What the invariant says in the terms of the module.                     *)
(***************************************************************************)
\* Walk finds the sequences of the invariant, and none is longer than there are pages.
LEMMA WalkIs ==
    ASSUME NEW F, NEW L, Good(Heap, F, L, live, large, raw)
    PROVE  /\ F \in Seqs /\ Distinct(F) /\ Walk(memlist) = F /\ Len(F) <= NPAGE
           /\ \A c \in Cache, l \in List :
                 /\ L[<<c, l>>] \in Seqs /\ Walk(cache[c].head[l]) = L[<<c, l>>]
                 /\ Len(L[<<c, l>>]) <= NPAGE
           /\ \A c \in Cache, l \in List : \A s : OnList(s, c, l) <=> On(L, <<c, l>>, s)
<1>1. /\ Heap.word = word /\ Heap.memlist = memlist /\ Heap.cache = cache
      /\ Arranged(Heap, F, L)
  BY DEF Heap, Good, Placed
<1>2. F \in Seq(Page) /\ Distinct(F) /\ Leads(word, memlist, F)
  BY <1>1 DEF Arranged, FreeList, Seqs
<1>3. Len(F) <= NPAGE
  BY <1>2, DistinctBounded
<1>4. Walk(memlist) = F
  BY <1>2, <1>3, WalkFollows
<1>5. ASSUME NEW c \in Cache, NEW l \in List
      PROVE  /\ L[<<c, l>>] \in Seqs /\ Walk(cache[c].head[l]) = L[<<c, l>>]
             /\ Len(L[<<c, l>>]) <= NPAGE
             /\ \A s : OnList(s, c, l) <=> On(L, <<c, l>>, s)
  <2>1. PICK x, q, h : x = <<c, l>> /\ q = L[x] /\ h = cache[c].head[l]
    OBVIOUS
  <2>2. x \in Key /\ x[1] = c /\ x[2] = l
    BY <2>1 DEF Key
  <2>3. q \in Seq(Page) /\ Distinct(q) /\ Leads(word, h, q)
    BY <1>1, <2>1, <2>2 DEF Arranged, Linked, HeadOf, Seqs
  <2>4. Len(q) <= NPAGE
    BY <2>3, DistinctBounded
  <2>5. Walk(h) = q
    BY <2>3, <2>4, WalkFollows
  <2>6. \A s : OnList(s, c, l) <=> In(q, s)
    BY <2>1, <2>5 DEF OnList, In
  <2> QED
    BY <2>1, <2>3, <2>4, <2>5, <2>6 DEF Seqs, On
<1> QED
  BY <1>2, <1>3, <1>4, <1>5 DEF Seqs

LEMMA WholeTyped ==
    ASSUME Whole, overrun \in BOOLEAN
    PROVE  SlabTypeOK
<1>1. PICK F, L : Good(Heap, F, L, live, large, raw)
  BY DEF Whole
<1>2. PICK m : m = Heap
  OBVIOUS
<1>3. /\ m.memlist = memlist /\ m.word = word /\ m.prev = prev /\ m.slab = slab
      /\ m.cache = cache
  BY <1>2 DEF Heap
<1>4. IsHeap(m) /\ Headers(slab) /\ Owned(m, F, live, large, raw) /\ Empties(m, L)
      /\ L \in [Key -> Seqs]
  BY <1>1, <1>2, <1>3 DEF Good, Placed, Arranged
<1>5. /\ memlist \in Page \cup {Null} /\ word \in [Page -> Page \cup {Null, Magic}]
      /\ prev \in [Page -> Page \cup {Null}]
  BY <1>3, <1>4 DEF IsHeap, Link, Word
<1>6. /\ DOMAIN slab \subseteq Page
      /\ \A s \in DOMAIN slab :
            /\ slab[s].cache \in Cache
            /\ slab[s].freenum \in 0 .. PerSlab[slab[s].cache]
            /\ slab[s].list \in Seq(1 .. (PerSlab[slab[s].cache] + 1))
  BY <1>4 DEF Headers, Header
<1>7. cache \in [Cache -> [head : [List -> Page \cup {Null}], empty_slabs : Nat]]
  <2>1. cache \in [Cache -> CacheType]
    BY <1>3, <1>4 DEF IsHeap
  <2>2. ASSUME NEW c \in Cache
        PROVE  cache[c].empty_slabs \in Nat
    <3>1. <<c, "empty">> \in Key
      BY DEF Key, List
    <3>2. Len(L[<<c, "empty">>]) \in Nat
      BY <1>4, <3>1 DEF Seqs
    <3> QED
      BY <1>3, <1>4, <3>2 DEF Empties, Count
  <2> QED
    BY <2>1, <2>2 DEF CacheType, Link
<1>8. live \subseteq Page \X Nat /\ large \subseteq Page /\ raw \subseteq Page
  BY <1>4 DEF Owned
<1> QED
  BY <1>5, <1>6, <1>7, <1>8 DEF SlabTypeOK

LEMMA WholeObjectsAccounted ==
    ASSUME Whole
    PROVE  ObjectsAccounted
<1>1. PICK F, L : Good(Heap, F, L, live, large, raw)
  BY DEF Whole
<1>2. PICK m : m = Heap
  OBVIOUS
<1>3. m.word = word /\ m.slab = slab
  BY <1>2 DEF Heap
<1>4. /\ Headers(slab) /\ Owned(m, F, live, large, raw) /\ Objects(slab, live)
      /\ Placed(m, F, L, live, large, raw, Null, Nowhere)
  BY <1>1, <1>2, <1>3 DEF Good, Placed
<1>5. ASSUME NEW s \in DOMAIN slab
      PROVE  LET n == slab[s].freenum
                 free == {slab[s].list[k] : k \in 1 .. n}
                 used == {o[2] : o \in {x \in live : x[1] = s}}
             IN  /\ Len(slab[s].list) = n + 1
                 /\ Cardinality(free) = n
                 /\ free \cap used = {}
                 /\ free \cup used = 1 .. PerSlab[slab[s].cache]
  <2>1. Header(slab[s]) /\ Once(slab[s], Used(live, s))
    BY <1>4 DEF Headers, Objects
  <2>2. Cardinality(Free(slab[s])) = slab[s].freenum
    <3>1. PICK h, used : h = slab[s] /\ used = Used(live, s)
      OBVIOUS
    <3>2. Header(h) /\ Once(h, used)
      BY <2>1, <3>1
    <3>3. Cardinality(Free(h)) = h.freenum
      BY ONLY <3>2, FreeCounted
    <3> QED
      BY <3>1, <3>3
  <2>3. /\ Free(slab[s]) = {slab[s].list[k] : k \in 1 .. slab[s].freenum}
        /\ Used(live, s) = {o[2] : o \in {x \in live : x[1] = s}}
    BY DEF Free, Used
  <2>4. Len(slab[s].list) = slab[s].freenum + 1
    BY <2>1 DEF Header
  <2>5. /\ Free(slab[s]) \cap Used(live, s) = {}
        /\ Free(slab[s]) \cup Used(live, s) = 1 .. PerSlab[slab[s].cache]
    BY <2>1 DEF Once
  <2> QED
    BY <2>2, <2>3, <2>4, <2>5
<1>6. \A p \in large : word[p] = Magic
  BY <1>3, <1>4 DEF Owned
<1>7. \A o \in live : word[o[1]] # Magic /\ o[1] \in DOMAIN slab
  <2>1. ASSUME NEW s \in DOMAIN slab
        PROVE  word[s] # Magic
    <3>1. s \in Page /\ Home(slab[s]) \in Key
      <4>1. Header(slab[s]) /\ s \in Page
        BY <1>4 DEF Headers
      <4> QED
        BY <4>1 DEF Header, Home, Kind, Key, List
    <3>2. s # Null
      BY <3>1, PageTyped
    <3>3. On(L, Home(slab[s]), s)
      BY <1>3, <1>4, <3>1, <3>2 DEF Placed, Homes
    <3>4. OnAny(L, s)
      BY <3>1, <3>3 DEF OnAny
    <3> QED
      BY <1>3, <1>4, <3>1, <3>4, SlabPages
  <2> QED
    BY <1>3, <1>4, <2>1 DEF Owned
<1>8. OnceEach
  BY <1>5 DEF OnceEach
<1> QED
  BY <1>6, <1>7, <1>8 DEF ObjectsAccounted, MagicTellsApart


\* A page is at one position of a sequence without repetitions, or at none.
LEMMA PositionCounted ==
    ASSUME NEW q \in Seqs, Distinct(q), NEW p
    PROVE  Cardinality({k \in 1 .. Len(q) : q[k] = p}) = IF In(q, p) THEN 1 ELSE 0
<1>1. CASE In(q, p)
  <2>1. PICK k \in 1 .. Len(q) : q[k] = p
    BY <1>1 DEF In
  <2>2. {j \in 1 .. Len(q) : q[j] = p} = {k}
    BY <2>1 DEF Distinct
  <2> QED
    BY <1>1, <2>2, FS_Singleton
<1>2. CASE ~In(q, p)
  <2>1. {j \in 1 .. Len(q) : q[j] = p} = {}
    BY <1>2 DEF In
  <2> QED
    BY <1>2, <2>1, FS_EmptySet
<1> QED
  BY <1>1, <1>2

\* A slab is on one list of its class, a page that is not a slab on none.
LEMMA ListsCounted ==
    ASSUME NEW F, NEW L, Good(Heap, F, L, live, large, raw), NEW p \in Page
    PROVE  /\ p \in DOMAIN slab => OnList(p, slab[p].cache, Kind(slab[p].cache, slab[p].freenum))
           /\ Cardinality({x \in Cache \X List : OnList(p, x[1], x[2])})
                  = IF p \in DOMAIN slab THEN 1 ELSE 0
<1>1. /\ Homes(slab, L, Null, Nowhere) /\ Headers(slab)
  BY DEF Good, Placed, Heap
<1>2. p # Null
  BY PageTyped
<1>3. ASSUME NEW y \in Key
      PROVE  OnList(p, y[1], y[2]) <=> p \in DOMAIN slab /\ y = Home(slab[p])
  <2>1. y[1] \in Cache /\ y[2] \in List /\ y = <<y[1], y[2]>>
    BY DEF Key
  <2>2. OnList(p, y[1], y[2]) <=> On(L, y, p)
    BY <2>1, WalkIs
  <2>3. On(L, y, p) <=> p \in DOMAIN slab /\ y = Home(slab[p])
    BY <1>1, <1>2 DEF Homes
  <2> QED
    BY <2>2, <2>3
<1>4. CASE p \in DOMAIN slab
  <2>1. PICK h, c, n : h = slab[p] /\ c = h.cache /\ n = h.freenum
    OBVIOUS
  <2>2. Header(h)
    BY <1>1, <1>4, <2>1 DEF Headers
  <2>3. c \in Cache /\ Kind(c, n) \in List
    BY <2>1, <2>2 DEF Header, Kind, List
  <2>4. PICK y : y = <<c, Kind(c, n)>>
    OBVIOUS
  <2>5. y \in Key /\ y[1] = c /\ y[2] = Kind(c, n) /\ y = Home(h)
    BY <2>1, <2>3, <2>4 DEF Key, Home
  <2>6. OnList(p, c, Kind(c, n))
    BY <1>3, <1>4, <2>1, <2>5
  <2>7. {x \in Cache \X List : OnList(p, x[1], x[2])} = {y}
    BY <1>3, <1>4, <2>1, <2>5 DEF Key
  <2> QED
    BY <1>4, <2>1, <2>6, <2>7, FS_Singleton
<1>5. CASE p \notin DOMAIN slab
  <2>1. {x \in Cache \X List : OnList(p, x[1], x[2])} = {}
    BY <1>3, <1>5 DEF Key
  <2> QED
    BY <1>5, <2>1, FS_EmptySet
<1> QED
  BY <1>4, <1>5

LEMMA WholePagesInPlace ==
    ASSUME Whole
    PROVE  PagesInPlace
<1>1. PICK F, L : Good(Heap, F, L, live, large, raw)
  BY DEF Whole
<1>2. PICK m : m = Heap
  OBVIOUS
<1>3. m.memlist = memlist /\ m.prev = prev /\ m.slab = slab /\ m.cache = cache
  BY <1>2 DEF Heap
<1>4. /\ Owned(m, F, live, large, raw) /\ Headers(slab) /\ Empties(m, L) /\ Linked(m, L)
  BY <1>1, <1>2, <1>3 DEF Good, Placed, Arranged
<1>5. /\ F \in Seqs /\ Distinct(F) /\ Walk(memlist) = F /\ Len(F) <= NPAGE
      /\ \A c \in Cache, l \in List :
            /\ L[<<c, l>>] \in Seqs /\ Walk(cache[c].head[l]) = L[<<c, l>>]
            /\ Len(L[<<c, l>>]) <= NPAGE
  BY <1>1, WalkIs
<1>6. PagePartition
  <2>1. ASSUME NEW p \in Lists
        PROVE  Len(Walk(p)) <= NPAGE
    <3>1. CASE p = memlist
      BY <1>5, <3>1
    <3>2. ASSUME NEW c \in Cache, NEW l \in List, p = cache[c].head[l]
          PROVE  Len(Walk(p)) <= NPAGE
      <4>1. PICK q : q = L[<<c, l>>]
        OBVIOUS
      <4>2. Walk(cache[c].head[l]) = q /\ Len(q) <= NPAGE
        BY <1>5, <4>1
      <4> QED
        BY <3>2, <4>2
    <3> QED
      BY <3>1, <3>2 DEF Lists
  <2>2. ASSUME NEW p \in Page
        PROVE  Places(p) = 1
    <3>1. PICK a, b, c, d : /\ a = IF In(F, p) THEN 1 ELSE 0
                            /\ b = IF p \in DOMAIN slab THEN 1 ELSE 0
                            /\ c = IF p \in large THEN 1 ELSE 0
                            /\ d = IF p \in raw THEN 1 ELSE 0
      OBVIOUS
    <3>2. Cardinality({k \in 1 .. Len(Walk(memlist)) : Walk(memlist)[k] = p}) = a
      BY <1>5, <3>1, PositionCounted
    <3>3. Cardinality({x \in Cache \X List : OnList(p, x[1], x[2])}) = b
      BY <1>1, <3>1, ListsCounted
    <3>4. Places(p) = a + b + c + d
      BY <3>1, <3>2, <3>3 DEF Places
    <3>5. a + b + c + d = 1
      BY <1>3, <1>4, <3>1 DEF Owned
    <3> QED
      BY <3>4, <3>5
  <2> QED
    BY <2>1, <2>2 DEF PagePartition
<1>7. OnRightList
  <2>1. ASSUME NEW s \in DOMAIN slab
        PROVE  LET c == slab[s].cache
                   n == slab[s].freenum
               IN  IF n = 0 THEN OnList(s, c, "full")
                   ELSE IF n = PerSlab[c] /\ n > 1 THEN OnList(s, c, "empty")
                   ELSE OnList(s, c, "partial")
    <3>1. OnList(s, slab[s].cache, Kind(slab[s].cache, slab[s].freenum))
      <4>1. s \in Page
        BY <1>4 DEF Headers
      <4> QED
        BY <1>1, <4>1, ListsCounted
    <3> QED
      BY <3>1 DEF Kind
  <2> QED
    BY <2>1 DEF OnRightList
<1>8. DoublyLinked
  <2>1. ASSUME NEW c \in Cache, NEW l \in List
        PROVE  LET w == Walk(cache[c].head[l])
               IN  \A k \in 1 .. Len(w) : prev[w[k]] = (IF k = 1 THEN Null ELSE w[k - 1])
    <3>1. PICK x, w : x = <<c, l>> /\ w = L[x]
      OBVIOUS
    <3>2. Walk(cache[c].head[l]) = w
      BY <1>5, <3>1
    <3>3. x \in Key
      BY <3>1 DEF Key
    <3>4. Back(prev, w)
      BY <1>3, <1>4, <3>1, <3>3 DEF Linked
    <3> QED
      BY <3>2, <3>4 DEF Back
  <2> QED
    BY <2>1 DEF DoublyLinked
<1>9. EmptyBounded
  <2>1. ASSUME NEW c \in Cache
        PROVE  /\ cache[c].empty_slabs = Len(Walk(cache[c].head["empty"]))
               /\ cache[c].empty_slabs <= MaxEmpty
    <3>1. Walk(cache[c].head["empty"]) = L[<<c, "empty">>]
      BY <1>5 DEF List
    <3>2. Count(m, c) = Len(L[<<c, "empty">>]) /\ Count(m, c) <= MaxEmpty
      BY <1>4 DEF Empties
    <3> QED
      BY <1>3, <3>1, <3>2 DEF Count
  <2> QED
    BY <2>1 DEF EmptyBounded
<1> QED
  BY <1>6, <1>7, <1>8, <1>9 DEF PagesInPlace

LEMMA GoodTypeOK == IInv => SlabTypeOK
BY WholeTyped DEF IInv

LEMMA GoodPagesInPlace == IInv => PagesInPlace
BY WholePagesInPlace DEF IInv, PagesInPlace

LEMMA GoodObjectsAccounted == IInv => ObjectsAccounted
BY WholeObjectsAccounted DEF IInv, ObjectsAccounted

-----------------------------------------------------------------------------
(***************************************************************************)
(* The theorems, for all classes, those that fill a page exactly included. *)
(***************************************************************************)
\* IInv is an invariant: kalloc, kfree, kmalloc and kmfree, of either kind, keep the
\* links those of sequences that share no page, whatever is handed out, until slabinit
\* overruns a page whose neighbour is in use.
THEOREM Inductive == SlabSpec => []IInv
<1>1. SlabInit => IInv
  BY InitGood
<1>2. IInv /\ [SlabNext]_slabVars => IInv'
  BY StepGood
<1> QED
  BY <1>1, <1>2, PTL DEF SlabSpec

\* Links, headers and counters of the heap have their types in every reachable state:
\* no counter of free objects leaves 0 .. objectsnum.
THEOREM TypeCorrect == SlabSpec => []SlabTypeOK
BY Inductive, GoodTypeOK, PTL

\* No page is lost and none has two owners, slabs are on the lists their counters call
\* for, linked in both directions, and empty slabs above MAX_EMPTY_SLABS are given back,
\* for any classes: the one event that ends it is slabinit writing behind its page.
THEOREM HeapPagesInPlace == SlabSpec => []PagesInPlace
BY Inductive, GoodPagesInPlace, PTL

\* No object is given to two callers or lost, and kmfree tells from the page's first
\* word whether it frees an object of a slab or a page, as long as slabinit has not
\* written behind its page.
THEOREM HeapObjectsAccounted == SlabSpec => []ObjectsAccounted
BY Inductive, GoodObjectsAccounted, PTL

=============================================================================
