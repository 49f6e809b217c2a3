------------------------------ MODULE ProcProofs ------------------------------
(***************************************************************************)
(* Proofs about processes: of Pid for every number of processes and of     *)
(* process numbers, and of Exec for all executables, argument vectors and  *)
(* sizes of a page, a pointer and user memory.                             *)
(***************************************************************************)
EXTENDS Pid, Exec, FiniteSetTheorems, WellFoundedInduction, TLAPS

-----------------------------------------------------------------------------
(***************************************************************************)
(* The inductive invariant: BitmapExact leaves out the reserved numbers,   *)
(* whose bits stay set for ever, so Marked says of every live process what *)
(* UniquePids rests on, that its bit is set.                               *)
(***************************************************************************)
Marked == \A p \in Live : pid[p] \in pid_bitmap

PidInv == PidTypeOK /\ UniquePids /\ BitmapExact /\ Marked

-----------------------------------------------------------------------------
\* Every candidate of the loop in allocpid is a number, and never 0.
LEMMA CandidateRange ==
    ASSUME last_pid \in Number, NEW k \in Step
    PROVE  Candidate(k) \in Number \ {0}
<1>1. CASE last_pid + k < MAXPID
  BY <1>1, BoundAssumption DEF Candidate, Number, Step
<1>2. CASE ~(last_pid + k < MAXPID)
  <2> DEFINE m == MAXPID - RESERVEDPID
             x == last_pid + k - MAXPID
  <2>1. m \in Nat /\ m > 0 /\ x \in Nat
    BY <1>2, BoundAssumption DEF Number, Step
  <2>2. x % m \in 0 .. (m - 1)
    BY <2>1
  <2>3. Candidate(k) = RESERVEDPID + (x % m)
    BY <1>2 DEF Candidate
  <2> QED
    BY <2>2, <2>3, BoundAssumption DEF Number
<1> QED
  BY <1>1, <1>2

\* The loop comes by every number that is not reserved before it gives up.
LEMMA CandidatesCover ==
    ASSUME last_pid \in Number, NEW n \in Number, n > RESERVEDPID
    PROVE  \E k \in Step : Candidate(k) = n
<1>1. CASE n > last_pid
  <2>1. n - last_pid \in Step /\ last_pid + (n - last_pid) = n /\ n < MAXPID
    BY <1>1, BoundAssumption DEF Number, Step
  <2>2. Candidate(n - last_pid) = n
    BY <2>1 DEF Candidate
  <2> QED
    BY <2>1, <2>2
<1>2. CASE n <= last_pid
  <2> DEFINE x == n - RESERVEDPID
             k == (MAXPID - last_pid) + x
  <2>1. k \in Step /\ last_pid + k - MAXPID = x /\ ~(last_pid + k < MAXPID)
    BY <1>2, BoundAssumption DEF Number, Step
  <2>2. x \in 0 .. (MAXPID - RESERVEDPID - 1) /\ MAXPID - RESERVEDPID \in Nat \ {0}
    BY BoundAssumption DEF Number
  <2>3. x % (MAXPID - RESERVEDPID) = x
    BY <2>2
  <2>4. Candidate(k) = RESERVEDPID + x
    BY <2>1, <2>3 DEF Candidate
  <2>5. RESERVEDPID + x = n
    BY BoundAssumption DEF Number
  <2> QED
    BY <2>1, <2>4, <2>5
<1> QED
  BY <1>1, <1>2, BoundAssumption DEF Number

-----------------------------------------------------------------------------
LEMMA PidInitInv == PidInit => PidInv
<1> SUFFICES ASSUME PidInit PROVE PidInv
  OBVIOUS
<1>1. Live = {}
  BY DEF PidInit, Live
<1> QED
  BY <1>1, BoundAssumption
  DEF PidInit, PidInv, PidTypeOK, UniquePids, BitmapExact, Marked, Number

\* The number allocpid gives to p has its bit clear, so no live process has it.
LEMMA AllocInv ==
    ASSUME PidInv, NEW p \in Proc, allocproc(p)
    PROVE  PidInv'
<1>1. PICK k \in Step :
        /\ Unused(k)
        /\ pid_bitmap' = pid_bitmap \cup {Candidate(k)}
        /\ last_pid' = Candidate(k)
        /\ pid' = [pid EXCEPT ![p] = Candidate(k)]
  BY DEF allocproc, allocpid
<1> DEFINE n == Candidate(k)
<1>2. n \in Number \ {0} /\ n \notin pid_bitmap
  BY <1>1, CandidateRange DEF PidInv, PidTypeOK, Unused
<1>3. n # NoPid
  BY <1>2 DEF Number, NoPid
<1>4. pid \in [Proc -> (Number \ {0}) \cup {NoPid}] /\ pid[p] = NoPid
  BY DEF PidInv, PidTypeOK, allocproc
<1>5. Live' = Live \cup {p} /\ p \notin Live
  BY <1>1, <1>3, <1>4 DEF Live
<1>6. pid'[p] = n /\ \A q \in Live : pid'[q] = pid[q] /\ pid[q] \in pid_bitmap
  BY <1>1, <1>4, <1>5 DEF PidInv, Marked, Live
<1> HIDE DEF n
<1>7. pid_bitmap' = pid_bitmap \cup {n} /\ last_pid' = n
  BY <1>1 DEF n
<1>8. PidTypeOK'
  <2>1. pid' \in [Proc -> (Number \ {0}) \cup {NoPid}]
    BY <1>1, <1>2, <1>4 DEF n
  <2> QED
    BY <2>1, <1>2, <1>7 DEF PidInv, PidTypeOK
<1>9. UniquePids'
  BY <1>2, <1>5, <1>6 DEF PidInv, UniquePids
<1>10. BitmapExact'
  BY <1>5, <1>6, <1>7 DEF PidInv, BitmapExact
<1>11. Marked'
  BY <1>5, <1>6, <1>7 DEF Marked
<1> QED
  BY <1>8, <1>9, <1>10, <1>11 DEF PidInv

\* freeproc clears the bit of p's number, which is no one else's.
LEMMA FreeInv ==
    ASSUME PidInv, NEW p \in Proc, Freeproc(p)
    PROVE  PidInv'
<1> DEFINE n == pid[p]
<1>1. /\ n # NoPid
      /\ pid_bitmap' = pid_bitmap \ Returned(n)
      /\ pid' = [pid EXCEPT ![p] = NoPid]
      /\ last_pid' = last_pid
  BY DEF Freeproc
<1>2. pid \in [Proc -> (Number \ {0}) \cup {NoPid}]
  BY DEF PidInv, PidTypeOK
<1>3. p \in Live /\ Live' = Live \ {p}
  BY <1>1, <1>2 DEF Live
<1>4. \A q \in Live' : pid'[q] = pid[q] /\ pid[q] # n
  BY <1>1, <1>2, <1>3 DEF PidInv, UniquePids
<1>5. \A q \in Live' : pid[q] \notin Returned(n)
  BY <1>4 DEF Returned
<1>6. PidTypeOK'
  <2>1. pid' \in [Proc -> (Number \ {0}) \cup {NoPid}]
    BY <1>1, <1>2
  <2> QED
    BY <2>1, <1>1 DEF PidInv, PidTypeOK
<1>7. UniquePids'
  BY <1>3, <1>4 DEF PidInv, UniquePids
<1>8. BitmapExact'
  <2> SUFFICES ASSUME NEW k \in Number, k > RESERVEDPID
               PROVE  k \in pid_bitmap' <=> \E q \in Live' : pid'[q] = k
    BY DEF BitmapExact
  <2>1. k \in pid_bitmap <=> \E q \in Live : pid[q] = k
    BY DEF PidInv, BitmapExact
  <2>2. CASE k = n
    <3>1. k \notin pid_bitmap'
      BY <1>1, <2>2 DEF Returned
    <3> QED
      BY <3>1, <2>2, <1>4
  <2>3. CASE k # n
    <3>1. k \in pid_bitmap' <=> k \in pid_bitmap
      BY <1>1, <2>3 DEF Returned
    <3>2. (\E q \in Live : pid[q] = k) <=> \E q \in Live' : pid'[q] = k
      BY <1>3, <1>4, <2>3
    <3> QED
      BY <2>1, <3>1, <3>2
  <2> QED
    BY <2>2, <2>3
<1>9. Marked'
  BY <1>1, <1>3, <1>4, <1>5 DEF PidInv, Marked
<1> QED
  BY <1>6, <1>7, <1>8, <1>9 DEF PidInv

THEOREM PidInductive == PidSpec => []PidInv
<1>1. PidInv /\ [PidNext]_pidVars => PidInv'
  <2> SUFFICES ASSUME PidInv, [PidNext]_pidVars PROVE PidInv'
    OBVIOUS
  <2>1. ASSUME NEW p \in Proc, allocproc(p) PROVE PidInv'
    BY <2>1, AllocInv
  <2>2. ASSUME NEW p \in Proc, Freeproc(p) PROVE PidInv'
    BY <2>2, FreeInv
  <2>3. CASE UNCHANGED pidVars
    BY <2>3 DEF pidVars, PidInv, PidTypeOK, UniquePids, BitmapExact, Marked, Live
  <2> QED
    BY <2>1, <2>2, <2>3 DEF PidNext
<1> QED
  BY <1>1, PidInitInv, PTL DEF PidSpec

-----------------------------------------------------------------------------
(***************************************************************************)
(* Results                                                                 *)
(***************************************************************************)
\* Numbers stay in range, and 0 is never given to a process.
THEOREM PidTypeCorrect == PidSpec => []PidTypeOK
<1>1. PidInv => PidTypeOK
  BY DEF PidInv
<1> QED
  BY <1>1, PidInductive, PTL

\* Live processes have different numbers.
THEOREM PidsUnique == PidSpec => []UniquePids
<1>1. PidInv => UniquePids
  BY DEF PidInv
<1> QED
  BY <1>1, PidInductive, PTL

\* No number above RESERVEDPID is lost or offered while it is in use.
THEOREM BitmapCorrect == PidSpec => []BitmapExact
<1>1. PidInv => BitmapExact
  BY DEF PidInv
<1> QED
  BY <1>1, PidInductive, PTL

\* allocpid never returns -1: if every candidate were taken, the numbers that are not
\* reserved would all belong to live processes, and there are not that many.
THEOREM AllocpidSucceeds == PidSpec => []NumberLeft
<1>1. PidInv => NumberLeft
  <2> SUFFICES ASSUME PidInv, ~NumberLeft PROVE FALSE
    OBVIOUS
  <2> DEFINE S == (RESERVEDPID + 1) .. (MAXPID - 1)
             owner == [n \in S |-> CHOOSE p \in Live : pid[p] = n]
  <2>1. \A n \in S : \E p \in Live : pid[p] = n
    <3> SUFFICES ASSUME NEW n \in S PROVE \E p \in Live : pid[p] = n
      OBVIOUS
    <3>1. n \in Number /\ n > RESERVEDPID
      BY BoundAssumption DEF Number
    <3>2. n \in pid_bitmap
      BY <3>1, CandidatesCover DEF PidInv, PidTypeOK, NumberLeft, Unused
    <3> QED
      BY <3>1, <3>2 DEF PidInv, BitmapExact
  <2>2. \A n \in S : owner[n] \in Proc /\ pid[owner[n]] = n
    BY <2>1 DEF Live
  <2>3. owner \in Injection(S, Proc)
    <3>1. owner \in [S -> Proc]
      BY <2>2
    <3>2. \A a, b \in S : owner[a] = owner[b] => a = b
      <4> HIDE DEF owner
      <4> QED
        BY <2>2
    <3> HIDE DEF owner, S
    <3> QED
      BY <3>1, <3>2 DEF Injection, IsInjective
  <2>4. Cardinality(S) <= Cardinality(Proc)
    BY <2>3, FS_Injection, MemoryAssumption
  <2>5. Cardinality(S) = MAXPID - 1 - RESERVEDPID
    BY FS_Interval, BoundAssumption
  <2> QED
    BY <2>4, <2>5, FS_CardinalityType, MemoryAssumption, BoundAssumption
<1> QED
  BY <1>1, PidInductive, PTL

-----------------------------------------------------------------------------
(***************************************************************************)
(* Numbers and pages.                                                      *)
(***************************************************************************)
LEMMA Division ==
    ASSUME NEW n \in Int, NEW d \in Nat \ {0}
    PROVE  /\ n \div d \in Int /\ n % d \in 0 .. (d - 1)
           /\ (n \div d) * d + (n % d) = n
<1>1. n \div d \in Int /\ n % d \in 0 .. (d - 1)
  OBVIOUS
<1>2. n = d * (n \div d) + (n % d)
  OBVIOUS
<1> QED
  BY <1>1, <1>2

LEMMA Quotient ==
    ASSUME NEW d \in Nat \ {0}, NEW l \in Int, NEW k \in 0 .. (d - 1), NEW n, n = l * d + k
    PROVE  n \in Int /\ n \div d = l /\ n % d = k
<1>1. l * d \in Int
  OBVIOUS
<1>2. n \in Int
  BY <1>1
<1>3. PICK q, r : q = n \div d /\ r = n % d
  OBVIOUS
<1>4. q \in Int /\ r \in 0 .. (d - 1) /\ q * d + r = l * d + k
  BY <1>2, <1>3, Division
<1>5. q = l
  <2>1. ASSUME q < l
        PROVE  FALSE
    <3>1. PICK e \in Nat : l = q + 1 + e
      BY <1>4, <2>1
    <3>2. l * d = q * d + d + e * d /\ e * d \in Nat
      BY <1>4, <3>1
    <3> QED
      BY <1>4, <3>2
  <2>2. ASSUME l < q
        PROVE  FALSE
    <3>1. PICK e \in Nat : q = l + 1 + e
      BY <1>4, <2>2
    <3>2. q * d = l * d + d + e * d /\ e * d \in Nat
      BY <1>4, <3>1
    <3> QED
      BY <1>4, <3>2
  <2> QED
    BY <1>4, <2>1, <2>2
<1> QED
  BY <1>2, <1>3, <1>4, <1>5

\* Between two multiples of d there is nothing.
LEMMA MultipleOrder ==
    ASSUME NEW d \in Nat \ {0}, NEW l \in Int, NEW m \in Int, l * d < m * d
    PROVE  l < m /\ (l + 1) * d <= m * d
<1>1. ASSUME m <= l
      PROVE  FALSE
  <2>1. PICK e \in Nat : l = m + e
    BY <1>1
  <2>2. l * d = m * d + e * d /\ e * d \in Nat /\ m * d \in Int
    BY <2>1
  <2> QED
    BY <2>2
<1>2. PICK e \in Nat : m = l + 1 + e
  BY <1>1
<1>3. m * d = (l + 1) * d + e * d /\ e * d \in Nat /\ (l + 1) * d \in Int
  BY <1>2
<1> QED
  BY <1>1, <1>3

\* A multiple of a multiple of d.
LEMMA Multiples ==
    ASSUME NEW d \in Nat \ {0}, NEW m \in Nat \ {0}, m % d = 0, NEW n \in Int, n % m = 0
    PROVE  n % d = 0
<1>1. PICK q, r : q = n \div m /\ r = m \div d
  OBVIOUS
<1>2. q \in Int /\ r \in Int /\ q * m = n /\ r * d = m
  BY <1>1, Division
<1>3. n = (q * r) * d + 0 /\ q * r \in Int
  <2>1. q * (r * d) = (q * r) * d
    BY <1>2
  <2> QED
    BY <1>2, <2>1
<1>4. 0 \in 0 .. (d - 1)
  OBVIOUS
<1> QED
  BY ONLY <1>3, <1>4, Quotient, d \in Nat \ {0}

LEMMA AlignedUp ==
    ASSUME NEW a \in Nat
    PROVE  AlignUp(a, PGSIZE) \in Nat /\ AlignUp(a, PGSIZE) >= a /\ AlignUp(a, PGSIZE) % PGSIZE = 0
<1>1. PGSIZE \in Nat \ {0} /\ a + PGSIZE - 1 \in Nat
  BY SizesAssumption
<1>2. PICK q, r : q = (a + PGSIZE - 1) \div PGSIZE /\ r = (a + PGSIZE - 1) % PGSIZE
  OBVIOUS
<1>3. q \in Int /\ r \in 0 .. (PGSIZE - 1) /\ q * PGSIZE + r = a + PGSIZE - 1
  BY <1>1, <1>2, Division
<1>4. AlignUp(a, PGSIZE) = q * PGSIZE
  BY <1>2 DEF AlignUp
<1>5. q * PGSIZE = q * PGSIZE + 0 /\ 0 \in 0 .. (PGSIZE - 1) /\ q * PGSIZE \in Int
  BY <1>1, <1>3
<1>6. (q * PGSIZE) % PGSIZE = 0
  BY ONLY <1>1, <1>3, <1>5, Quotient
<1> QED
  BY <1>1, <1>3, <1>4, <1>5, <1>6

LEMMA AlignedDown ==
    ASSUME NEW a \in Int
    PROVE  /\ AlignDown(a, ALIGN) \in Int /\ AlignDown(a, ALIGN) <= a
           /\ AlignDown(a, ALIGN) % ALIGN = 0
<1>1. ALIGN \in Nat \ {0}
  BY SizesAssumption
<1>2. PICK q, r : q = a \div ALIGN /\ r = a % ALIGN
  OBVIOUS
<1>3. q \in Int /\ r \in 0 .. (ALIGN - 1) /\ q * ALIGN + r = a
  BY <1>1, <1>2, Division
<1>4. AlignDown(a, ALIGN) = q * ALIGN
  BY <1>2 DEF AlignDown
<1>5. q * ALIGN = q * ALIGN + 0 /\ 0 \in 0 .. (ALIGN - 1) /\ q * ALIGN \in Int
  BY <1>1, <1>3
<1>6. (q * ALIGN) % ALIGN = 0
  BY ONLY <1>1, <1>3, <1>5, Quotient
<1> QED
  BY <1>1, <1>3, <1>4, <1>5, <1>6

LEMMA PageIs ==
    ASSUME NEW a \in Int
    PROVE  PageOf(a) \in Int /\ PageOf(a) * PGSIZE <= a /\ (PageOf(a) + 1) * PGSIZE > a
<1>1. PGSIZE \in Nat \ {0}
  BY SizesAssumption
<1>2. PICK q, r : q = a \div PGSIZE /\ r = a % PGSIZE
  OBVIOUS
<1>3. q \in Int /\ r \in 0 .. (PGSIZE - 1) /\ q * PGSIZE + r = a
  BY <1>1, <1>2, Division
<1>4. PageOf(a) = q
  BY <1>2 DEF PageOf
<1>5. (q + 1) * PGSIZE = q * PGSIZE + PGSIZE /\ q * PGSIZE \in Int
  BY <1>1, <1>3
<1> QED
  BY <1>1, <1>3, <1>4, <1>5

\* The pages below KERNBASE are those of the addresses below it.
LEMMA PageBounds ==
    ASSUME NEW a \in Int
    PROVE  a \in Addr <=> PageOf(a) \in VPage
<1>1. PGSIZE \in Nat \ {0} /\ STACKTOP \in Nat \ {0}
  BY SizesAssumption
<1>2. PICK t, v : t = PageOf(STACKTOP - 1) /\ v = PageOf(a)
  OBVIOUS
<1>3. STACKTOP - 1 \in Int
  BY <1>1
<1>4. t \in Int /\ t * PGSIZE <= STACKTOP - 1 /\ (t + 1) * PGSIZE > STACKTOP - 1
  BY <1>2, <1>3, PageIs
<1>5. v \in Int /\ v * PGSIZE <= a /\ (v + 1) * PGSIZE > a
  BY <1>2, PageIs
<1>6. VPage = 0 .. t
  BY <1>2 DEF VPage, PageOf
<1>7. (t + 1) * PGSIZE >= STACKTOP
  <2>1. (t + 1) * PGSIZE \in Int
    BY <1>1, <1>4
  <2> QED
    BY <1>1, <1>4, <2>1
<1>8. STACKTOP = (t + 1) * PGSIZE
  <2>1. PICK q, r : q = STACKTOP \div PGSIZE /\ r = STACKTOP % PGSIZE
    OBVIOUS
  <2>2. q \in Int /\ r = 0 /\ q * PGSIZE + r = STACKTOP
    BY <1>1, <2>1, Division, SizesAssumption
  <2>3. t * PGSIZE < q * PGSIZE
    BY <1>1, <1>4, <2>2
  <2>4. (t + 1) * PGSIZE <= q * PGSIZE
    BY ONLY <1>1, <1>4, <2>2, <2>3, MultipleOrder
  <2>5. (t + 1) * PGSIZE \in Int
    BY <1>1, <1>4
  <2> QED
    BY <1>1, <1>7, <2>2, <2>4, <2>5
<1>9. ASSUME a \in Addr
      PROVE  v \in 0 .. t
  <2>1. 0 * PGSIZE < (v + 1) * PGSIZE /\ v * PGSIZE < (t + 1) * PGSIZE
    BY <1>1, <1>5, <1>8, <1>9 DEF Addr
  <2>2. 0 < v + 1 /\ v < t + 1
    <3>1. 0 \in Int /\ v + 1 \in Int /\ t + 1 \in Int
      BY <1>4, <1>5
    <3> QED
      BY ONLY <1>1, <1>5, <2>1, <3>1, MultipleOrder
  <2> QED
    BY <1>4, <1>5, <2>2
<1>10. ASSUME v \in 0 .. t
       PROVE  a \in Addr
  <2>1. v * PGSIZE \in Nat
    BY <1>1, <1>10
  <2>2. PICK e \in Nat : t = v + e
    BY <1>4, <1>10
  <2>3. (t + 1) * PGSIZE = (v + 1) * PGSIZE + e * PGSIZE /\ e * PGSIZE \in Nat /\ (v + 1) * PGSIZE \in Int
    BY <1>1, <1>5, <2>2
  <2> QED
    BY <1>1, <1>5, <1>8, <2>1, <2>3 DEF Addr
<1> QED
  BY <1>2, <1>6, <1>9, <1>10

\* An address of a range lies on a page of it.
LEMMA PageOfRange ==
    ASSUME NEW a \in Addr, NEW from \in Int, NEW to \in Int, from <= a, a < to
    PROVE  PageOf(a) \in PagesOf(from, to)
<1>1. a \in Int
  BY DEF Addr
<1>2. PICK v : v = PageOf(a)
  OBVIOUS
<1>3. v \in VPage
  BY <1>1, <1>2, PageBounds
<1>4. v \in Int /\ v * PGSIZE <= a /\ (v + 1) * PGSIZE > a
  BY <1>1, <1>2, PageIs
<1>5. v * PGSIZE \in Int /\ (v + 1) * PGSIZE \in Int
  BY <1>4, SizesAssumption
<1>6. v * PGSIZE < to /\ (v + 1) * PGSIZE > from
  BY <1>1, <1>4, <1>5
<1> QED
  BY <1>2, <1>3, <1>6 DEF PagesOf

LEMMA StackHasPages == StackPages # {} /\ StackPages \subseteq VPage
<1>1. STACKTOP - 1 \in Addr /\ stack_bottom \in Int /\ stack_bottom <= STACKTOP - 1 /\ STACKTOP \in Int
  <2>1. PGSIZE >= 1 /\ PGSIZE \in Nat /\ STACKTOP \in Nat /\ STACKTOP >= 2 * PGSIZE
    BY SizesAssumption
  <2> QED
    BY <2>1 DEF Addr, stack_bottom
<1>2. STACKTOP - 1 < STACKTOP
  BY <1>1
<1>3. PageOf(STACKTOP - 1) \in PagesOf(stack_bottom, STACKTOP)
  BY ONLY <1>1, <1>2, PageOfRange
<1> QED
  BY <1>3 DEF StackPages, PagesOf

-----------------------------------------------------------------------------
(***************************************************************************)
(* The inductive invariant.  The tables below the root are shared, so the  *)
(* stack of the first program stays mapped for ever: a later call can load *)
(* its segments but never its stack.  Taken says so, and the segments of a *)
(* call that can still succeed are the whole of user memory (Image).       *)
(***************************************************************************)
Early == {"allocproc", "mapproc", "ehdr", "phdr", "phdr_read"}

Clean == mapped = {} /\ mem = [a \in Addr |-> Zero]
Taken == StackPages \cap mapped # {}

SegPages(e, s) == PagesOf(e[s].vaddr, End(e[s]))
InFile(a, e, s) == In(a, e[s], e[s].filesz)

\* Memory m with the pages M mapped, when the headers of e before n are loaded.
SegmentsMapped(e, n, M) ==
    \A s \in 1 .. (n - 1) : IsLoad(e[s]) => SegPages(e, s) \subseteq M
SegmentsApart(e, n) ==
    \A s, t \in 1 .. (n - 1) :
        IsLoad(e[s]) /\ IsLoad(e[t]) /\ s # t => SegPages(e, s) \cap SegPages(e, t) = {}
BytesLoaded(e, n, m) ==
    /\ \A a \in Addr : \A s \in 1 .. (n - 1) : InFile(a, e, s) => m[a] = Byte(s, a - e[s].vaddr)
    /\ \A a \in Addr : m[a] # Zero => \E s \in 1 .. (n - 1) : InFile(a, e, s)
EndsBelow(e, n, top) == \A s \in 1 .. (n - 1) : IsLoad(e[s]) => End(e[s]) <= top

Room(e, n, M, top) == SegmentsMapped(e, n, M) /\ SegmentsApart(e, n) /\ EndsBelow(e, n, top)
Image(e, n, M, m, top) == Room(e, n, M, top) /\ BytesLoaded(e, n, m)

Buffers(l) ==
    IF l \in {"phdr_read", "load", "argv"} THEN {"phdr_table"}
    ELSE IF l = "segment" THEN {"phdr_table", "seg_buf"}
    ELSE IF l = "strings" THEN {"phdr_table", "arg_ptrs"}
    ELSE {}

Kept ==
    /\ pc \notin {"idle"} \cup Stopped => iref = 1
    /\ pc = "idle" => iref = 0
    /\ pc \notin {"panic", "overrun"} => heap = Buffers(pc)

Progress ==
    /\ pc \in Early => i = 1 /\ max_va = 0
    /\ pc \in Early \cup {"idle"} => Clean \/ Taken
    /\ pc = "load" => i >= 1 /\ (Taken \/ Image(exe, i, mapped, mem, max_va))
    /\ pc = "segment" =>
          /\ i \in 1 .. Len(exe) /\ IsLoad(exe[i])
          /\ Taken \/ (Room(exe, i + 1, mapped, max_va) /\ BytesLoaded(exe, i, mem))
    /\ pc \in {"argv", "strings"} =>
          /\ i = Len(exe) + 1 /\ max_va <= stack_bottom /\ Taken
          /\ Image(exe, i, mapped, mem, max_va)
    /\ pc = "strings" => argv # <<>>

ExecInv == ExecTypeOK /\ Kept /\ Progress /\ ProgramReady

-----------------------------------------------------------------------------
(***************************************************************************)
(* Types.                                                                  *)
(***************************************************************************)
Header == [type : STRING, vaddr : Nat, filesz : Nat, memsz : Nat]

LEMMA ExeIs ==
    ASSUME ExecTypeOK
    PROVE  /\ exe \in Seq(Header) /\ Len(exe) \in Nat
           /\ \A s \in 1 .. Len(exe) : exe[s] \in Header /\ exe[s].vaddr \in Nat
                                       /\ exe[s].filesz \in Nat /\ exe[s].memsz \in Nat
                                       /\ (IsLoad(exe[s]) => exe[s].filesz <= exe[s].memsz)
<1>1. exe \in Seq(Header)
  <2>1. <<>> \in Seq(Header)
    OBVIOUS
  <2>2. exe \in Exe \cup {<<>>}
    BY DEF ExecTypeOK
  <2>3. Exe \subseteq Seq(Header)
    BY ExeAssumption DEF Header
  <2> QED
    BY <2>1, <2>2, <2>3
<1>2. ASSUME NEW s \in 1 .. Len(exe)
      PROVE  exe[s] \in Header /\ exe[s].vaddr \in Nat /\ exe[s].filesz \in Nat /\ exe[s].memsz \in Nat
  <2>1. exe[s] \in Header
    BY <1>1
  <2> QED
    BY <2>1 DEF Header
<1>3. ASSUME NEW s \in 1 .. Len(exe), IsLoad(exe[s])
      PROVE  exe[s].filesz <= exe[s].memsz
  <2>1. exe # <<>>
    OBVIOUS
  <2>2. exe \in Exe
    BY <2>1 DEF ExecTypeOK
  <2> QED
    BY <1>3, <2>2, ExeAssumption DEF IsLoad
<1>4. Len(exe) \in Nat
  BY <1>1
<1> QED
  BY <1>1, <1>2, <1>3, <1>4

LEMMA CellIs ==
    ASSUME NEW s \in Nat, NEW k \in Nat
    PROVE  Byte(s, k) \in Cell /\ Char(s, k) \in Cell /\ Ptr(s, k) \in Cell /\ Zero \in Cell
           /\ Byte(s, k) # Zero
BY DEF Byte, Char, Ptr, Cell, Zero

LEMMA ExecInitInv ==
    ASSUME ExecInit
    PROVE  ExecInv
<1>1. exe = <<>> /\ Len(exe) = 0 /\ i = 0 /\ max_va = 0
  BY DEF ExecInit
<1>2. mem \in [Addr -> Cell]
  BY DEF ExecInit, Cell
<1>3. 0 % PGSIZE = 0
  <2>1. PGSIZE \in Nat \ {0} /\ 0 = 0 * PGSIZE + 0 /\ 0 \in 0 .. (PGSIZE - 1)
    BY SizesAssumption
  <2> QED
    BY <2>1, Quotient
<1>4. ExecTypeOK
  BY <1>1, <1>2, <1>3 DEF ExecInit, ExecTypeOK, NoProc
<1>5. Kept
  BY DEF ExecInit, Kept, Buffers
<1>6. Progress
  BY DEF ExecInit, Progress, Clean, Early
<1>7. ProgramReady
  BY DEF ExecInit, ProgramReady, Loaded
<1> QED
  BY <1>4, <1>5, <1>6, <1>7 DEF ExecInv

-----------------------------------------------------------------------------
(***************************************************************************)
(* The steps up to the program headers.                                    *)
(***************************************************************************)
LEMMA EmptyImage ==
    ASSUME NEW e, Clean
    PROVE  Image(e, 1, mapped, mem, 0)
<1>1. 1 .. (1 - 1) = {}
  OBVIOUS
<1>2. \A a \in Addr : mem[a] = Zero
  BY DEF Clean
<1> QED
  BY <1>1, <1>2 DEF Image, Room, SegmentsMapped, SegmentsApart, BytesLoaded, EndsBelow

\* The machine stops, a call gives up, or the machine starts again.
LEMMA StopsInv ==
    ASSUME ExecInv, NEW l \in {"panic", "overrun"}, Stops(l)
    PROVE  ExecInv'
<1>1. pc' = l /\ l \in Stopped
  BY DEF Stops, Goto, Stopped
<1>2. ExecTypeOK'
  BY <1>1 DEF ExecInv, ExecTypeOK, Stops, callVars, memory
<1> QED
  BY <1>1, <1>2 DEF ExecInv, Kept, Progress, ProgramReady, Loaded, Early

LEMMA GivesUpInv ==
    ASSUME ExecInv, pc \notin Stopped, NEW buffers, Fails(buffers), Buffers(pc) \subseteq buffers
    PROVE  ExecInv'
<1>1. pc' = "freeproc" /\ heap' = {}
  BY DEF ExecInv, Kept, Fails, Goto, Stopped
<1>2. ExecTypeOK'
  BY <1>1 DEF ExecInv, ExecTypeOK, Fails, callVars, memory, Stopped
<1> QED
  BY <1>1, <1>2 DEF ExecInv, Kept, Buffers, Progress, ProgramReady, Loaded, Early, Stopped

LEMMA BootInv ==
    ASSUME ExecInv, ExecBoot
    PROVE  ExecInv'
<1>1. mem' \in [Addr -> Cell] /\ mem' = [a \in Addr |-> Zero] /\ mapped' = {} /\ pc' = "idle"
  BY DEF ExecBoot, Cell, Goto
<1>2. ExecTypeOK'
  BY <1>1 DEF ExecInv, ExecTypeOK, ExecBoot, NoProc, Goto, callVars
<1>3. Kept'
  BY <1>1 DEF ExecBoot, Kept, Buffers
<1>4. Clean'
  BY <1>1 DEF Clean
<1>5. Progress'
  BY <1>1, <1>4 DEF Progress, Early
<1>6. ProgramReady'
  BY <1>1 DEF ProgramReady, Loaded
<1> QED
  BY <1>2, <1>3, <1>5, <1>6 DEF ExecInv

\* A call that fails before anything is mapped.
LEMMA FailsInv ==
    ASSUME ExecInv, Returns(-1), UNCHANGED <<memory, heap, proc>>, iref' = 0,
           pc \in {"idle", "allocproc"}
    PROVE  ExecInv'
<1>1. pc' = "idle" /\ ret' = -1 /\ mapped' = mapped /\ mem' = mem /\ heap' = heap
  BY DEF Returns, Goto, memory
<1>2. ExecTypeOK'
  BY <1>1 DEF ExecInv, ExecTypeOK, Returns, callVars, memory
<1>3. heap = {}
  BY DEF ExecInv, Kept, Buffers
<1>4. Kept'
  BY <1>1, <1>3 DEF Kept, Buffers, Stopped
<1>5. Clean \/ Taken
  BY DEF ExecInv, Progress, Early, ExecTypeOK
<1>6. Clean' \/ Taken'
  BY <1>1, <1>5 DEF Clean, Taken
<1>7. Progress'
  BY <1>1, <1>6 DEF Progress, Early
<1>8. ProgramReady'
  BY <1>1 DEF ProgramReady, Loaded
<1> QED
  BY <1>2, <1>4, <1>7, <1>8 DEF ExecInv

LEMMA KexecInv ==
    ASSUME ExecInv, NEW e \in Exe, NEW av \in Argv, Kexec(e, av)
    PROVE  ExecInv'
<1>1. pc = "idle" /\ iref = 0 /\ heap = {}
  BY DEF ExecInv, Kept, Buffers, Kexec
<1>2. CASE Returns(-1) /\ UNCHANGED iref
  BY <1>1, <1>2, FailsInv DEF Kexec
<1>3. CASE Goto("allocproc") /\ exe' = e /\ argv' = av /\ i' = 1 /\ max_va' = 0
           /\ iref' = iref + 1 /\ UNCHANGED ret
  <2>1. pc' = "allocproc" /\ mapped' = mapped /\ mem' = mem /\ heap' = heap /\ proc' = proc
    BY <1>3 DEF Kexec, Goto, memory
  <2>2. e \in Seq(Header)
    BY ExeAssumption DEF Header
  <2>3. 1 \in 0 .. (Len(e) + 1)
    BY <2>2
  <2>4. 0 % PGSIZE = 0
    <3>1. PGSIZE \in Nat \ {0} /\ 0 = 0 * PGSIZE + 0 /\ 0 \in 0 .. (PGSIZE - 1)
      BY SizesAssumption
    <3> QED
      BY <3>1, Quotient
  <2>5. ExecTypeOK'
    BY <1>1, <1>3, <2>1, <2>3, <2>4 DEF ExecInv, ExecTypeOK
  <2>6. Kept'
    BY <1>1, <1>3, <2>1 DEF Kept, Buffers
  <2>7. Clean' \/ Taken'
    BY <1>1, <2>1 DEF ExecInv, Progress, Clean, Taken
  <2>8. Progress'
    BY <1>3, <2>1, <2>7 DEF Progress, Early
  <2>9. ProgramReady'
    BY <2>1 DEF ProgramReady, Loaded
  <2> QED
    BY <2>5, <2>6, <2>8, <2>9 DEF ExecInv
<1> QED
  BY <1>2, <1>3 DEF Kexec

LEMMA AllocprocInv ==
    ASSUME ExecInv, Allocproc
    PROVE  ExecInv'
<1>1. pc = "allocproc" /\ iref = 1 /\ Buffers(pc) = {} /\ pc \notin Stopped
  BY DEF ExecInv, Kept, Allocproc, Buffers, Stopped
<1>2. CASE Fails({})
  BY <1>1, <1>2, GivesUpInv
<1>3. CASE Returns(-1) /\ iref' = iref - 1 /\ UNCHANGED <<memory, heap, proc>>
  BY <1>1, <1>3, FailsInv
<1>4. CASE Goto("mapproc") /\ UNCHANGED <<callVars, memory, iref, heap, proc, ret>>
  BY <1>1, <1>4 DEF ExecInv, ExecTypeOK, Kept, Buffers, Progress, ProgramReady, Loaded, Early, Clean,
                    Taken, Goto, callVars, memory
<1> QED
  BY <1>2, <1>3, <1>4 DEF Allocproc

LEMMA MapprocInv ==
    ASSUME ExecInv, CallMapproc
    PROVE  ExecInv'
<1>1. pc = "mapproc" /\ iref = 1 /\ Buffers(pc) = {} /\ pc \notin Stopped
  BY DEF ExecInv, Kept, CallMapproc, Buffers, Stopped
<1>2. CASE Fails({})
  BY <1>1, <1>2, GivesUpInv
<1>3. CASE Goto("ehdr") /\ UNCHANGED <<callVars, memory, iref, heap, proc, ret>>
  BY <1>1, <1>3 DEF ExecInv, ExecTypeOK, Kept, Buffers, Progress, ProgramReady, Loaded, Early, Clean,
                    Taken, Goto, callVars, memory
<1> QED
  BY <1>2, <1>3 DEF CallMapproc

LEMMA ReadHeaderInv ==
    ASSUME ExecInv, ReadHeader
    PROVE  ExecInv'
<1>1. pc = "ehdr" /\ iref = 1 /\ Buffers(pc) = {} /\ pc \notin Stopped
  BY DEF ExecInv, Kept, ReadHeader, Buffers, Stopped
<1>2. CASE Fails({})
  BY <1>1, <1>2, GivesUpInv
<1>3. CASE Goto("phdr") /\ UNCHANGED <<callVars, memory, iref, heap, proc, ret>>
  BY <1>1, <1>3 DEF ExecInv, ExecTypeOK, Kept, Buffers, Progress, ProgramReady, Loaded, Early, Clean,
                    Taken, Goto, callVars, memory
<1> QED
  BY <1>2, <1>3 DEF ReadHeader

LEMMA AllocTableInv ==
    ASSUME ExecInv, AllocTable
    PROVE  ExecInv'
<1>1. pc = "phdr" /\ iref = 1 /\ Buffers(pc) = {} /\ heap = {} /\ pc \notin Stopped
  BY DEF ExecInv, Kept, AllocTable, Buffers, Stopped
<1>2. CASE Fails({})
  BY <1>1, <1>2, GivesUpInv
<1>3. CASE /\ Goto("phdr_read") /\ heap' = heap \cup {"phdr_table"}
           /\ UNCHANGED <<callVars, memory, iref, proc, ret>>
  BY <1>1, <1>3 DEF ExecInv, ExecTypeOK, Kept, Buffers, Progress, ProgramReady, Loaded, Early, Clean,
                    Taken, Goto, callVars, memory
<1> QED
  BY <1>2, <1>3 DEF AllocTable

LEMMA ReadTableInv ==
    ASSUME ExecInv, ReadTable
    PROVE  ExecInv'
<1>1. pc = "phdr_read" /\ iref = 1 /\ Buffers(pc) = {"phdr_table"} /\ heap = {"phdr_table"}
      /\ pc \notin Stopped
  BY DEF ExecInv, Kept, ReadTable, Buffers, Stopped
<1>2. CASE Fails({"phdr_table"})
  BY <1>1, <1>2, GivesUpInv
<1>3. CASE Stops("overrun")
  BY <1>3, StopsInv
<1>4. CASE Goto("load") /\ UNCHANGED <<callVars, memory, iref, heap, proc, ret>>
  <2>1. pc' = "load" /\ mapped' = mapped /\ mem' = mem /\ iref' = iref /\ heap' = heap
        /\ exe' = exe /\ i' = i /\ max_va' = max_va /\ argv' = argv /\ proc' = proc /\ ret' = ret
    BY <1>4 DEF Goto, callVars, memory
  <2>2. i = 1 /\ max_va = 0 /\ (Clean \/ Taken)
    BY <1>1 DEF ExecInv, Progress, Early
  <2>3. Taken \/ Image(exe, i, mapped, mem, max_va)
    BY <2>2, EmptyImage
  <2>4. ExecTypeOK'
    BY <2>1 DEF ExecInv, ExecTypeOK
  <2>5. Progress'
    BY <2>1, <2>2, <2>3 DEF Progress, Early, Taken
  <2> QED
    BY <1>1, <2>1, <2>4, <2>5 DEF ExecInv, Kept, Buffers, ProgramReady, Loaded
<1> QED
  BY <1>2, <1>3, <1>4 DEF ReadTable

-----------------------------------------------------------------------------
(***************************************************************************)
(* Loading.                                                                *)
(***************************************************************************)
\* The bytes of a segment lie on its pages.
LEMMA OnItsPages ==
    ASSUME ExecTypeOK, NEW s \in 1 .. Len(exe), NEW a \in Addr, InFile(a, exe, s)
    PROVE  PageOf(a) \in SegPages(exe, s)
<1>1. exe[s].vaddr \in Int /\ exe[s].memsz \in Nat /\ exe[s].filesz \in Nat
      /\ exe[s].filesz <= exe[s].memsz
  BY ExeIs DEF InFile, In
<1>2. exe[s].vaddr <= a /\ a < exe[s].vaddr + exe[s].filesz /\ a \in Int
  BY DEF InFile, In, Addr
<1>3. End(exe[s]) \in Int /\ a < End(exe[s])
  BY <1>1, <1>2 DEF End
<1>4. PageOf(a) \in PagesOf(exe[s].vaddr, End(exe[s]))
  <2>1. a \in Addr
    OBVIOUS
  <2> QED
    BY ONLY <2>1, <1>1, <1>2, <1>3, PageOfRange
<1> QED
  BY <1>4 DEF SegPages

\* What a loaded segment writes.
WithSegment(e, n, m) ==
    [a \in Addr |-> IF a >= e[n].vaddr /\ a < e[n].vaddr + e[n].filesz
                    THEN Byte(n, a - e[n].vaddr) ELSE m[a]]

\* The pages of segment n are mapped, then its bytes are written.
LEMMA RoomGrows ==
    ASSUME ExecTypeOK, NEW n \in 1 .. Len(exe), IsLoad(exe[n]),
           Room(exe, n, mapped, max_va), SegPages(exe, n) \cap mapped = {},
           NEW M, M = mapped \cup SegPages(exe, n),
           NEW top \in Nat, top >= max_va, top >= End(exe[n])
    PROVE  Room(exe, n + 1, M, top)
<1>1. \A s \in 1 .. (n + 1 - 1) : s = n \/ s \in 1 .. (n - 1)
  OBVIOUS
<1>2. \A s \in 1 .. (n - 1) : s \in 1 .. Len(exe) /\ s # n
  BY ExeIs
<1>3. SegmentsMapped(exe, n + 1, M)
  BY <1>1 DEF SegmentsMapped, Room
<1>4. \A s \in 1 .. (n - 1) : IsLoad(exe[s]) => SegPages(exe, s) \cap SegPages(exe, n) = {}
  BY DEF SegmentsMapped, Room
<1>5. SegmentsApart(exe, n + 1)
  BY <1>1, <1>4 DEF SegmentsApart, Room
<1>6. ASSUME NEW s \in 1 .. (n + 1 - 1), IsLoad(exe[s])
      PROVE  End(exe[s]) <= top
  <2>1. CASE s = n
    BY <2>1
  <2>2. CASE s \in 1 .. (n - 1)
    <3>1. End(exe[s]) <= max_va
      BY <1>6, <2>2 DEF Room, EndsBelow
    <3>2. exe[s].vaddr \in Nat /\ exe[s].memsz \in Nat /\ max_va \in Nat
      BY <1>2, <2>2, ExeIs DEF ExecTypeOK
    <3>3. End(exe[s]) \in Nat
      BY <3>2 DEF End
    <3> QED
      BY <3>1, <3>2, <3>3
  <2> QED
    BY <1>1, <2>1, <2>2
<1> QED
  BY <1>3, <1>5, <1>6 DEF Room, EndsBelow

LEMMA BytesGrow ==
    ASSUME ExecTypeOK, NEW n \in 1 .. Len(exe), IsLoad(exe[n]),
           SegmentsApart(exe, n + 1), BytesLoaded(exe, n, mem),
           NEW m, m = WithSegment(exe, n, mem)
    PROVE  BytesLoaded(exe, n + 1, m)
<1>1. \A s \in 1 .. (n + 1 - 1) : s = n \/ s \in 1 .. (n - 1)
  OBVIOUS
<1>2. \A s \in 1 .. (n - 1) : s \in 1 .. Len(exe) /\ s # n /\ s \in 1 .. (n + 1 - 1)
                              /\ n \in 1 .. (n + 1 - 1)
  BY ExeIs
<1>4. \A s \in 1 .. (n - 1) : IsLoad(exe[s]) => SegPages(exe, s) \cap SegPages(exe, n) = {}
  BY <1>2 DEF SegmentsApart
<1>6. \A a \in Addr : m[a] = IF InFile(a, exe, n) THEN Byte(n, a - exe[n].vaddr) ELSE mem[a]
  BY DEF WithSegment, InFile, In
<1>7. ASSUME NEW a \in Addr, NEW s \in 1 .. (n - 1), InFile(a, exe, s)
      PROVE  ~ InFile(a, exe, n)
  <2>1. IsLoad(exe[s]) /\ PageOf(a) \in SegPages(exe, s)
    BY <1>2, <1>7, OnItsPages DEF InFile, In
  <2>2. ASSUME InFile(a, exe, n)
        PROVE  FALSE
    <3>1. PageOf(a) \in SegPages(exe, n)
      BY <2>2, OnItsPages
    <3> QED
      BY <1>4, <2>1, <3>1
  <2> QED
    BY <2>2
<1>8. BytesLoaded(exe, n, mem)
  OBVIOUS
<1>9. ASSUME NEW a \in Addr, NEW s \in 1 .. (n + 1 - 1), InFile(a, exe, s)
      PROVE  m[a] = Byte(s, a - exe[s].vaddr)
  BY <1>1, <1>6, <1>7, <1>8, <1>9 DEF BytesLoaded
<1>10. ASSUME NEW a \in Addr, m[a] # Zero
       PROVE  \E s \in 1 .. (n + 1 - 1) : InFile(a, exe, s)
  <2>1. CASE InFile(a, exe, n)
    <3>1. n \in 1 .. (n + 1 - 1)
      OBVIOUS
    <3> QED
      BY <2>1, <3>1
  <2>2. CASE ~ InFile(a, exe, n)
    <3>1. mem[a] # Zero
      BY <1>6, <1>10, <2>2
    <3>2. PICK s \in 1 .. (n - 1) : InFile(a, exe, s)
      BY <1>8, <3>1 DEF BytesLoaded
    <3>3. s \in 1 .. (n + 1 - 1)
      OBVIOUS
    <3> QED
      BY <3>2, <3>3
  <2> QED
    BY <2>1, <2>2
<1> QED
  BY <1>9, <1>10 DEF BytesLoaded

\* A header that is not loaded, or has nothing in the file.
LEMMA BytesSkip ==
    ASSUME ExecTypeOK, NEW n \in 1 .. Len(exe), NEW m, BytesLoaded(exe, n, m),
           \A a \in Addr : ~ InFile(a, exe, n)
    PROVE  BytesLoaded(exe, n + 1, m)
<1>1. \A s \in 1 .. (n + 1 - 1) : s = n \/ s \in 1 .. (n - 1)
  OBVIOUS
<1>2. \A s \in 1 .. (n - 1) : s \in 1 .. (n + 1 - 1)
  OBVIOUS
<1> QED
  BY <1>1, <1>2 DEF BytesLoaded

LEMMA ImageSkips ==
    ASSUME ExecTypeOK, NEW n \in 1 .. Len(exe), ~ IsLoad(exe[n]), NEW M, NEW m, NEW top,
           Image(exe, n, M, m, top)
    PROVE  Image(exe, n + 1, M, m, top)
<1>1. \A s \in 1 .. (n + 1 - 1) : s = n \/ s \in 1 .. (n - 1)
  OBVIOUS
<1>2. Room(exe, n + 1, M, top)
  BY <1>1 DEF Image, Room, SegmentsMapped, SegmentsApart, EndsBelow
<1>3. BytesLoaded(exe, n + 1, m)
  BY BytesSkip DEF Image, InFile, In
<1> QED
  BY <1>2, <1>3 DEF Image

LEMMA Loading ==
    ASSUME ExecInv, pc = "load", i <= Len(exe)
    PROVE  /\ i \in 1 .. Len(exe) /\ ExecTypeOK /\ exe[i] \in Header
           /\ exe[i].vaddr \in Nat /\ exe[i].filesz \in Nat /\ exe[i].memsz \in Nat
           /\ i + 1 \in 0 .. (Len(exe) + 1) /\ i + 1 >= 1 /\ iref = 1
           /\ heap = {"phdr_table"} /\ Buffers(pc) = heap /\ pc \notin Stopped
           /\ Taken \/ Image(exe, i, mapped, mem, max_va)
<1>1. i >= 1 /\ ExecTypeOK /\ (Taken \/ Image(exe, i, mapped, mem, max_va))
  BY DEF ExecInv, Progress
<1>2. i \in 1 .. Len(exe) /\ i + 1 \in 0 .. (Len(exe) + 1) /\ i + 1 >= 1
  BY <1>1, ExeIs DEF ExecTypeOK
<1>3. iref = 1 /\ heap = {"phdr_table"} /\ Buffers(pc) = heap /\ pc \notin Stopped
  BY DEF ExecInv, Kept, Buffers, Stopped
<1> QED
  BY <1>1, <1>2, <1>3, ExeIs

LEMMA SkipSegmentInv ==
    ASSUME ExecInv, SkipSegment
    PROVE  ExecInv'
<1>1. pc = "load" /\ i \in 1 .. Len(exe) /\ ExecTypeOK /\ ~ IsLoad(exe[i])
      /\ i + 1 \in 0 .. (Len(exe) + 1) /\ i + 1 >= 1
      /\ (Taken \/ Image(exe, i, mapped, mem, max_va))
  BY Loading DEF SkipSegment
<1>2. pc' = pc /\ exe' = exe /\ argv' = argv /\ max_va' = max_va /\ mapped' = mapped /\ mem' = mem
      /\ iref' = iref /\ heap' = heap /\ proc' = proc /\ ret' = ret /\ i' = i + 1
  BY DEF SkipSegment, memory
<1>3. ExecTypeOK'
  BY <1>1, <1>2 DEF ExecTypeOK
<1>4. Taken \/ Image(exe, i + 1, mapped, mem, max_va)
  BY <1>1, ImageSkips
<1>5. Progress'
  BY <1>1, <1>2, <1>4 DEF Progress, Taken, Early
<1> QED
  BY <1>1, <1>2, <1>3, <1>5 DEF ExecInv, Kept, Buffers, ProgramReady, Loaded

LEMMA LoadSegmentInv ==
    ASSUME ExecInv, LoadSegment
    PROVE  ExecInv'
<1>1. pc = "load" /\ IsLoad(exe[i]) /\ i \in 1 .. Len(exe) /\ ExecTypeOK
      /\ exe[i].vaddr \in Nat /\ exe[i].filesz \in Nat /\ exe[i].memsz \in Nat
      /\ i + 1 \in 0 .. (Len(exe) + 1) /\ i + 1 >= 1 /\ iref = 1
      /\ heap = {"phdr_table"} /\ Buffers(pc) = heap /\ pc \notin Stopped
      /\ (Taken \/ Image(exe, i, mapped, mem, max_va))
  BY Loading DEF LoadSegment
<1>2. CASE Stops("panic")
  BY <1>2, StopsInv
<1>3. CASE Fails({"phdr_table"})
  BY <1>1, <1>3, GivesUpInv
<1>4. CASE MapSegment(exe[i])
  <2>1. exe' = exe /\ argv' = argv /\ mem' = mem /\ iref' = iref /\ proc' = proc /\ ret' = ret
    BY <1>4 DEF MapSegment
  <2>2. SegPages(exe, i) \cap mapped = {} /\ mapped' = mapped \cup SegPages(exe, i)
        /\ max_va' = IF VaEnd(exe[i]) > max_va THEN VaEnd(exe[i]) ELSE max_va
    BY <1>4 DEF MapSegment, Mapped, SegPages
  <2>3. End(exe[i]) \in Nat
    BY <1>1 DEF End
  <2>4. VaEnd(exe[i]) \in Nat /\ VaEnd(exe[i]) >= End(exe[i]) /\ VaEnd(exe[i]) % PGSIZE = 0
    BY <2>3, AlignedUp DEF VaEnd
  <2>5. max_va' \in Nat /\ max_va' % PGSIZE = 0 /\ max_va' >= max_va /\ max_va' >= End(exe[i])
    BY <1>1, <2>2, <2>3, <2>4 DEF ExecTypeOK
  <2>6. mapped' \subseteq VPage
    BY <1>1, <2>2 DEF ExecTypeOK, SegPages, PagesOf
  <2>7. Taken' \/ (Room(exe, i + 1, mapped', max_va') /\ BytesLoaded(exe, i, mem))
    <3>1. CASE Taken
      BY <2>2, <3>1 DEF Taken
    <3>2. CASE Image(exe, i, mapped, mem, max_va)
      <4>1. PICK M, top : M = mapped' /\ top = max_va'
        OBVIOUS
      <4>2. Room(exe, i, mapped, max_va) /\ BytesLoaded(exe, i, mem)
        BY <3>2 DEF Image
      <4>3. Room(exe, i + 1, M, top)
        BY ONLY <1>1, <2>2, <2>5, <4>1, <4>2, RoomGrows
      <4> QED
        BY <4>1, <4>2, <4>3
    <3> QED
      BY <1>1, <3>1, <3>2
  <2>8. CASE exe[i].filesz > 0 /\ Goto("segment") /\ heap' = heap \cup {"seg_buf"} /\ UNCHANGED i
    <3>1. pc' = "segment" /\ i' = i /\ heap' = {"phdr_table", "seg_buf"}
      BY <1>1, <2>8 DEF Goto
    <3>2. ExecTypeOK'
      BY <1>1, <2>1, <2>5, <2>6, <3>1 DEF ExecTypeOK
    <3>3. Progress'
      BY <1>1, <2>1, <2>7, <3>1 DEF Progress, Early
    <3> QED
      BY <1>1, <2>1, <3>1, <3>2, <3>3 DEF ExecInv, Kept, Buffers, ProgramReady, Loaded
  <2>9. CASE exe[i].filesz = 0 /\ i' = i + 1 /\ UNCHANGED <<pc, heap>>
    <3>1. pc' = "load" /\ i' = i + 1 /\ heap' = heap
      BY <1>1, <2>9
    <3>2. ExecTypeOK'
      BY <1>1, <2>1, <2>5, <2>6, <3>1 DEF ExecTypeOK
    <3>3. \A a \in Addr : ~ InFile(a, exe, i)
      BY <1>1, <2>9 DEF InFile, In, Addr
    <3>4. BytesLoaded(exe, i, mem) => BytesLoaded(exe, i + 1, mem)
      BY <1>1, <3>3, BytesSkip
    <3>5. Taken' \/ Image(exe, i + 1, mapped', mem, max_va')
      BY <2>7, <3>4 DEF Image
    <3>6. Progress'
      BY <1>1, <2>1, <3>1, <3>5 DEF Progress, Early
    <3> QED
      BY <1>1, <2>1, <3>1, <3>2, <3>6 DEF ExecInv, Kept, Buffers, ProgramReady, Loaded
  <2> QED
    BY <1>4, <2>8, <2>9 DEF MapSegment
<1> QED
  BY <1>2, <1>3, <1>4 DEF LoadSegment

LEMMA ReadSegmentInv ==
    ASSUME ExecInv, ReadSegment
    PROVE  ExecInv'
<1>1. pc = "segment" /\ ExecTypeOK /\ i \in 1 .. Len(exe) /\ IsLoad(exe[i]) /\ iref = 1
      /\ (Taken \/ (Room(exe, i + 1, mapped, max_va) /\ BytesLoaded(exe, i, mem)))
      /\ heap = {"phdr_table", "seg_buf"} /\ Buffers(pc) = heap /\ pc \notin Stopped
  BY DEF ReadSegment, ExecInv, Progress, Kept, Buffers, Stopped
<1>2. exe[i].vaddr \in Nat /\ exe[i].filesz \in Nat
      /\ i + 1 \in 0 .. (Len(exe) + 1) /\ i + 1 >= 1
  BY <1>1, ExeIs
<1>3. CASE Stops("overrun")
  BY <1>3, StopsInv
<1>4. CASE Fails({"seg_buf", "phdr_table"})
  BY <1>1, <1>4, GivesUpInv
<1>5. CASE CopySegment(exe[i])
  <2>1. exe' = exe /\ argv' = argv /\ max_va' = max_va /\ mapped' = mapped /\ iref' = iref
        /\ proc' = proc /\ ret' = ret /\ i' = i + 1 /\ pc' = "load" /\ heap' = {"phdr_table"}
        /\ mem' = WithSegment(exe, i, mem)
    BY <1>1, <1>5 DEF CopySegment, Goto, WithSegment
  <2>2. mem' \in [Addr -> Cell]
    <3>1. ASSUME NEW a \in Addr
          PROVE  WithSegment(exe, i, mem)[a] \in Cell
      <4>1. mem[a] \in Cell
        BY <1>1 DEF ExecTypeOK
      <4>2. CASE a >= exe[i].vaddr
        <5>1. a - exe[i].vaddr \in Nat /\ i \in Nat
          BY <1>1, <1>2, <4>2 DEF Addr
        <5>2. Byte(i, a - exe[i].vaddr) \in Cell
          BY <5>1, CellIs
        <5> QED
          BY <4>1, <5>2 DEF WithSegment
      <4>3. CASE ~ (a >= exe[i].vaddr)
        BY <4>1, <4>3 DEF WithSegment
      <4> QED
        BY <4>2, <4>3
    <3> QED
      BY <2>1, <3>1 DEF WithSegment
  <2>3. ExecTypeOK'
    BY <1>1, <1>2, <2>1, <2>2 DEF ExecTypeOK
  <2>4. Taken \/ Image(exe, i + 1, mapped, mem', max_va)
    <3>1. CASE Room(exe, i + 1, mapped, max_va) /\ BytesLoaded(exe, i, mem)
      <4>1. PICK m : m = mem'
        OBVIOUS
      <4>2. SegmentsApart(exe, i + 1)
        BY <3>1 DEF Room
      <4>3. BytesLoaded(exe, i + 1, m)
        BY <1>1, <2>1, <3>1, <4>1, <4>2, BytesGrow
      <4> QED
        BY <3>1, <4>1, <4>3 DEF Image
    <3> QED
      BY <1>1, <3>1
  <2>5. Progress'
    BY <1>2, <2>1, <2>4 DEF Progress, Early, Taken
  <2> QED
    BY <1>1, <2>1, <2>3, <2>5 DEF ExecInv, Kept, Buffers, ProgramReady, Loaded
<1> QED
  BY <1>3, <1>4, <1>5 DEF ReadSegment

LEMMA StackInv ==
    ASSUME ExecInv, Stack
    PROVE  ExecInv'
<1>1. pc = "load" /\ ExecTypeOK /\ i = Len(exe) + 1 /\ iref = 1 /\ heap = Buffers(pc)
      /\ Buffers(pc) = {"phdr_table"} /\ pc \notin Stopped
  <2>1. pc = "load" /\ ~ (i <= Len(exe)) /\ ExecTypeOK /\ iref = 1 /\ i \in 0 .. (Len(exe) + 1)
    BY ExeIs DEF Stack, ExecInv, ExecTypeOK, Kept, Stopped
  <2> QED
    BY <2>1, ExeIs DEF ExecInv, Kept, Buffers, Stopped
<1>2. CASE Stops("panic") \/ Fails({"phdr_table"})
  BY <1>1, <1>2, StopsInv, GivesUpInv
<1>3. CASE /\ max_va <= stack_bottom /\ Mapped(StackPages) /\ Goto("argv")
           /\ UNCHANGED <<callVars, mem, iref, heap, proc, ret>>
  <2>1. pc' = "argv" /\ exe' = exe /\ argv' = argv /\ i' = i /\ max_va' = max_va /\ mem' = mem
        /\ iref' = iref /\ heap' = heap /\ proc' = proc /\ ret' = ret
    BY <1>3 DEF callVars, Goto
  <2>2. StackPages \cap mapped = {} /\ mapped' = mapped \cup StackPages
    BY <1>3 DEF Mapped
  <2>3. Image(exe, i, mapped, mem, max_va)
    BY <1>1, <2>2 DEF ExecInv, Progress, Taken
  <2>4. Image(exe, i, mapped', mem, max_va)
    BY <2>2, <2>3 DEF Image, Room, SegmentsMapped
  <2>5. Taken'
    BY <2>2, StackHasPages DEF Taken
  <2>6. ExecTypeOK'
    BY <1>1, <2>1, <2>2, StackHasPages DEF ExecTypeOK
  <2>7. Progress'
    BY <1>1, <1>3, <2>1, <2>4, <2>5 DEF Progress, Early
  <2> QED
    BY <1>1, <2>1, <2>6, <2>7 DEF ExecInv, Kept, Buffers, ProgramReady, Loaded
<1> QED
  BY <1>2, <1>3 DEF Stack

-----------------------------------------------------------------------------
(***************************************************************************)
(* Induction on numbers, for the recursive function of StringAt.           *)
(***************************************************************************)
LEMMA LeastNumber ==
    ASSUME NEW S \in SUBSET Nat, S # {}
    PROVE  \E n \in S : \A k \in S : n <= k
<1> DEFINE R == OpToRel(<, Nat)
<1>1. IsWellFoundedOn(R, Nat)
  BY NatLessThanWellFounded
<1>2. \A x, y \in Nat : <<x, y>> \in R <=> x < y
  BY DEF OpToRel
<1> HIDE DEF R
<1>3. \E n \in S : \A k \in S : ~ (<<k, n>> \in R)
  BY <1>1, WFMin
<1>4. PICK n \in S : \A k \in S : ~ (<<k, n>> \in R)
  BY <1>3
<1>5. ASSUME NEW k \in S
      PROVE  n <= k
  <2>1. k \in Nat /\ n \in Nat
    OBVIOUS
  <2>2. ~ (k < n)
    BY <1>2, <1>4, <2>1
  <2> QED
    BY <2>1, <2>2
<1> QED
  BY <1>5

LEMMA Climb ==
    ASSUME NEW n \in Nat, NEW S, 0 \in S, \A j \in 1 .. n : j - 1 \in S => j \in S
    PROVE  \A j \in 0 .. n : j \in S
<1> DEFINE B == {j \in 0 .. n : j \notin S}
<1>1. CASE B = {}
  BY <1>1
<1>2. CASE B # {}
  <2>1. B \in SUBSET Nat
    OBVIOUS
  <2>2. PICK j \in B : \A k \in B : j <= k
    BY <1>2, <2>1, LeastNumber
  <2>3. j \in 0 .. n /\ j \notin S /\ j # 0
    BY <2>2
  <2>4. j \in 1 .. n /\ j - 1 \in 0 .. n /\ ~ (j <= j - 1)
    BY <2>3
  <2>5. j - 1 \in S
    BY <2>2, <2>4
  <2> QED
    BY <2>3, <2>4, <2>5
<1> QED
  BY <1>1, <1>2

Hanging(g, av, n) ==
    g = [k \in (Len(av) + 1 - n) .. (Len(av) + 1) |->
            IF k = Len(av) + 1 THEN STACKTOP ELSE g[k + 1] - av[k]]

LEMMA HangOn ==
    ASSUME NEW av \in Seq(Nat \ {0}), NEW n \in 1 .. Len(av), NEW g, Hanging(g, av, n - 1)
    PROVE  \E h : Hanging(h, av, n)
<1>1. PICK L : L = Len(av)
  OBVIOUS
<1>2. L \in Nat /\ n \in 1 .. L
  BY <1>1
<1>3. PICK h : h = [k \in (L + 1 - n) .. (L + 1) |-> IF k = L + 1 - n THEN g[k + 1] - av[k] ELSE g[k]]
  OBVIOUS
<1>4. \A k \in (L + 1 - (n - 1)) .. (L + 1) : g[k] = IF k = L + 1 THEN STACKTOP ELSE g[k + 1] - av[k]
  BY <1>1 DEF Hanging
<1>5. \A k \in (L + 1 - n) .. (L + 1) : h[k] = IF k = L + 1 THEN STACKTOP ELSE h[k + 1] - av[k]
  <2>1. SUFFICES ASSUME NEW k \in (L + 1 - n) .. (L + 1)
                 PROVE  h[k] = IF k = L + 1 THEN STACKTOP ELSE h[k + 1] - av[k]
    OBVIOUS
  <2>2. \A j \in (L + 1 - (n - 1)) .. (L + 1) :
            j \in (L + 1 - n) .. (L + 1) /\ j # L + 1 - n /\ h[j] = g[j]
    BY <1>2, <1>3
  <2>3. CASE k = L + 1 - n
    <3>1. k # L + 1 /\ k + 1 \in (L + 1 - (n - 1)) .. (L + 1)
      BY <1>2, <2>3
    <3>2. h[k] = g[k + 1] - av[k] /\ h[k + 1] = g[k + 1]
      BY <1>3, <2>2, <2>3, <3>1
    <3> QED
      BY <3>1, <3>2
  <2>4. CASE k # L + 1 - n
    <3>1. k \in (L + 1 - (n - 1)) .. (L + 1)
      BY <1>2, <2>4
    <3>2. CASE k = L + 1
      BY <1>4, <2>2, <3>1, <3>2
    <3>3. CASE k # L + 1
      <4>1. k + 1 \in (L + 1 - (n - 1)) .. (L + 1)
        BY <1>2, <3>1, <3>3
      <4> QED
        BY <1>4, <2>2, <3>1, <3>3, <4>1
    <3> QED
      BY <3>2, <3>3
  <2> QED
    BY <2>3, <2>4
<1>6. h = [k \in (L + 1 - n) .. (L + 1) |-> IF k = L + 1 THEN STACKTOP ELSE h[k + 1] - av[k]]
  BY <1>3, <1>5
<1>7. h = [k \in (Len(av) + 1 - n) .. (Len(av) + 1) |->
             IF k = Len(av) + 1 THEN STACKTOP ELSE h[k + 1] - av[k]]
  BY ONLY <1>1, <1>6
<1> QED
  BY ONLY <1>7 DEF Hanging

\* Each string ends where the one behind it begins, the last at the top of the stack.
LEMMA StringAtIs ==
    ASSUME NEW av \in Seq(Nat \ {0}), NEW at, at = StringAt(av)
    PROVE  /\ at[Len(av) + 1] = STACKTOP
           /\ \A k \in 1 .. Len(av) : at[k] = at[k + 1] - av[k]
<1>1. PICK L : L = Len(av)
  OBVIOUS
<1>2. L \in Nat
  BY <1>1
<1> DEFINE S == {n \in 0 .. L : \E h : Hanging(h, av, n)}
<1>3. 0 \in S
  <2>1. PICK h : h = [k \in (L + 1 - 0) .. (L + 1) |-> STACKTOP]
    OBVIOUS
  <2>2. h = [k \in (L + 1 - 0) .. (L + 1) |-> IF k = L + 1 THEN STACKTOP ELSE h[k + 1] - av[k]]
    BY <1>2, <2>1
  <2> QED
    BY <1>1, <1>2, <2>2 DEF Hanging
<1>4. \A n \in 1 .. L : n - 1 \in S => n \in S
  <2>1. SUFFICES ASSUME NEW n \in 1 .. L, n - 1 \in S
                 PROVE  n \in S
    OBVIOUS
  <2>2. PICK h : Hanging(h, av, n - 1)
    BY <2>1
  <2>3. n \in 1 .. Len(av) /\ n \in 0 .. L /\ av \in Seq(Nat \ {0})
    BY <1>1, <1>2
  <2>4. \E k : Hanging(k, av, n)
    BY ONLY <2>2, <2>3, HangOn
  <2> QED
    BY <2>3, <2>4
<1>5. \A n \in 0 .. L : n \in S
  <2> HIDE DEF S
  <2> QED
    BY ONLY <1>2, <1>3, <1>4, Climb
<1>6. \E h : Hanging(h, av, L)
  BY <1>2, <1>5
<1>7. \A h : Hanging(h, av, L) <=>
        h = [k \in 1 .. (L + 1) |-> IF k = L + 1 THEN STACKTOP ELSE h[k + 1] - av[k]]
  <2>1. L + 1 - L = 1
    BY <1>2
  <2> QED
    BY <1>1, <2>1 DEF Hanging
<1>8. \E h : h = [k \in 1 .. (L + 1) |-> IF k = L + 1 THEN STACKTOP ELSE h[k + 1] - av[k]]
  BY <1>6, <1>7
<1>9. at = [k \in 1 .. (L + 1) |-> IF k = L + 1 THEN STACKTOP ELSE at[k + 1] - av[k]]
  BY <1>1, <1>8 DEF StringAt
<1>10. \A k \in 1 .. (L + 1) : at[k] = IF k = L + 1 THEN STACKTOP ELSE at[k + 1] - av[k]
  BY <1>9
<1>11. L + 1 \in 1 .. (L + 1) /\ \A k \in 1 .. L : k \in 1 .. (L + 1) /\ k # L + 1
  BY <1>2
<1> QED
  BY <1>1, <1>10, <1>11

LEMMA StringsDescend ==
    ASSUME NEW av \in Seq(Nat \ {0}), NEW at, at = StringAt(av)
    PROVE  /\ \A k \in 1 .. (Len(av) + 1) : at[k] \in Int
           /\ \A k, l \in 1 .. (Len(av) + 1) : k < l => at[k] < at[l]
<1>1. PICK L : L = Len(av)
  OBVIOUS
<1>2. L \in Nat /\ \A k \in 1 .. L : av[k] \in Nat \ {0}
  BY <1>1
<1>3. at[L + 1] = STACKTOP /\ \A k \in 1 .. L : at[k] = at[k + 1] - av[k]
  BY <1>1, StringAtIs
<1> DEFINE S == {n \in 0 .. L : at[L + 1 - n] \in Int /\
                                \A l \in 1 .. (L + 1) : l > L + 1 - n =>
                                       at[l] \in Int /\ at[L + 1 - n] < at[l]}
<1>4. 0 \in S
  <2>1. L + 1 - 0 = L + 1 /\ 0 \in 0 .. L /\ \A l \in 1 .. (L + 1) : ~ (l > L + 1)
    BY <1>2
  <2>2. at[L + 1] \in Int
    BY <1>3, SizesAssumption
  <2> QED
    BY <2>1, <2>2
<1>5. \A n \in 1 .. L : n - 1 \in S => n \in S
  <2>1. SUFFICES ASSUME NEW n \in 1 .. L, n - 1 \in S
                 PROVE  n \in S
    OBVIOUS
  <2>2. PICK k : k = L + 1 - n
    OBVIOUS
  <2>3. k \in 1 .. L /\ L + 1 - (n - 1) = k + 1 /\ n \in 0 .. L
    BY <1>2, <2>2
  <2>4. at[k + 1] \in Int /\ \A l \in 1 .. (L + 1) : l > k + 1 => at[l] \in Int /\ at[k + 1] < at[l]
    BY <2>1, <2>3
  <2>5. at[k] = at[k + 1] - av[k] /\ av[k] \in Nat \ {0}
    BY <1>2, <1>3, <2>3
  <2>6. at[k] \in Int /\ at[k] < at[k + 1]
    BY <2>4, <2>5
  <2>7. ASSUME NEW l \in 1 .. (L + 1), l > k
        PROVE  at[l] \in Int /\ at[k] < at[l]
    <3>1. l = k + 1 \/ l > k + 1
      BY <2>3, <2>7
    <3>2. CASE l = k + 1
      BY <2>4, <2>6, <3>2
    <3>3. CASE l > k + 1
      <4>1. at[l] \in Int /\ at[k + 1] < at[l]
        BY <2>4, <3>3
      <4> QED
        BY <2>4, <2>6, <4>1
    <3> QED
      BY <3>1, <3>2, <3>3
  <2> QED
    BY <2>2, <2>3, <2>6, <2>7
<1>6. \A n \in 0 .. L : n \in S
  <2> HIDE DEF S
  <2> QED
    BY ONLY <1>2, <1>4, <1>5, Climb
<1>7. ASSUME NEW k \in 1 .. (L + 1)
      PROVE  at[k] \in Int /\ \A l \in 1 .. (L + 1) : l > k => at[k] < at[l]
  <2>1. L + 1 - k \in 0 .. L /\ L + 1 - (L + 1 - k) = k
    BY <1>2
  <2> QED
    BY <1>6, <2>1
<1> QED
  BY <1>1, <1>7

-----------------------------------------------------------------------------
(***************************************************************************)
(* The arguments.                                                          *)
(***************************************************************************)
LEMMA MultiplesLess ==
    ASSUME NEW d \in Nat \ {0}, NEW x \in Int, NEW y \in Int, x % d = 0, y % d = 0
    PROVE  (x - y) % d = 0
<1>1. PICK q, r : q = x \div d /\ r = y \div d
  OBVIOUS
<1>2. q \in Int /\ r \in Int /\ q * d = x /\ r * d = y
  BY <1>1, Division
<1>3. PICK e \in Int : q = r + e
  BY <1>2
<1>4. q * d = r * d + e * d /\ e * d \in Int
  BY <1>2, <1>3
<1>5. PICK z : z = x - y
  OBVIOUS
<1>6. z = e * d + 0 /\ e \in Int /\ 0 \in 0 .. (d - 1) /\ d \in Nat \ {0}
  BY <1>2, <1>4, <1>5
<1>7. z % d = 0
  BY ONLY <1>6, Quotient
<1> QED
  BY <1>5, <1>7

\* The pointers begin at a multiple of PTR, if not of ALIGN.
LEMMA BaseAligned ==
    ASSUME NEW n \in Nat, NEW a \in Int, a % ALIGN = 0, NEW b, b = a - n * PTR
    PROVE  b \in Int /\ b % PTR = 0
<1>1. PTR \in Nat \ {0} /\ ALIGN \in Nat \ {0} /\ ALIGN % PTR = 0
  BY SizesAssumption
<1>2. PICK c : c = n * PTR
  OBVIOUS
<1>3. c \in Int /\ b = a - c /\ b \in Int /\ c = a - b
  BY <1>1, <1>2
<1>4. a \in Int /\ a % ALIGN = 0
  OBVIOUS
<1>5. a % PTR = 0
  BY ONLY <1>1, <1>4, Multiples
<1>6. c % PTR = 0
  <2>1. c = n * PTR + 0 /\ n \in Int /\ 0 \in 0 .. (PTR - 1)
    BY <1>1, <1>2
  <2> QED
    BY ONLY <1>1, <2>1, Quotient
<1>7. (a - c) % PTR = 0
  BY ONLY <1>1, <1>3, <1>4, <1>5, <1>6, MultiplesLess
<1> QED
  BY <1>2, <1>3, <1>7

\* What main finds: memory m with the arguments av at b, below memory o.
ArgvAt(av, at, b, m, o) ==
    /\ b \in Addr /\ b % PTR = 0
    /\ m \in [Addr -> Cell]
    /\ \A k \in 1 .. Len(av) :
          /\ at[k] \in Addr
          /\ \A j \in 0 .. (PTR - 1) : m[b + (k - 1) * PTR + j] = Ptr(at[k], j)
          /\ \A j \in 0 .. (av[k] - 1) : at[k] + j < STACKTOP /\ m[at[k] + j] = Char(k, j)
    /\ \A j \in 0 .. (PTR - 1) : m[b + Len(av) * PTR + j] = Ptr(NULL, j)
    /\ \A a \in 0 .. (b - 1) : m[a] = o[a]

LEMMA SetupArgvWrites ==
    ASSUME NEW av \in Seq(Nat \ {0}), av # <<>>, ExecTypeOK,
           Copyable(mapped, ArgvBase(av), STACKTOP)
    PROVE  ArgvAt(av, StringAt(av), ArgvBase(av), Pointers(av, Strings(av, mem)), mem)
<1>1. PICK at, b, L : at = StringAt(av) /\ b = ArgvBase(av) /\ L = Len(av)
  OBVIOUS
<1>2. L \in Nat \ {0} /\ \A k \in 1 .. L : av[k] \in Nat \ {0}
  BY <1>1
<1>3. at[L + 1] = STACKTOP /\ \A k \in 1 .. L : at[k] = at[k + 1] - av[k]
  BY <1>1, StringAtIs
<1>4. /\ \A k \in 1 .. (L + 1) : at[k] \in Int
      /\ \A k, l \in 1 .. (L + 1) : k < l => at[k] < at[l]
  BY <1>1, StringsDescend
<1>5. PTR \in Nat \ {0} /\ ALIGN \in Nat \ {0} /\ STACKTOP \in Nat
  BY SizesAssumption
<1>6. 1 \in 1 .. (L + 1) /\ L + 1 \in 1 .. (L + 1) /\ 1 < L + 1
  BY <1>2
<1>7. at[1] \in Int /\ at[1] < STACKTOP
  BY <1>3, <1>4, <1>6
<1>8. PICK a1 : a1 = AlignDown(at[1], ALIGN)
  OBVIOUS
<1>9. a1 \in Int /\ a1 <= at[1] /\ a1 % ALIGN = 0
  BY <1>7, <1>8, AlignedDown
<1>10. b = a1 - (L + 1) * PTR
  BY <1>1, <1>8 DEF ArgvBase, ArraySize
<1>11. b \in Int /\ b % PTR = 0
  <2>1. L + 1 \in Nat
    BY <1>2
  <2> QED
    BY ONLY <1>9, <1>10, <2>1, BaseAligned
<1>12. L * PTR \in Nat /\ (L + 1) * PTR = L * PTR + PTR
  BY <1>2, <1>5
<1>13. b + (L + 1) * PTR <= at[1] /\ b + PTR <= at[1] /\ b < STACKTOP
  <2>1. PICK N, Q : N = (L + 1) * PTR /\ Q = L * PTR
    OBVIOUS
  <2>2. Q \in Nat /\ N = Q + PTR /\ b = a1 - N /\ b \in Int
    BY <1>10, <1>11, <1>12, <2>1
  <2>3. b + N <= at[1] /\ b + PTR <= at[1] /\ b < STACKTOP
    BY ONLY <1>5, <1>7, <1>9, <2>2
  <2> QED
    BY <2>1, <2>3
<1>14. \A a \in b .. (STACKTOP - 1) : a \in Addr
  <2>1. SUFFICES ASSUME NEW a \in b .. (STACKTOP - 1)
                 PROVE  a \in Addr
    OBVIOUS
  <2>2. a \in Int
    BY <1>5, <1>11
  <2>3. PageOf(a) \in VPage
    BY <1>1 DEF Copyable, ExecTypeOK
  <2> QED
    BY <2>2, <2>3, PageBounds
<1>15. b \in Addr /\ b \in Nat
  <2>1. b \in b .. (STACKTOP - 1)
    BY <1>5, <1>11, <1>13
  <2> QED
    BY <1>14, <2>1 DEF Addr
<1>16. \A k \in 1 .. L : at[k] \in Nat /\ at[k] \in Addr
  <2>1. SUFFICES ASSUME NEW k \in 1 .. L
                 PROVE  at[k] \in Nat /\ at[k] \in Addr
    OBVIOUS
  <2>2. k \in 1 .. (L + 1) /\ k < L + 1 /\ (k = 1 \/ 1 < k)
    BY <1>2
  <2>3. at[k] \in Int /\ at[k] < STACKTOP /\ at[1] <= at[k]
    BY <1>3, <1>4, <1>6, <1>7, <2>2
  <2>4. at[k] \in b .. (STACKTOP - 1)
    BY <1>5, <1>7, <1>11, <1>13, <2>3
  <2> QED
    BY <1>14, <2>4 DEF Addr
<1>17. PICK s, m : s = Strings(av, mem) /\ m = Pointers(av, Strings(av, mem))
  OBVIOUS
<1>18. \A a \in Addr : ~ (a >= at[1]) => s[a] = mem[a]
  BY <1>1, <1>17 DEF Strings
<1>19. \A a \in Addr : a >= at[1] =>
          LET k == CHOOSE n \in 1 .. L : a >= at[n] /\ a < at[n + 1]
          IN  s[a] = Char(k, a - at[k])
  BY <1>1, <1>17 DEF Strings
<1>20. ASSUME NEW k \in 1 .. L, NEW j \in 0 .. (av[k] - 1)
       PROVE  /\ at[k] + j \in Addr /\ at[k] + j >= at[1] /\ at[k] + j < STACKTOP
              /\ s[at[k] + j] = Char(k, j)
  <2>1. PICK a : a = at[k] + j
    OBVIOUS
  <2>2. av[k] \in Nat \ {0} /\ at[k] = at[k + 1] - av[k] /\ at[k] \in Nat /\ k + 1 \in 1 .. (L + 1)
        /\ k \in 1 .. (L + 1)
    BY <1>2, <1>3, <1>16
  <2>3. at[k + 1] \in Int
    BY <1>4, <2>2
  <2>4. a \in Nat /\ a >= at[k] /\ a < at[k + 1] /\ a - at[k] = j
    <3>1. PICK v, x, y : v = av[k] /\ x = at[k] /\ y = at[k + 1]
      OBVIOUS
    <3>2. v \in Nat /\ x \in Nat /\ y \in Int /\ x = y - v /\ j \in 0 .. (v - 1) /\ a = x + j
      BY <2>1, <2>2, <2>3, <3>1
    <3>3. a \in Nat /\ a >= x /\ a < y /\ a - x = j
      BY ONLY <3>2
    <3> QED
      BY <3>1, <3>3
  <2>5. at[k + 1] <= STACKTOP
    <3>1. k + 1 = L + 1 \/ k + 1 < L + 1
      BY <1>2
    <3> QED
      BY <1>3, <1>4, <1>5, <1>6, <2>2, <3>1
  <2>6. at[1] <= at[k]
    <3>1. k = 1 \/ 1 < k
      OBVIOUS
    <3> QED
      BY <1>4, <1>6, <1>7, <2>2, <3>1
  <2>7. a \in Addr /\ a >= at[1] /\ a < STACKTOP
    <3>1. PICK x, y, z : x = at[1] /\ y = at[k] /\ z = at[k + 1]
      OBVIOUS
    <3>2. x \in Int /\ y \in Nat /\ z \in Int /\ a \in Nat /\ a >= y /\ a < z /\ z <= STACKTOP /\ x <= y
      BY <1>7, <2>2, <2>3, <2>4, <2>5, <2>6, <3>1
    <3>3. a \in 0 .. (STACKTOP - 1) /\ a >= x /\ a < STACKTOP
      BY ONLY <1>5, <3>2
    <3> QED
      BY <3>1, <3>3 DEF Addr
  <2>8. ASSUME NEW n \in 1 .. L, a >= at[n], a < at[n + 1]
        PROVE  n = k
    <3>1. n \in 1 .. (L + 1) /\ n + 1 \in 1 .. (L + 1)
      BY <1>2
    <3>2. at[n] \in Int /\ at[n + 1] \in Int
      BY <1>4, <3>1
    <3>3. ASSUME n < k
          PROVE  FALSE
      <4>1. n + 1 = k \/ n + 1 < k
        BY <3>3
      <4>2. at[n + 1] <= at[k]
        BY <1>4, <2>2, <3>1, <3>2, <4>1
      <4> QED
        BY <2>2, <2>4, <2>8, <3>2, <4>2
    <3>4. ASSUME k < n
          PROVE  FALSE
      <4>1. k + 1 = n \/ k + 1 < n
        BY <3>4
      <4>2. at[k + 1] <= at[n]
        BY <1>4, <2>2, <2>3, <3>1, <3>2, <4>1
      <4> QED
        BY <2>3, <2>4, <2>8, <3>2, <4>2
    <3> QED
      BY <3>3, <3>4
  <2>9. k = CHOOSE n \in 1 .. L : a >= at[n] /\ a < at[n + 1]
    BY <2>4, <2>8
  <2>10. s[a] = Char(k, a - at[k])
    BY <1>19, <2>7, <2>9
  <2> QED
    BY <2>1, <2>4, <2>7, <2>10
<1>21. \A a \in Addr : ~ (a >= b /\ a < b + (L + 1) * PTR) => m[a] = s[a]
  BY <1>1, <1>17 DEF Pointers
<1>22. \A a \in Addr : a >= b /\ a < b + (L + 1) * PTR =>
          m[a] = LET n == (a - b) \div PTR + 1
                 IN  Ptr(IF n <= L THEN at[n] ELSE NULL, (a - b) % PTR)
  BY <1>1, <1>17 DEF Pointers
<1>23. ASSUME NEW k \in 1 .. (L + 1), NEW j \in 0 .. (PTR - 1)
       PROVE  m[b + (k - 1) * PTR + j] = Ptr(IF k <= L THEN at[k] ELSE NULL, j)
  <2>1. PICK o : o = (k - 1) * PTR + j
    OBVIOUS
  <2>2. k - 1 \in Nat /\ PTR \in Nat \ {0}
    BY <1>5
  <2>3. o \in Int /\ o \div PTR = k - 1 /\ o % PTR = j
    <3>1. PICK l : l = k - 1
      OBVIOUS
    <3>2. l \in Int /\ j \in 0 .. (PTR - 1) /\ o = l * PTR + j /\ PTR \in Nat \ {0}
      BY <2>1, <2>2, <3>1
    <3>3. o \in Int /\ o \div PTR = l /\ o % PTR = j
      BY ONLY <3>2, Quotient
    <3> QED
      BY <3>1, <3>3
  <2>4. (k - 1) * PTR + PTR <= (L + 1) * PTR /\ (k - 1) * PTR \in Nat
    <3>1. PICK e \in Nat : L + 1 = k + e
      BY <1>2
    <3>2. (L + 1) * PTR = (k - 1) * PTR + PTR + e * PTR /\ e * PTR \in Nat /\ (k - 1) * PTR \in Nat
      BY <2>2, <3>1
    <3> QED
      BY <1>5, <3>2
  <2>5. o >= 0 /\ o < (L + 1) * PTR
    <3>1. PICK N, q : N = (L + 1) * PTR /\ q = (k - 1) * PTR
      OBVIOUS
    <3>2. N \in Nat /\ q \in Nat /\ q + PTR <= N /\ o = q + j
      BY <1>5, <1>12, <2>1, <2>4, <3>1
    <3>3. o >= 0 /\ o < N
      BY ONLY <1>5, <3>2, j \in 0 .. (PTR - 1)
    <3> QED
      BY <3>1, <3>3
  <2>6. b + o >= b /\ b + o < b + (L + 1) * PTR /\ b + o \in Int /\ b + o - b = o /\ b + o < STACKTOP
    <3>1. PICK N, x : N = (L + 1) * PTR /\ x = at[1]
      OBVIOUS
    <3>2. N \in Nat /\ b + N <= x /\ x \in Int /\ x < STACKTOP /\ o >= 0 /\ o < N
      BY <1>5, <1>7, <1>12, <1>13, <2>5, <3>1
    <3>3. b + o >= b /\ b + o < b + N /\ b + o \in Int /\ b + o - b = o /\ b + o < STACKTOP
      BY ONLY <1>5, <1>11, <2>3, <3>2
    <3> QED
      BY <3>1, <3>3
  <2>7. b + o \in Addr
    <3>1. b + o \in b .. (STACKTOP - 1)
      BY <1>5, <1>11, <2>6
    <3> QED
      BY <1>14, <3>1
  <2>8. m[b + o] = Ptr(IF k <= L THEN at[k] ELSE NULL, j)
    <3>1. o \div PTR + 1 = k
      BY <2>2, <2>3
    <3>2. PICK a : a = b + o
      OBVIOUS
    <3>3. a \in Addr /\ a >= b /\ a < b + (L + 1) * PTR /\ a - b = o
      <4>1. PICK N : N = (L + 1) * PTR
        OBVIOUS
      <4>2. b + o >= b /\ b + o < b + N /\ b + o - b = o
        BY ONLY <2>6, <4>1
      <4>3. a >= b /\ a < b + N /\ a - b = o
        BY ONLY <1>11, <2>3, <3>2, <4>2
      <4>4. a \in Addr
        BY ONLY <2>7, <3>2
      <4> QED
        BY ONLY <4>1, <4>3, <4>4
    <3>4. m[a] = Ptr(IF o \div PTR + 1 <= L THEN at[o \div PTR + 1] ELSE NULL, o % PTR)
      BY <1>22, <3>3
    <3> QED
      BY <2>3, <3>1, <3>2, <3>4
  <2>9. b + (k - 1) * PTR + j = b + o
    BY <1>11, <2>1, <2>2, <2>4
  <2> QED
    BY <2>8, <2>9
<1>24. \A a \in 0 .. (b - 1) : m[a] = mem[a]
  <2>1. SUFFICES ASSUME NEW a \in 0 .. (b - 1)
                 PROVE  m[a] = mem[a]
    OBVIOUS
  <2>2. a \in Addr /\ ~ (a >= b) /\ ~ (a >= at[1])
    BY <1>5, <1>7, <1>12, <1>13, <1>15 DEF Addr
  <2> QED
    BY <1>18, <1>21, <2>2
<1>25. ASSUME NEW k \in 1 .. L, NEW j \in 0 .. (av[k] - 1)
       PROVE  at[k] + j < STACKTOP /\ m[at[k] + j] = Char(k, j)
  <2>1. at[k] + j \in Addr /\ at[k] + j >= at[1] /\ at[k] + j < STACKTOP /\ s[at[k] + j] = Char(k, j)
    BY <1>20
  <2>2. at[k] + j \in Int
    BY <2>1 DEF Addr
  <2>3. PICK N, x, y : N = (L + 1) * PTR /\ x = at[1] /\ y = at[k] + j
    OBVIOUS
  <2>4. N \in Nat /\ b + N <= x /\ x \in Int /\ y \in Int /\ y >= x /\ b \in Int
    <3>1. N \in Nat
      BY <1>5, <1>12, <2>3
    <3>2. b + N <= x
      BY <1>13, <2>3
    <3>3. x \in Int /\ y \in Int /\ y >= x
      BY <1>7, <2>1, <2>2, <2>3
    <3> QED
      BY <1>11, <3>1, <3>2, <3>3
  <2>5. ~ (y < b + N)
    BY ONLY <2>4
  <2> QED
    BY <1>21, <2>1, <2>3, <2>5
<1>26. m \in [Addr -> Cell]
  <2>1. ASSUME NEW a \in Addr
        PROVE  m[a] \in Cell
    <3>1. a \in Int
      BY DEF Addr
    <3>2. CASE a >= b /\ a < b + (L + 1) * PTR
      <4>1. PICK o : o = a - b
        OBVIOUS
      <4>2. o \in Nat /\ o \in Int
        BY <1>11, <3>1, <3>2, <4>1
      <4>3. PICK q, r : q = o \div PTR /\ r = o % PTR
        OBVIOUS
      <4>4. q \in Int /\ r \in 0 .. (PTR - 1) /\ q * PTR + r = o
        BY <1>5, <4>2, <4>3, Division
      <4>5. q >= 0
        BY <1>5, <4>2, <4>3
      <4>6. q + 1 \in Nat /\ r \in Nat /\ (q + 1 <= L => q + 1 \in 1 .. L)
        BY <1>2, <1>5, <4>4, <4>5
      <4>7. PICK to : to = IF q + 1 <= L THEN at[q + 1] ELSE NULL
        OBVIOUS
      <4>8. to \in Nat
        BY <1>16, <4>6, <4>7 DEF NULL
      <4>9. m[a] = Ptr(to, r)
        BY <1>22, <3>2, <4>1, <4>3, <4>7
      <4> QED
        BY <4>6, <4>8, <4>9, CellIs
    <3>3. CASE ~ (a >= b /\ a < b + (L + 1) * PTR)
      <4>1. m[a] = s[a]
        BY <1>21, <3>3
      <4>2. CASE ~ (a >= at[1])
        BY <1>18, <4>1, <4>2 DEF ExecTypeOK
      <4>3. CASE a >= at[1]
        <5> DEFINE Above == {n \in 1 .. (L + 1) : a < at[n]}
        <5>1. Above \in SUBSET Nat /\ L + 1 \in Above
          BY <1>3, <1>5, <1>6 DEF Addr
        <5>2. PICK n \in Above : \A l \in Above : n <= l
          BY <5>1, LeastNumber
        <5>3. n \in 1 .. (L + 1) /\ a < at[n]
          BY <5>2
        <5>4. n # 1
          BY <1>7, <3>1, <4>3, <5>3
        <5>5. n - 1 \in 1 .. L /\ n - 1 \in 1 .. (L + 1) /\ ~ (n <= n - 1) /\ n - 1 + 1 = n
          BY <1>2, <5>3, <5>4
        <5>6. ~ (a < at[n - 1])
          BY <5>2, <5>5
        <5>7. at[n - 1] \in Nat
          BY <1>16, <5>5
        <5>8. a >= at[n - 1]
          BY <3>1, <5>6, <5>7
        <5>9. PICK k : k = CHOOSE l \in 1 .. L : a >= at[l] /\ a < at[l + 1]
          OBVIOUS
        <5>10. k \in 1 .. L /\ a >= at[k]
          BY <5>3, <5>5, <5>8, <5>9
        <5>11. at[k] \in Nat /\ k \in Nat
          BY <1>16, <5>10
        <5>12. a - at[k] \in Nat
          BY <3>1, <5>10, <5>11
        <5>13. s[a] = Char(k, a - at[k])
          BY <1>19, <4>3, <5>9
        <5> QED
          BY <4>1, <5>11, <5>12, <5>13, CellIs
      <4> QED
        BY <4>2, <4>3
    <3> QED
      BY <3>2, <3>3
  <2>2. m = [a \in Addr |-> m[a]]
    BY <1>17 DEF Pointers
  <2> QED
    BY <2>1, <2>2
<1>27. \A k \in 1 .. L :
          /\ at[k] \in Addr
          /\ \A j \in 0 .. (PTR - 1) : m[b + (k - 1) * PTR + j] = Ptr(at[k], j)
          /\ \A j \in 0 .. (av[k] - 1) : at[k] + j < STACKTOP /\ m[at[k] + j] = Char(k, j)
  <2>1. \A k \in 1 .. L : k \in 1 .. (L + 1) /\ k <= L
    BY <1>2
  <2> QED
    BY <1>16, <1>23, <1>25, <2>1
<1>28. \A j \in 0 .. (PTR - 1) : m[b + L * PTR + j] = Ptr(NULL, j)
  <2>1. SUFFICES ASSUME NEW j \in 0 .. (PTR - 1)
                 PROVE  m[b + L * PTR + j] = Ptr(NULL, j)
    OBVIOUS
  <2>2. PICK k : k = L + 1
    OBVIOUS
  <2>3. k \in 1 .. (L + 1) /\ k - 1 = L /\ ~ (k <= L)
    BY <1>2, <2>2
  <2>4. m[b + (k - 1) * PTR + j] = Ptr(NULL, j)
    BY <1>23, <2>3
  <2> QED
    BY <2>3, <2>4
<1>29. ArgvAt(av, at, b, m, mem)
  BY <1>1, <1>11, <1>15, <1>24, <1>26, <1>27, <1>28 DEF ArgvAt
<1> QED
  BY <1>1, <1>17, <1>29

-----------------------------------------------------------------------------
(***************************************************************************)
(* The end of a call.                                                      *)
(***************************************************************************)
LEMMA ImageReady ==
    ASSUME ExecTypeOK, Image(exe, Len(exe) + 1, mapped, mem, max_va), max_va <= stack_bottom,
           mapped' = mapped, exe' = exe,
           NEW sp \in 0 .. STACKTOP, proc'.sp = sp, proc'.sz = max_va, proc'.brk = max_va,
           \A a \in 0 .. (sp - 1) : mem'[a] = mem[a]
    PROVE  ImageLoaded'
<1>1. PICK L : L = Len(exe)
  OBVIOUS
<1>2. L \in Nat /\ 1 .. (L + 1 - 1) = 1 .. L
  BY <1>1, ExeIs
<1>3. /\ \A s \in 1 .. L : IsLoad(exe[s]) => SegPages(exe, s) \subseteq mapped
      /\ \A s, t \in 1 .. L : IsLoad(exe[s]) /\ IsLoad(exe[t]) /\ s # t =>
            SegPages(exe, s) \cap SegPages(exe, t) = {}
      /\ \A a \in Addr : \A s \in 1 .. L : InFile(a, exe, s) => mem[a] = Byte(s, a - exe[s].vaddr)
      /\ \A a \in Addr : mem[a] # Zero => \E s \in 1 .. L : InFile(a, exe, s)
      /\ \A s \in 1 .. L : IsLoad(exe[s]) => End(exe[s]) <= max_va
  BY <1>1, <1>2 DEF Image, SegmentsMapped, SegmentsApart, BytesLoaded, EndsBelow, Room
<1>4. \A s \in 1 .. L : exe[s].vaddr \in Nat /\ exe[s].memsz \in Nat /\ exe[s].filesz \in Nat
  BY <1>1, ExeIs
<1>5. ASSUME NEW a \in Addr, NEW s \in 1 .. L, In(a, exe[s], exe[s].memsz)
      PROVE  PageOf(a) \in mapped
  <2>1. IsLoad(exe[s]) /\ exe[s].vaddr <= a /\ a < End(exe[s])
    BY <1>4, <1>5 DEF In, End, Addr
  <2>2. exe[s].vaddr \in Int /\ End(exe[s]) \in Int
    BY <1>4 DEF End
  <2>3. PageOf(a) \in PagesOf(exe[s].vaddr, End(exe[s]))
    <3>1. a \in Addr
      OBVIOUS
    <3> QED
      BY ONLY <3>1, <2>1, <2>2, PageOfRange
  <2> QED
    BY <1>3, <2>1, <2>3 DEF SegPages
<1>6. \A a \in Addr : \A s, t \in 1 .. L : InFile(a, exe, s) /\ InFile(a, exe, t) => s = t
  <2>1. SUFFICES ASSUME NEW a \in Addr, NEW s \in 1 .. L, NEW t \in 1 .. L,
                        InFile(a, exe, s), InFile(a, exe, t)
                 PROVE  s = t
    OBVIOUS
  <2>2. PageOf(a) \in SegPages(exe, s) /\ PageOf(a) \in SegPages(exe, t)
    BY <1>1, <2>1, OnItsPages
  <2>3. IsLoad(exe[s]) /\ IsLoad(exe[t])
    BY <2>1 DEF InFile, In
  <2> QED
    BY <1>3, <2>2, <2>3
<1>7. ASSUME NEW a \in 0 .. (sp - 1)
      PROVE  mem'[a] = IF \E s \in 1 .. L : In(a, exe[s], exe[s].filesz)
                       THEN LET s == CHOOSE n \in 1 .. L : In(a, exe[n], exe[n].filesz)
                            IN  Byte(s, a - exe[s].vaddr)
                       ELSE Zero
  <2>1. a \in Addr
    BY SizesAssumption DEF Addr
  <2>2. mem'[a] = mem[a]
    OBVIOUS
  <2>3. CASE \E s \in 1 .. L : In(a, exe[s], exe[s].filesz)
    <3>1. PICK s : s = CHOOSE n \in 1 .. L : In(a, exe[n], exe[n].filesz)
      OBVIOUS
    <3>2. s \in 1 .. L /\ InFile(a, exe, s)
      BY <2>3, <3>1 DEF InFile
    <3>3. mem[a] = Byte(s, a - exe[s].vaddr)
      BY <1>3, <2>1, <3>2
    <3> QED
      BY <2>2, <2>3, <3>1, <3>3
  <2>4. CASE ~ \E s \in 1 .. L : In(a, exe[s], exe[s].filesz)
    <3>1. mem[a] = Zero
      BY <1>3, <2>1, <2>4 DEF InFile
    <3> QED
      BY <2>2, <2>4, <3>1
  <2> QED
    BY <2>3, <2>4
<1>8. \A s \in 1 .. L : IsLoad(exe[s]) => max_va >= exe[s].vaddr + exe[s].memsz
  <2>1. SUFFICES ASSUME NEW s \in 1 .. L, IsLoad(exe[s])
                 PROVE  max_va >= exe[s].vaddr + exe[s].memsz
    OBVIOUS
  <2>2. End(exe[s]) <= max_va /\ End(exe[s]) = exe[s].vaddr + exe[s].memsz
    BY <1>3, <2>1 DEF End
  <2>3. max_va \in Nat /\ End(exe[s]) \in Nat
    BY <1>4, SMTT(30) DEF End, ExecTypeOK
  <2> QED
    BY <2>2, <2>3
<1>9. /\ \A a \in Addr, s \in 1 .. L : In(a, exe[s], exe[s].memsz) => PageOf(a) \in mapped
      /\ \A a \in 0 .. (sp - 1) :
            mem'[a] = IF \E s \in 1 .. L : In(a, exe[s], exe[s].filesz)
                      THEN LET s == CHOOSE n \in 1 .. L : In(a, exe[n], exe[n].filesz)
                           IN  Byte(s, a - exe[s].vaddr)
                      ELSE Zero
  BY <1>5, <1>7
<1> QED
  BY <1>1, <1>8, <1>9 DEF ImageLoaded

LEMMA ArgvReady ==
    ASSUME argv \in Seq(Nat \ {0}), argv # <<>>, argv' = argv,
           NEW b, proc'.sp = b, proc'.a1 = b, proc'.a0 = Len(argv),
           ArgvAt(argv, StringAt(argv), b, mem', mem)
    PROVE  ArgvReadable'
<1>1. PICK at, L : at = StringAt(argv) /\ L = Len(argv)
  OBVIOUS
<1>2. L \in Nat /\ L # 0
  BY <1>1
<1>3. /\ b % PTR = 0
      /\ \A k \in 1 .. L :
            /\ at[k] \in Addr
            /\ \A j \in 0 .. (PTR - 1) : mem'[b + (k - 1) * PTR + j] = Ptr(at[k], j)
            /\ \A j \in 0 .. (argv[k] - 1) : at[k] + j < STACKTOP /\ mem'[at[k] + j] = Char(k, j)
      /\ \A j \in 0 .. (PTR - 1) : mem'[b + L * PTR + j] = Ptr(NULL, j)
  BY <1>1 DEF ArgvAt
<1>4. PointerAt(b + L * PTR, NULL)'
  BY <1>3 DEF PointerAt
<1>5. \A k \in 1 .. L : \E to \in Addr : PointerAt(b + (k - 1) * PTR, to)' /\ StringIs(to, k)'
  <2>1. SUFFICES ASSUME NEW k \in 1 .. L
                 PROVE  \E to \in Addr : PointerAt(b + (k - 1) * PTR, to)' /\ StringIs(to, k)'
    OBVIOUS
  <2>2. PointerAt(b + (k - 1) * PTR, at[k])'
    BY <1>3 DEF PointerAt
  <2>3. StringIs(at[k], k)'
    BY <1>3 DEF StringIs
  <2> QED
    BY <1>3, <2>2, <2>3
<1> QED
  BY <1>1, <1>2, <1>3, <1>4, <1>5 DEF ArgvReadable

LEMMA ReturnsZeroInv ==
    ASSUME ExecInv, pc \in {"argv", "strings"}, Finish, mapped' = mapped, mem' \in [Addr -> Cell],
           proc' \in [sz : Nat, brk : Nat, sp : Nat, a0 : Nat, a1 : Nat],
           ArgvReadable', ImageLoaded'
    PROVE  ExecInv'
<1>1. ExecTypeOK /\ iref = 1 /\ Taken /\ heap \subseteq {"phdr_table", "arg_ptrs"}
  BY DEF ExecInv, Kept, Progress, Buffers, Stopped
<1>2. pc' = "idle" /\ ret' = 0 /\ exe' = exe /\ argv' = argv /\ i' = i /\ max_va' = max_va
      /\ heap' = {} /\ iref' = 0
  BY <1>1 DEF Finish, Returns, Goto, callVars
<1>3. ExecTypeOK'
  BY <1>1, <1>2 DEF ExecTypeOK
<1>4. Kept'
  BY <1>2 DEF Kept, Buffers
<1>5. Progress'
  BY <1>1, <1>2 DEF Progress, Taken, Early
<1>6. ProgramReady'
  BY DEF ProgramReady
<1> QED
  BY <1>3, <1>4, <1>5, <1>6 DEF ExecInv

LEMMA SetupArgvInv ==
    ASSUME ExecInv, SetupArgv
    PROVE  ExecInv'
<1>1. pc = "argv" /\ ExecTypeOK /\ i = Len(exe) + 1 /\ max_va <= stack_bottom /\ Taken
      /\ Image(exe, Len(exe) + 1, mapped, mem, max_va) /\ iref = 1
      /\ heap = {"phdr_table"} /\ Buffers(pc) = heap /\ pc \notin Stopped
  BY DEF ExecInv, Progress, Kept, Buffers, Stopped, SetupArgv
<1>3. CASE Fails({"phdr_table"})
  BY <1>1, <1>3, GivesUpInv
<1>5. CASE /\ argv # <<>> /\ Goto("strings") /\ heap' = heap \cup {"arg_ptrs"}
           /\ UNCHANGED <<callVars, memory, iref, proc, ret>>
  <2>1. /\ exe' = exe /\ argv' = argv /\ i' = i /\ max_va' = max_va /\ mapped' = mapped
        /\ mem' = mem /\ iref' = iref /\ proc' = proc /\ ret' = ret /\ pc' = "strings"
        /\ heap' = {"phdr_table", "arg_ptrs"}
    BY <1>1, <1>5 DEF Goto, callVars, memory
  <2>2. ExecTypeOK'
    BY <1>1, <2>1 DEF ExecTypeOK
  <2>3. Progress'
    BY <1>1, <1>5, <2>1 DEF Progress, Early, Taken
  <2> QED
    BY <1>1, <2>1, <2>2, <2>3 DEF ExecInv, Kept, Buffers, ProgramReady, Loaded
<1>4. CASE argv = <<>> /\ Ready(STACKTOP, 0, NULL) /\ Finish /\ UNCHANGED memory
  <2>1. mapped' = mapped /\ mem' = mem /\ exe' = exe /\ argv' = argv
    BY <1>4 DEF memory, Finish, Returns, callVars
  <2>2. proc' = [sz |-> max_va, brk |-> max_va, sp |-> STACKTOP, a0 |-> 0, a1 |-> 0]
    BY <1>4 DEF Ready, NULL
  <2>3. STACKTOP \in 0 .. STACKTOP /\ STACKTOP \in Nat /\ max_va \in Nat
    BY <1>1, SizesAssumption DEF ExecTypeOK
  <2>4. proc' \in [sz : Nat, brk : Nat, sp : Nat, a0 : Nat, a1 : Nat]
    BY <2>2, <2>3
  <2>5. proc'.sp = STACKTOP /\ proc'.sz = max_va /\ proc'.brk = max_va /\ proc'.a0 = 0 /\ proc'.a1 = 0
    BY <2>2
  <2>6. ImageLoaded'
    <3>1. PICK sp : sp = STACKTOP
      OBVIOUS
    <3>2. sp \in 0 .. STACKTOP /\ proc'.sp = sp
      BY <2>3, <2>5, <3>1
    <3>3. \A a \in 0 .. (sp - 1) : mem'[a] = mem[a]
      BY <2>1
    <3> QED
      BY ONLY <1>1, <2>1, <2>5, <3>2, <3>3, ImageReady
  <2>7. STACKTOP % PTR = 0
    <3>1. PTR \in Nat \ {0} /\ ALIGN \in Nat \ {0} /\ PGSIZE \in Nat \ {0} /\ STACKTOP \in Int
          /\ STACKTOP % PGSIZE = 0 /\ PGSIZE % ALIGN = 0 /\ ALIGN % PTR = 0
      BY SizesAssumption
    <3>2. STACKTOP % ALIGN = 0
      BY ONLY <3>1, Multiples
    <3> QED
      BY ONLY <3>1, <3>2, Multiples
  <2>8. ArgvReadable'
    <3>1. Len(argv') = 0
      BY <1>4, <2>1
    <3> QED
      BY <2>5, <2>7, <3>1 DEF ArgvReadable, NULL
  <2>9. mem' \in [Addr -> Cell]
    BY <1>1, <2>1 DEF ExecTypeOK
  <2> QED
    BY <1>1, <1>4, <2>1, <2>4, <2>6, <2>8, <2>9, ReturnsZeroInv
<1> QED
  BY <1>3, <1>4, <1>5 DEF SetupArgv

LEMMA WriteArgvInv ==
    ASSUME ExecInv, WriteArgv
    PROVE  ExecInv'
<1>1. pc = "strings" /\ ExecTypeOK /\ i = Len(exe) + 1 /\ max_va <= stack_bottom /\ argv # <<>>
      /\ Image(exe, Len(exe) + 1, mapped, mem, max_va)
      /\ Buffers(pc) = {"arg_ptrs", "phdr_table"} /\ pc \notin Stopped
  BY DEF ExecInv, Progress, Buffers, Stopped, WriteArgv
<1>2. argv \in Seq(Nat \ {0}) /\ Len(argv) \in Nat
  <2>1. <<>> \in Seq(Nat \ {0})
    OBVIOUS
  <2>2. argv \in Seq(Nat \ {0})
    BY <1>1, <2>1, ArgvAssumption DEF ExecTypeOK
  <2> QED
    BY <2>2
<1>3. CASE Stops("overrun")
  BY <1>3, StopsInv
<1>4. CASE Fails({"arg_ptrs", "phdr_table"})
  BY <1>1, <1>4, GivesUpInv
<1>5. CASE CopyArgv
  <2>1. PICK b : b = ArgvBase(argv)
    OBVIOUS
  <2>2. ArgvAt(argv, StringAt(argv), b, mem', mem)
    BY <1>1, <1>2, <1>5, <2>1, SetupArgvWrites DEF CopyArgv
  <2>3. mapped' = mapped /\ exe' = exe /\ argv' = argv
    BY <1>5 DEF CopyArgv, Finish, Returns, callVars
  <2>4. proc' = [sz |-> max_va, brk |-> max_va, sp |-> b, a0 |-> Len(argv), a1 |-> b]
    BY <1>5, <2>1 DEF CopyArgv, Ready
  <2>5. b \in Addr /\ mem' \in [Addr -> Cell] /\ \A a \in 0 .. (b - 1) : mem'[a] = mem[a]
    BY <2>2 DEF ArgvAt
  <2>6. b \in Nat /\ b \in 0 .. STACKTOP /\ max_va \in Nat
    BY <1>1, <2>5, SizesAssumption DEF Addr, ExecTypeOK
  <2>7. proc' \in [sz : Nat, brk : Nat, sp : Nat, a0 : Nat, a1 : Nat]
    BY <1>2, <2>4, <2>6
  <2>8. proc'.sp = b /\ proc'.sz = max_va /\ proc'.brk = max_va /\ proc'.a0 = Len(argv) /\ proc'.a1 = b
    BY <2>4
  <2>9. ImageLoaded'
    BY ONLY <1>1, <2>3, <2>5, <2>6, <2>8, ImageReady
  <2>10. ArgvReadable'
    BY <1>1, <1>2, <2>2, <2>3, <2>8, ArgvReady
  <2>11. Finish
    BY <1>5 DEF CopyArgv
  <2> QED
    BY <1>1, <2>3, <2>5, <2>7, <2>9, <2>10, <2>11, ReturnsZeroInv
<1> QED
  BY <1>3, <1>4, <1>5 DEF WriteArgv

-----------------------------------------------------------------------------
LEMMA ExecStep ==
    ASSUME ExecInv, [ExecNext]_execVars
    PROVE  ExecInv'
<1>1. ASSUME NEW e \in Exe, NEW av \in Argv, Kexec(e, av)
      PROVE  ExecInv'
  BY <1>1, KexecInv
<1>2. CASE UNCHANGED execVars
  <2>1. /\ pc' = pc /\ exe' = exe /\ argv' = argv /\ i' = i /\ max_va' = max_va
        /\ mapped' = mapped /\ mem' = mem /\ iref' = iref /\ heap' = heap
        /\ proc' = proc /\ ret' = ret
    BY <1>2 DEF execVars
  <2>2. ExecTypeOK' /\ Kept'
    BY <2>1 DEF ExecInv, ExecTypeOK, Kept
  <2>3. Progress'
    BY <2>1 DEF ExecInv, Progress, Clean, Taken
  <2>4. (Loaded' <=> Loaded) /\ (ImageLoaded' <=> ImageLoaded)
    BY <2>1 DEF Loaded, ImageLoaded
  <2>5. /\ \A a, to : PointerAt(a, to)' <=> PointerAt(a, to)
        /\ \A a, k : StringIs(a, k)' <=> StringIs(a, k)
    BY <2>1 DEF PointerAt, StringIs
  <2>6. ArgvReadable' <=> ArgvReadable
    BY <2>1, <2>5 DEF ArgvReadable
  <2> QED
    BY <2>2, <2>3, <2>4, <2>6 DEF ExecInv, ProgramReady
<1> QED
  BY <1>1, <1>2, AllocprocInv, MapprocInv, ReadHeaderInv, AllocTableInv, ReadTableInv,
     SkipSegmentInv, LoadSegmentInv, ReadSegmentInv, StackInv, SetupArgvInv, WriteArgvInv, BootInv
     DEF ExecNext

THEOREM ExecInductive == ExecSpec => []ExecInv
BY ExecInitInv, ExecStep, PTL DEF ExecSpec

\* What kexec works with stays in range, whatever fails: ends of segments are whole
\* pages, and user memory only ever holds bytes of the file, arguments and pointers.
THEOREM ExecTypeCorrect == ExecSpec => []ExecTypeOK
<1>1. ExecInv => ExecTypeOK
  BY DEF ExecInv
<1> QED
  BY <1>1, ExecInductive, PTL

\* kexec returns 0 only with the whole program and all of its arguments in place, for
\* every executable, every argument vector and every sequence of calls in which what is
\* read fits the buffers: a call with more headers, a larger segment or more arguments
\* than a page of kmalloc holds never returns, it ends in overrun.
THEOREM ProgramWhole == ExecSpec => []ProgramReady
<1>1. ExecInv => ProgramReady
  BY DEF ExecInv
<1> QED
  BY <1>1, ExecInductive, PTL

\* Whichever way kexec returns, it holds no reference and no buffer, and it goes into
\* freeproc with no buffer from any point at which it can fail.
THEOREM KexecKeepsNothing == ExecSpec => []NothingKept
<1>1. ExecInv => NothingKept
  BY DEF ExecInv, Kept, Buffers, NothingKept
<1> QED
  BY <1>1, ExecInductive, PTL

=============================================================================
