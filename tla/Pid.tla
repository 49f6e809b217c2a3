--------------------------------- MODULE Pid ---------------------------------
(***************************************************************************)
(* Process numbers in kernel/task/proc.c: allocpid as allocproc calls it,  *)
(* and the way freeproc gives a number back.  The search is next-fit: it   *)
(* goes on behind the last number given, wraps to RESERVEDPID and gives up *)
(* after MAXPID candidates.  Numbers up to RESERVEDPID are given once and  *)
(* never returned.  The memory of a process is modelled in PageTable,      *)
(* which also shows that freeproc panics where it frees that memory; this  *)
(* module is about freeproc as written for the case that it does not.      *)
(***************************************************************************)
EXTENDS Integers, FiniteSets

CONSTANTS Proc,         \* processes memory has room for
          MAXPID, RESERVEDPID

ASSUME BoundAssumption ==
    MAXPID \in Nat /\ RESERVEDPID \in Nat /\ 0 < RESERVEDPID /\ RESERVEDPID < MAXPID

\* Every process takes two pages of its own, a kernel stack and a page table: 128 MiB
\* have room for half as many processes as there are numbers.
ASSUME MemoryAssumption ==
    IsFiniteSet(Proc) /\ Cardinality(Proc) < MAXPID - RESERVEDPID - 1

VARIABLES pid_bitmap,   \* the numbers whose bit is set
          last_pid,
          pid           \* pid[p]: the number of process p, NoPid if there is no p

pidVars == <<pid_bitmap, last_pid, pid>>

Number == 0 .. (MAXPID - 1)
NoPid  == -1
Live   == {p \in Proc : pid[p] # NoPid}

PidInit ==
    /\ pid_bitmap = {}
    /\ last_pid = 0
    /\ pid = [p \in Proc |-> NoPid]

(***************************************************************************)
(* allocpid: the i-th candidate of its loop, and the first that is free.   *)
(* (X_Mut... is a mistaken variant of X that a mutation run puts in its    *)
(* place.)                                                                 *)
(***************************************************************************)
Candidate_MutFromZero(i) == (last_pid + i) % MAXPID
Candidate_MutStays(i) == IF last_pid + i < MAXPID THEN last_pid + i ELSE RESERVEDPID
Candidate(i) ==
    IF last_pid + i < MAXPID THEN last_pid + i
    ELSE RESERVEDPID + ((last_pid + i - MAXPID) % (MAXPID - RESERVEDPID))

Unused_MutAny(i) == TRUE
Unused(i) == Candidate(i) \notin pid_bitmap

Step == 1 .. MAXPID

allocpid(p) ==
    \E i \in Step :
        /\ Unused(i) /\ \A j \in 1 .. (i - 1) : ~Unused(j)
        /\ pid_bitmap' = pid_bitmap \cup {Candidate(i)}
        /\ last_pid' = Candidate(i)
        /\ pid' = [pid EXCEPT ![p] = Candidate(i)]

allocproc(p) == pid[p] = NoPid /\ allocpid(p)

(***************************************************************************)
(* freeproc                                                                *)
(***************************************************************************)
Returned_MutNever(n) == {}
Returned(n) == IF n > RESERVEDPID THEN {n} ELSE {}

Freeproc(p) ==
    /\ pid[p] # NoPid
    /\ pid_bitmap' = pid_bitmap \ Returned(pid[p])
    /\ pid' = [pid EXCEPT ![p] = NoPid]
    /\ UNCHANGED last_pid

PidNext == \E p \in Proc : allocproc(p) \/ Freeproc(p)

PidSpec == PidInit /\ [][PidNext]_pidVars

(***************************************************************************)
(* Properties                                                              *)
(***************************************************************************)
\* The type invariant of process numbers: 0 and NoPid are never given out.
PidTypeOK ==
    /\ pid_bitmap \subseteq Number \ {0}
    /\ last_pid \in Number
    /\ pid \in [Proc -> (Number \ {0}) \cup {NoPid}]

\* Two processes never have the same number, whatever order they come and go in.
UniquePids == \A p, q \in Live : pid[p] = pid[q] => p = q

\* A bit above RESERVEDPID is set exactly while a process has the number: a number in
\* use is never offered, and none is lost.
BitmapExact ==
    \A n \in Number : n > RESERVEDPID =>
        (n \in pid_bitmap <=> \E p \in Live : pid[p] = n)

\* allocproc does not look at the -1 of allocpid and need not: as long as memory, not
\* numbers, bounds the processes, the loop finds a number before it gives up.
NumberLeft == \E i \in Step : Unused(i)

=============================================================================
