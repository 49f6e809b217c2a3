--------------------------- MODULE FileTableProofs --------------------------
(***************************************************************************)
(* Proofs about Uart and FileTable for every number of open files,         *)
(* descriptors and inodes, every receive FIFO and all buffers.             *)
(***************************************************************************)
EXTENDS FileTable, FiniteSetTheorems, SequenceTheorems, TLAPS

-----------------------------------------------------------------------------
(***************************************************************************)
(* The UART's inductive invariant.  Between two calls nothing waits to be  *)
(* stored; while uartinit runs nothing is on the line, because register 0  *)
(* is the divisor whenever it stores there: DLAB is set exactly from the   *)
(* second to the fifth of its seven register writes.                       *)
(***************************************************************************)
UartInv ==
    /\ UartTypeOK
    /\ due \in Seq(Char) /\ arrived \in Seq(Char)
    /\ pc = "init" => thr = <<>> /\ due = <<>>
    /\ pc # "init" => setup = <<>>
    /\ dlab <=> Len(setup) \in 3 .. 5
    /\ pc # "write" => todo = <<>>
    /\ BytesInOrder

\* What is left of the register writes after the first k of them.
Rest(k) == SubSeq(Setup, k + 1, Len(Setup))

RegisterWrite ==
    {"IER=0", "LCR=DLAB", "DLL", "DLM", "LCR=8N1", "FCR=RESET", "FCR=ENABLE"}

LEMMA SetupRest ==
    /\ Setup \in Seq(RegisterWrite) /\ Len(Setup) = 7
    /\ Rest(0) = Setup
    /\ \A k \in 0 .. 7 : Len(Rest(k)) = 7 - k /\ (Rest(k) = <<>> <=> k = 7)
    /\ \A k \in 0 .. 6 : Head(Rest(k)) = Setup[k + 1] /\ Tail(Rest(k)) = Rest(k + 1)
<1>1. Setup \in Seq(RegisterWrite) /\ Len(Setup) = 7
  BY DEF Setup, RegisterWrite
<1>2. Rest(0) = Setup
  BY <1>1, SubSeqFull DEF Rest
<1>3. ASSUME NEW k \in 0 .. 6
      PROVE  /\ Head(Rest(k)) = Setup[k + 1] /\ Tail(Rest(k)) = Rest(k + 1)
             /\ Len(Rest(k)) = 7 - k /\ Rest(k) # <<>>
  <2>1. k + 1 \in 1 .. Len(Setup) /\ Len(Setup) \in (k + 1) .. Len(Setup)
    BY <1>1
  <2>2. Head(Rest(k)) = Setup[k + 1] /\ Tail(Rest(k)) = Rest(k + 1)
    BY <1>1, <2>1, HeadTailOfSubSeq DEF Rest
  <2>3. \A i \in (k + 1) .. Len(Setup) : Setup[i] \in RegisterWrite
    BY <1>1, ElementOfSeq
  <2>4. Len(Rest(k)) = 7 - k
    BY <1>1, <2>1, <2>3, SubSeqProperties DEF Rest
  <2>5. Rest(k) # <<>>
    BY <2>4
  <2> QED
    BY <2>2, <2>4, <2>5
<1>4. Rest(7) = <<>>
  BY <1>1, SubSeqEmpty DEF Rest
<1>5. \A k \in 0 .. 7 : Len(Rest(k)) = 7 - k /\ (Rest(k) = <<>> <=> k = 7)
  <2> TAKE k \in 0 .. 7
  <2>1. CASE k = 7
    BY <1>4, <2>1
  <2>2. CASE k # 7
    <3>1. k \in 0 .. 6
      BY <2>2
    <3> QED
      BY <1>3, <2>2, <3>1
  <2> QED
    BY <2>1, <2>2
<1> QED
  BY <1>1, <1>2, <1>3, <1>5

LEMMA UartInitInv == UartInit => UartInv
<1> SUFFICES ASSUME UartInit PROVE UartInv
  OBVIOUS
<1>1. \E k \in 0 .. Len(Setup) : setup = SubSeq(Setup, k + 1, Len(Setup))
  BY SetupRest DEF UartInit, Rest
<1>2. <<>> \in Seq(Char) /\ Len(<<>>) = 0 /\ <<>> \o <<>> = <<>>
  BY EmptySeq
<1>3. UartTypeOK
  <2>1. rx \in Seq(Char) /\ Len(rx) <= DEPTH /\ thr \in Seq(Char) /\ Len(thr) <= 1
    BY <1>2, DEPTHAssumption DEF UartInit
  <2>2. todo \in Seq(Char) /\ got \in Seq(Char) /\ want \in Nat /\ dlab \in BOOLEAN
    BY <1>2 DEF UartInit
  <2> QED
    BY <1>1, <2>1, <2>2 DEF UartTypeOK, UartInit
<1> QED
  BY <1>2, <1>3, SetupRest DEF UartInv, UartInit, BytesInOrder

\* uartinit: the bytes of the divisor are not sent.
LEMMA ConfigureInv ==
    ASSUME UartInv, Configure
    PROVE  UartInv'
<1>1. PICK k \in 0 .. 7 : setup = Rest(k)
  BY SetupRest DEF UartInv, UartTypeOK, Rest
<1>2. k # 7 /\ k \in 0 .. 6
  <2>1. setup # <<>>
    BY DEF Configure
  <2>2. Rest(k) = <<>> <=> k = 7
    BY SetupRest
  <2> QED
    BY <1>1, <2>1, <2>2
<1>3. Head(setup) = Setup[k + 1] /\ setup' = Rest(k + 1) /\ k + 1 \in 0 .. 7
  <2>1. Head(Rest(k)) = Setup[k + 1] /\ Tail(Rest(k)) = Rest(k + 1)
    BY <1>2, SetupRest
  <2>2. setup' = Tail(setup)
    BY DEF Configure
  <2> QED
    BY <1>1, <1>2, <2>1, <2>2
<1>4. Len(setup) = 7 - k /\ Len(setup') = 7 - (k + 1)
  BY <1>1, <1>2, <1>3, SetupRest
<1>5. /\ pc = "init" /\ pc' = "init"
      /\ dlab' = IF Setup[k + 1] = "LCR=DLAB" THEN TRUE
                 ELSE IF Setup[k + 1] = "LCR=8N1" THEN FALSE ELSE dlab
      /\ Setup[k + 1] = "DLL" => thr' = IF dlab THEN thr ELSE <<Setup[k + 1]>>
      /\ Setup[k + 1] # "DLL" => thr' = IF Setup[k + 1] = "FCR=RESET" THEN <<>> ELSE thr
      /\ rx' = rx \/ rx' = <<>>
      /\ UNCHANGED <<todo, want, got, due, arrived>>
  BY <1>3 DEF Configure, history, Store
<1>6. /\ Setup[k + 1] = "LCR=DLAB" <=> k = 1
      /\ Setup[k + 1] = "DLL" <=> k = 2
      /\ Setup[k + 1] = "LCR=8N1" <=> k = 4
  BY <1>2 DEF Setup
<1>7. thr' = <<>> /\ thr = <<>>
  BY <1>4, <1>5, <1>6 DEF UartInv
<1>8. dlab' \in BOOLEAN /\ (dlab' <=> Len(setup') \in 3 .. 5)
  <2>1. dlab \in BOOLEAN /\ (dlab <=> k \in 2 .. 4)
    BY <1>2, <1>4 DEF UartInv, UartTypeOK
  <2>2. dlab' = IF k = 1 THEN TRUE ELSE IF k = 4 THEN FALSE ELSE dlab
    BY <1>5, <1>6
  <2>3. Len(setup') \in 3 .. 5 <=> k \in 1 .. 3
    BY <1>2, <1>4
  <2>4. CASE k = 1
    BY <2>2, <2>3, <2>4
  <2>5. CASE k = 4
    BY <2>2, <2>3, <2>5
  <2>6. CASE k # 1 /\ k # 4
    <3>1. k \in 1 .. 3 <=> k \in 2 .. 4
      BY <1>2, <2>6
    <3>2. dlab' = dlab
      BY <2>2, <2>6
    <3> QED
      BY <2>1, <2>3, <3>1, <3>2
  <2> QED
    BY <2>4, <2>5, <2>6
<1>9. UartTypeOK'
  <2>1. Len(<<>>) = 0 /\ <<>> \in Seq(Char)
    BY EmptySeq
  <2>2. rx' \in Seq(Char) /\ Len(rx') <= DEPTH
    <3>1. rx \in Seq(Char) /\ Len(rx) <= DEPTH
      BY DEF UartInv, UartTypeOK
    <3>2. rx' = rx \/ rx' = <<>>
      BY <1>5
    <3>3. CASE rx' = rx
      BY <3>1, <3>3
    <3>4. CASE rx' = <<>>
      BY <2>1, <3>4, DEPTHAssumption
    <3> QED
      BY <3>2, <3>3, <3>4
  <2>3. \E j \in 0 .. Len(Setup) : setup' = SubSeq(Setup, j + 1, Len(Setup))
    BY <1>3, SetupRest DEF Rest
  <2> QED
    BY <1>5, <1>7, <1>8, <2>1, <2>2, <2>3 DEF UartInv, UartTypeOK
<1> QED
  BY <1>5, <1>7, <1>8, <1>9 DEF UartInv, BytesInOrder

LEMMA DrainInv ==
    ASSUME UartInv, Drain
    PROVE  UartInv'
<1>1. /\ pc = "init" /\ setup = <<>> /\ pc' \in {"init", "idle"}
      /\ rx' = rx \/ (rx # <<>> /\ rx' = Tail(rx))
      /\ UNCHANGED <<setup, todo, want, got, dlab, thr, due, arrived>>
  BY DEF Drain, history
<1>2. rx \in Seq(Char) /\ Len(rx) <= DEPTH
  BY DEF UartInv, UartTypeOK
<1>3. rx' \in Seq(Char) /\ Len(rx') <= DEPTH
  BY <1>1, <1>2, HeadTailProperties, LenProperties, DEPTHAssumption
<1>4. UartTypeOK'
  BY <1>1, <1>3 DEF UartInv, UartTypeOK
<1> QED
  BY <1>1, <1>4 DEF UartInv, BytesInOrder

\* uart_write: what it has been given, behind what is still in THR, is what the
\* line owes.
LEMMA WriteInv ==
    ASSUME UartInv, NEW b \in Buf, uart_write(b)
    PROVE  UartInv'
<1>1. /\ pc = "idle" /\ pc' = "write" /\ todo' = b /\ due' = due \o b
      /\ UNCHANGED <<setup, want, got, dlab, rx, thr, arrived>>
  BY DEF uart_write, device
<1>2. b \in Seq(Char) /\ due \in Seq(Char) /\ thr \in Seq(Char)
  BY BufAssumption DEF UartInv, UartTypeOK
<1>3. thr = due
  BY <1>1, <1>2, ConcatEmptySeq DEF UartInv, BytesInOrder
<1>4. due' \in Seq(Char) /\ thr' \o todo' = due'
  BY <1>1, <1>2, <1>3, ConcatProperties
<1>5. UartTypeOK'
  BY <1>1, <1>2 DEF UartInv, UartTypeOK
<1> QED
  BY <1>1, <1>4, <1>5 DEF UartInv, BytesInOrder

LEMMA PutCharInv ==
    ASSUME UartInv, PutChar
    PROVE  UartInv'
<1>1. pc = "write" /\ UNCHANGED <<setup, want, got, dlab, rx, due, arrived>>
  BY DEF PutChar, history
<1>2. todo \in Seq(Char) /\ thr \in Seq(Char) /\ thr \o todo = due
  BY DEF UartInv, UartTypeOK, BytesInOrder
<1>3. CASE todo = <<>>
  <2>1. pc' = "idle" /\ UNCHANGED <<todo, thr>>
    BY <1>3 DEF PutChar
  <2>2. UartTypeOK'
    BY <1>1, <2>1 DEF UartInv, UartTypeOK
  <2> QED
    BY <1>1, <1>3, <2>1, <2>2 DEF UartInv, BytesInOrder
<1>4. CASE todo # <<>>
  <2>1. setup = <<>> /\ Len(<<>>) = 0
    BY <1>1 DEF UartInv
  <2>2. ~dlab
    BY <2>1 DEF UartInv
  <2>3. thr = <<>> /\ thr' = <<Head(todo)>> /\ todo' = Tail(todo) /\ pc' = pc
    BY <1>4, <2>2 DEF PutChar, TxIdle, Store
  <2>4. Head(todo) \in Char /\ Tail(todo) \in Seq(Char)
    BY <1>2, <1>4, HeadTailProperties
  <2>5. thr' \in Seq(Char) /\ Len(thr') <= 1 /\ todo' \in Seq(Char)
    BY <2>3, <2>4
  <2>6. <<Head(todo)>> \o Tail(todo) = todo
    BY <1>2, <1>4
  <2>7. thr' \o todo' = due'
    BY <1>1, <1>2, <2>3, <2>6, ConcatEmptySeq
  <2>8. UartTypeOK'
    BY <1>1, <2>3, <2>5 DEF UartInv, UartTypeOK
  <2> QED
    BY <1>1, <2>3, <2>7, <2>8 DEF UartInv, BytesInOrder
<1> QED
  BY <1>3, <1>4

LEMMA ReadInv ==
    ASSUME UartInv, NEW n \in Nat, uart_read(n)
    PROVE  UartInv'
<1>1. /\ pc = "idle" /\ pc' = "read" /\ want' = n /\ got' = <<>> /\ arrived' = rx
      /\ UNCHANGED <<setup, todo, dlab, rx, thr, due>>
  BY DEF uart_read, device
<1>2. <<>> \in Seq(Char) /\ rx \in Seq(Char)
  BY EmptySeq DEF UartInv, UartTypeOK
<1>3. UartTypeOK'
  BY <1>1, <1>2 DEF UartInv, UartTypeOK
<1>4. got' \o rx' = arrived'
  BY <1>1, <1>2, ConcatEmptySeq
<1> QED
  BY <1>1, <1>2, <1>3, <1>4 DEF UartInv, BytesInOrder

LEMMA GetCharInv ==
    ASSUME UartInv, GetChar
    PROVE  UartInv'
<1>1. pc = "read" /\ UNCHANGED <<setup, todo, dlab, thr, due>>
  BY DEF GetChar
<1>2. /\ rx \in Seq(Char) /\ Len(rx) <= DEPTH /\ got \in Seq(Char) /\ want \in Nat
      /\ got \o rx = arrived
  BY <1>1 DEF UartInv, UartTypeOK, BytesInOrder
<1>3. CASE want > 0 /\ rx # <<>>
  <2>1. /\ got' = Append(got, Head(rx)) /\ rx' = Tail(rx) /\ want' = want - 1
        /\ pc' = pc /\ arrived' = arrived
    BY <1>3 DEF GetChar
  <2>2. /\ Head(rx) \in Char /\ Tail(rx) \in Seq(Char) /\ Len(Tail(rx)) <= DEPTH
        /\ Append(got, Head(rx)) \in Seq(Char)
    BY <1>2, <1>3, HeadTailProperties, LenProperties, AppendProperties, DEPTHAssumption
  <2>3. got' \o rx' = arrived'
    BY <1>2, <1>3, <2>1
  <2>4. UartTypeOK'
    BY <1>1, <1>2, <1>3, <2>1, <2>2 DEF UartInv, UartTypeOK
  <2> QED
    BY <1>1, <2>1, <2>3, <2>4 DEF UartInv, BytesInOrder
<1>4. CASE ~(want > 0 /\ rx # <<>>)
  <2>1. pc' = "idle" /\ want' = 0 /\ got' = <<>> /\ arrived' = <<>> /\ rx' = rx
    BY <1>4 DEF GetChar
  <2>2. <<>> \in Seq(Char)
    BY EmptySeq
  <2>3. UartTypeOK'
    BY <1>1, <2>1, <2>2 DEF UartInv, UartTypeOK
  <2> QED
    BY <1>1, <2>1, <2>2, <2>3 DEF UartInv, BytesInOrder
<1> QED
  BY <1>3, <1>4

LEMMA ReceiveInv ==
    ASSUME UartInv, NEW c \in Char, Receive(c)
    PROVE  UartInv'
<1>1. /\ Len(rx) < DEPTH /\ rx' = Append(rx, c)
      /\ arrived' = IF pc = "read" THEN Append(arrived, c) ELSE arrived
      /\ UNCHANGED <<pc, setup, todo, want, got, dlab, thr, due>>
  BY DEF Receive, driver
<1>2. rx \in Seq(Char) /\ got \in Seq(Char) /\ arrived \in Seq(Char)
  BY DEF UartInv, UartTypeOK
<1>3. rx' \in Seq(Char) /\ Len(rx') = Len(rx) + 1 /\ arrived' \in Seq(Char)
  BY <1>1, <1>2, AppendProperties
<1>4. Len(rx') <= DEPTH
  BY <1>1, <1>2, <1>3, LenProperties, DEPTHAssumption
<1>5. pc = "read" => got \o Append(rx, c) = Append(arrived, c)
  BY <1>2 DEF UartInv, BytesInOrder
<1>6. UartTypeOK'
  BY <1>1, <1>3, <1>4 DEF UartInv, UartTypeOK
<1> QED
  BY <1>1, <1>3, <1>5, <1>6 DEF UartInv, BytesInOrder

LEMMA OneElement ==
    ASSUME NEW T, NEW s \in Seq(T), s # <<>>, Len(s) <= 1
    PROVE  \E c \in T : s = <<c>>
<1>1. Len(s) \in Nat \ {0}
  BY EmptySeq
<1>2. Len(s) = 1
  BY <1>1
<1>3. s[1] \in T
  BY <1>2, 1 \in 1 .. Len(s), ElementOfSeq
<1>4. s = <<s[1]>>
  BY <1>2, <1>3
<1> QED
  BY <1>3, <1>4

LEMMA TransmitInv ==
    ASSUME UartInv, Transmit
    PROVE  UartInv'
<1>1. /\ thr # <<>> /\ thr' = <<>>
      /\ due' = IF due = <<>> THEN due ELSE Tail(due)
      /\ UNCHANGED <<pc, setup, todo, want, got, dlab, rx, arrived>>
  BY DEF Transmit, driver
<1>2. /\ thr \in Seq(Char) /\ Len(thr) <= 1 /\ todo \in Seq(Char) /\ due \in Seq(Char)
      /\ thr \o todo = due
  BY DEF UartInv, UartTypeOK, BytesInOrder
<1>3. PICK c \in Char : thr = <<c>>
  BY <1>1, <1>2, OneElement
<1>4. due # <<>> /\ Tail(due) = todo
  BY <1>2, <1>3
<1>5. <<>> \in Seq(Char) /\ Len(<<>>) = 0
  BY EmptySeq
<1>6. thr' \o todo' = due'
  BY <1>1, <1>2, <1>4, ConcatEmptySeq
<1>7. UartTypeOK'
  BY <1>1, <1>5 DEF UartInv, UartTypeOK
<1>8. due' \in Seq(Char)
  BY <1>1, <1>2, <1>4
<1> QED
  BY <1>1, <1>6, <1>7, <1>8 DEF UartInv, BytesInOrder

LEMMA DriverInv ==
    ASSUME UartInv, Driver
    PROVE  UartInv'
BY ConfigureInv, DrainInv, PutCharInv, GetCharInv DEF Driver

LEMMA UartStutterInv ==
    ASSUME UartInv, UNCHANGED uart
    PROVE  UartInv'
BY DEF uart, driver, device, history, UartInv, UartTypeOK, BytesInOrder

-----------------------------------------------------------------------------
(***************************************************************************)
(* ftable: a list that names each of its objects once                      *)
(***************************************************************************)
LEMMA ListAppend ==
    ASSUME NEW s \in Seq(Obj), NEW o \in Obj, o \notin ToSet(s), IsInjective(s)
    PROVE  /\ Append(s, o) \in Seq(Obj)
           /\ ToSet(Append(s, o)) = ToSet(s) \cup {o}
           /\ IsInjective(Append(s, o))
           /\ Len(Append(s, o)) = Len(s) + 1
<1> DEFINE t == Append(s, o)
<1>1. /\ t \in Seq(Obj) /\ Len(t) = Len(s) + 1 /\ Len(s) \in Nat
      /\ \A i \in 1 .. Len(s) : t[i] = s[i]
      /\ t[Len(s) + 1] = o
  BY AppendProperties, LenProperties
<1>2. DOMAIN s = 1 .. Len(s) /\ DOMAIN t = 1 .. (Len(s) + 1)
  BY <1>1, LenProperties
<1> HIDE DEF t
<1>3. ToSet(t) = ToSet(s) \cup {o}
  BY <1>1, <1>2 DEF ToSet
<1>4. IsInjective(t)
  BY <1>1, <1>2 DEF ToSet, IsInjective
<1> QED
  BY <1>1, <1>3, <1>4 DEF t

LEMMA ListRemove ==
    ASSUME NEW s \in Seq(Obj), NEW k \in DOMAIN s, IsInjective(s)
    PROVE  /\ RemoveAt(s, k) \in Seq(Obj)
           /\ ToSet(RemoveAt(s, k)) = ToSet(s) \ {s[k]}
           /\ IsInjective(RemoveAt(s, k))
           /\ Len(RemoveAt(s, k)) = Len(s) - 1
<1> DEFINE p == SubSeq(s, 1, k - 1)
           q == SubSeq(s, k + 1, Len(s))
           t == p \o q
<1>1. Len(s) \in Nat /\ DOMAIN s = 1 .. Len(s) /\ \A i \in 1 .. Len(s) : s[i] \in Obj
  BY LenProperties, ElementOfSeq
<1>2. k \in 1 .. Len(s)
  BY <1>1
<1>3. p \in Seq(Obj) /\ Len(p) = k - 1 /\ \A i \in 1 .. (k - 1) : p[i] = s[i]
  <2>1. \A i \in 1 .. (k - 1) : s[i] \in Obj
    BY <1>1, <1>2
  <2> QED
    BY <1>2, <2>1, SubSeqProperties
<1>4. q \in Seq(Obj) /\ Len(q) = Len(s) - k /\ \A i \in 1 .. (Len(s) - k) : q[i] = s[k + i]
  <2>1. \A i \in (k + 1) .. Len(s) : s[i] \in Obj
    BY <1>1, <1>2
  <2> QED
    BY <1>1, <1>2, <2>1, SubSeqProperties
<1> HIDE DEF p, q
<1>5. /\ t \in Seq(Obj) /\ Len(t) = Len(s) - 1
      /\ \A i \in 1 .. (Len(s) - 1) : t[i] = IF i < k THEN s[i] ELSE s[i + 1]
  <2>1. /\ t \in Seq(Obj) /\ Len(t) = Len(p) + Len(q)
        /\ \A i \in 1 .. Len(p) + Len(q) : t[i] = IF i <= Len(p) THEN p[i] ELSE q[i - Len(p)]
    BY <1>3, <1>4, ConcatProperties
  <2>2. ASSUME NEW i \in 1 .. (Len(s) - 1)
        PROVE  t[i] = IF i < k THEN s[i] ELSE s[i + 1]
    <3>1. t[i] = IF i <= k - 1 THEN p[i] ELSE q[i - (k - 1)]
      BY <1>1, <1>2, <1>3, <1>4, <2>1, SMTT(30)
    <3>2. CASE i < k
      BY <1>2, <1>3, <3>1, <3>2
    <3>3. CASE ~(i < k)
      <4>1. i - (k - 1) \in 1 .. (Len(s) - k) /\ k + (i - (k - 1)) = i + 1
        BY <1>1, <1>2, <3>3
      <4> QED
        BY <1>2, <1>4, <3>1, <3>3, <4>1, SMTT(30)
    <3> QED
      BY <3>2, <3>3
  <2> QED
    BY <1>1, <1>2, <1>3, <1>4, <2>1, <2>2
<1>6. RemoveAt(s, k) = t
  BY DEF RemoveAt, p, q
<1>7. DOMAIN t = 1 .. (Len(s) - 1)
  BY <1>5, LenProperties
<1> HIDE DEF t
<1>8. ASSUME NEW o
      PROVE  o \in ToSet(t) <=> o \in ToSet(s) /\ o # s[k]
  <2>1. ASSUME NEW i \in 1 .. (Len(s) - 1), t[i] = o
        PROVE  o \in ToSet(s) /\ o # s[k]
    <3>1. CASE i < k
      BY <1>1, <1>2, <1>5, <2>1, <3>1 DEF ToSet, IsInjective
    <3>2. CASE ~(i < k)
      <4>1. i + 1 \in 1 .. Len(s) /\ i + 1 # k /\ o = s[i + 1]
        BY <1>1, <1>2, <1>5, <2>1, <3>2
      <4> QED
        BY <1>1, <1>2, <4>1 DEF ToSet, IsInjective
    <3> QED
      BY <3>1, <3>2
  <2>2. ASSUME NEW i \in 1 .. Len(s), s[i] = o, o # s[k]
        PROVE  o \in ToSet(t)
    <3>1. CASE i < k
      <4>1. i \in 1 .. (Len(s) - 1) /\ t[i] = o
        BY <1>1, <1>2, <1>5, <2>2, <3>1
      <4> QED
        BY <1>7, <4>1 DEF ToSet
    <3>2. CASE i > k
      <4>1. i - 1 \in 1 .. (Len(s) - 1) /\ ~(i - 1 < k) /\ (i - 1) + 1 = i
        BY <1>1, <1>2, <3>2
      <4>2. t[i - 1] = o
        BY <1>5, <2>2, <4>1
      <4> QED
        BY <1>7, <4>1, <4>2 DEF ToSet
    <3> QED
      BY <1>2, <2>2, <3>1, <3>2
  <2> QED
    BY <1>1, <1>7, <2>1, <2>2 DEF ToSet
<1>9. IsInjective(t)
  <2> SUFFICES ASSUME NEW i \in 1 .. (Len(s) - 1), NEW j \in 1 .. (Len(s) - 1), t[i] = t[j]
               PROVE  i = j
    BY <1>7 DEF IsInjective
  <2> DEFINE f(x) == IF x < k THEN x ELSE x + 1
  <2>1. f(i) \in 1 .. Len(s) /\ f(j) \in 1 .. Len(s) /\ (f(i) = f(j) => i = j)
    BY <1>1, <1>2
  <2>2. t[i] = s[f(i)] /\ t[j] = s[f(j)]
    BY <1>5
  <2> HIDE DEF f
  <2> QED
    BY <1>1, <2>1, <2>2 DEF IsInjective
<1> QED
  BY <1>5, <1>6, <1>8, <1>9

-----------------------------------------------------------------------------
(***************************************************************************)
(* The table's inductive invariant: types and counts, and the promises of  *)
(* FileStore about what a file can hold.                                   *)
(***************************************************************************)
Object == [ref : Nat \ {0}, flags : Flags, offset : 0 .. MaxLen, inode : Inode]

\* Descriptors that name object o, objects that refer to inode i.
Naming(t, o)  == {fd \in Fd : t[fd] = o}
Opening(f, i) == {o \in DOMAIN f : f[o].inode = i}
Mounted(i)  == IF i = Root THEN 1 ELSE 0

TableInv ==
    /\ DOMAIN file \subseteq Obj /\ \A o \in DOMAIN file : file[o] \in Object
    /\ fdtable \in [Fd -> DOMAIN file \cup {Null}]
    /\ \A o \in DOMAIN file : file[o].ref = Cardinality(Naming(fdtable, o))

ListInv ==
    /\ ftable \in Seq(Obj) /\ count = Len(ftable)
    /\ ToSet(ftable) = DOMAIN file /\ IsInjective(ftable)

InodeInv ==
    /\ iref \in [Inode -> Nat] /\ nlinks \in [Inode -> {0, 1}]
    /\ \A i \in Inode : iref[i] = Mounted(i) + Cardinality(Opening(file, i))

StoreInv ==
    /\ size \in [File -> 0 .. MaxLen]
    /\ content \in [File -> [S!Pos -> Word \cup {0}]]

IInv == UartInv /\ TableInv /\ ListInv /\ InodeInv /\ StoreInv

LEMMA CountsFinite ==
    ASSUME TableInv
    PROVE  /\ \A o : IsFiniteSet(Naming(fdtable, o))
           /\ \A i : IsFiniteSet(Opening(file, i)) /\ Cardinality(Opening(file, i)) \in Nat
<1>1. \A o : IsFiniteSet(Naming(fdtable, o))
  BY PoolAssumption, FS_Subset DEF Naming
<1>2. \A i : IsFiniteSet(Opening(file, i))
  BY PoolAssumption, FS_Subset DEF Opening, TableInv
<1> QED
  BY <1>1, <1>2, FS_CardinalityType

LEMMA InvImpliesTypeOK == IInv => TypeOK
<1> SUFFICES ASSUME IInv PROVE TypeOK
  OBVIOUS
<1>1. count \in Nat
  BY LenProperties DEF IInv, ListInv
<1>2. fdtable \in [Fd -> Obj \cup {Null}]
  BY DEF IInv, TableInv
<1> QED
  BY <1>1, <1>2 DEF IInv, UartInv, TableInv, ListInv, InodeInv, StoreInv, TypeOK, Object

LEMMA InvImpliesRefsExact == IInv => RefsExact
<1> SUFFICES ASSUME IInv PROVE RefsExact
  OBVIOUS
<1>1. Root \in Inode
  BY InodeAssumption DEF Inode
<1>2. \A fd \in Fd : fdtable[fd] # Null => fdtable[fd] \in DOMAIN file
  BY DEF IInv, TableInv
<1>3. \A o \in DOMAIN file : /\ file[o].ref = Cardinality({fd \in Fd : fdtable[fd] = o})
                             /\ file[o].ref > 0
  BY DEF IInv, TableInv, Object, Naming
<1>4. \A i \in Inode : iref[i] = Mounted(i) + Cardinality(Opening(file, i))
  BY DEF IInv, InodeInv
<1>5. \A i \in Inode : Cardinality(Opening(file, i)) \in Nat
  BY CountsFinite DEF IInv
<1>6. \A i \in Inode \ {Root} : iref[i] = Cardinality(Opening(file, i))
  BY <1>4, <1>5 DEF Mounted
<1>7. iref[Root] = 1 + Cardinality(Opening(file, Root))
  BY <1>1, <1>4 DEF Mounted
<1>8. ToSet(ftable) = DOMAIN file /\ IsInjective(ftable) /\ count = Len(ftable)
  BY DEF IInv, ListInv
<1> QED
  BY <1>2, <1>3, <1>6, <1>7, <1>8 DEF RefsExact, Opening

-----------------------------------------------------------------------------
(***************************************************************************)
(* Opening, duplicating and closing                                        *)
(***************************************************************************)
\* The new object is named by one descriptor and refers to one inode.
LEMMA OpenInv ==
    ASSUME TableInv, ListInv, InodeInv,
           NEW fd \in Fd, NEW i \in Inode, NEW flags \in Flags, Open(fd, i, flags)
    PROVE  TableInv' /\ ListInv' /\ InodeInv'
<1>1. PICK o \in Obj \ DOMAIN file :
         filealloc(o, i, flags) /\ fdtable' = [fdtable EXCEPT ![fd] = o]
  BY DEF Open
<1> DEFINE new == [ref |-> 1, flags |-> flags, offset |-> 0, inode |-> i]
<1>2. /\ DOMAIN file' = DOMAIN file \cup {o}
      /\ file'[o] = new
      /\ \A p \in DOMAIN file : file'[p] = file[p]
      /\ ftable' = Append(ftable, o) /\ count' = count + 1
      /\ fdtable' = [fdtable EXCEPT ![fd] = o]
      /\ iref' = [iref EXCEPT ![i] = @ + 1]
      /\ nlinks' = nlinks /\ fdtable[fd] = Null
  BY <1>1 DEF filealloc, Open, inodes
<1>3. new \in Object
  BY LengthAssumption DEF Object
<1>4. /\ fdtable \in [Fd -> DOMAIN file \cup {Null}]
      /\ fdtable' \in [Fd -> DOMAIN file' \cup {Null}]
  BY <1>2 DEF TableInv
<1>5. Naming(fdtable', o) = {fd}
  <2>1. \A x \in Fd : fdtable[x] # o
    BY <1>1, <1>4, NullAssumption
  <2> QED
    BY <1>2, <1>4, <2>1 DEF Naming
<1>6. \A p \in DOMAIN file : Naming(fdtable', p) = Naming(fdtable, p)
  BY <1>1, <1>2, <1>4, NullAssumption DEF Naming, TableInv
<1>7. Cardinality({fd}) = 1
  BY FS_Singleton
<1>8. TableInv'
  <2>1. \A p \in DOMAIN file' : file'[p].ref = Cardinality(Naming(fdtable', p))
    <3> TAKE p \in DOMAIN file'
    <3>1. CASE p = o
      <4>1. file'[o].ref = 1
        BY <1>2
      <4> QED
        BY <1>5, <1>7, <3>1, <4>1
    <3>2. CASE p # o
      BY <1>2, <1>6, <3>2 DEF TableInv
    <3> QED
      BY <3>1, <3>2
  <2>2. DOMAIN file' \subseteq Obj /\ \A p \in DOMAIN file' : file'[p] \in Object
    BY <1>1, <1>2, <1>3 DEF TableInv
  <2> QED
    BY <1>4, <2>1, <2>2 DEF TableInv
<1>9. ListInv'
  <2>1. o \notin ToSet(ftable)
    BY <1>1 DEF ListInv
  <2> QED
    BY <1>1, <1>2, <2>1, ListAppend DEF ListInv
<1>10. InodeInv'
  <2>1. Opening(file', i) = Opening(file, i) \cup {o} /\ o \notin Opening(file, i)
    BY <1>1, <1>2 DEF Opening
  <2>2. \A j \in Inode \ {i} : Opening(file', j) = Opening(file, j)
    BY <1>1, <1>2 DEF Opening
  <2>3. Cardinality(Opening(file', i)) = Cardinality(Opening(file, i)) + 1
    BY <2>1, CountsFinite, FS_AddElement
  <2>4. Cardinality(Opening(file, i)) \in Nat /\ Mounted(i) \in Nat
    BY CountsFinite DEF Mounted
  <2>5. \A j \in Inode : iref'[j] = Mounted(j) + Cardinality(Opening(file', j))
    <3> TAKE j \in Inode
    <3>1. CASE j = i
      <4>1. iref[i] = Mounted(i) + Cardinality(Opening(file, i)) /\ iref'[i] = iref[i] + 1
        BY <1>2 DEF InodeInv
      <4> QED
        BY <2>3, <2>4, <3>1, <4>1
    <3>2. CASE j # i
      BY <1>2, <2>2, <3>2 DEF InodeInv
    <3> QED
      BY <3>1, <3>2
  <2> QED
    BY <1>2, <2>5 DEF InodeInv
<1> QED
  BY <1>8, <1>9, <1>10

\* One more descriptor names the object.
LEMMA DupInv ==
    ASSUME TableInv, ListInv, InodeInv, NEW fd \in Fd, NEW new \in Fd, Dup(fd, new)
    PROVE  TableInv' /\ ListInv' /\ InodeInv'
<1> DEFINE o == fdtable[fd]
<1>1. /\ o # Null /\ fdtable[new] = Null
      /\ file' = [file EXCEPT ![o].ref = @ + 1]
      /\ fdtable' = [fdtable EXCEPT ![new] = o]
      /\ UNCHANGED <<ftable, count, iref, nlinks>>
  BY DEF Dup, filedup, inodes
<1>2. o \in DOMAIN file /\ file[o] \in Object /\ fdtable \in [Fd -> DOMAIN file \cup {Null}]
  BY <1>1 DEF TableInv
<1> HIDE DEF o
<1>3. /\ DOMAIN file' = DOMAIN file
      /\ file'[o] = [file[o] EXCEPT !.ref = @ + 1]
      /\ \A p \in DOMAIN file \ {o} : file'[p] = file[p]
  BY <1>1, <1>2
<1>4. /\ file'[o] \in Object /\ file'[o].ref = file[o].ref + 1
      /\ file'[o].inode = file[o].inode
  BY <1>2, <1>3 DEF Object
<1>5. fdtable' \in [Fd -> DOMAIN file' \cup {Null}]
  BY <1>1, <1>2, <1>3
<1>6. o # Null /\ Naming(fdtable', o) = Naming(fdtable, o) \cup {new} /\ new \notin Naming(fdtable, o)
  BY <1>1, <1>2 DEF Naming
<1>7. \A p \in DOMAIN file \ {o} : Naming(fdtable', p) = Naming(fdtable, p)
  BY <1>1, <1>2, NullAssumption DEF Naming, TableInv
<1>8. Cardinality(Naming(fdtable', o)) = Cardinality(Naming(fdtable, o)) + 1
  BY <1>6, CountsFinite, FS_AddElement
<1>9. TableInv'
  <2>1. \A p \in DOMAIN file' : file'[p].ref = Cardinality(Naming(fdtable', p))
    <3> TAKE p \in DOMAIN file'
    <3>1. CASE p = o
      BY <1>2, <1>4, <1>8, <3>1 DEF TableInv
    <3>2. CASE p # o
      BY <1>3, <1>7, <3>2 DEF TableInv
    <3> QED
      BY <3>1, <3>2
  <2>2. DOMAIN file' \subseteq Obj /\ \A p \in DOMAIN file' : file'[p] \in Object
    BY <1>3, <1>4 DEF TableInv
  <2> QED
    BY <1>5, <2>1, <2>2 DEF TableInv
<1>10. ListInv'
  BY <1>1, <1>3 DEF ListInv
<1>11. \A i : Opening(file', i) = Opening(file, i)
  BY <1>3, <1>4 DEF Opening
<1>12. InodeInv'
  BY <1>1, <1>11 DEF InodeInv
<1> QED
  BY <1>9, <1>10, <1>12

\* The last descriptor closes the object: it leaves the list, and its inode has one
\* reference less.  Any other leaves the object to those that remain.
LEMMA CloseInv ==
    ASSUME TableInv, ListInv, InodeInv, NEW fd \in Fd, Close(fd)
    PROVE  TableInv' /\ ListInv' /\ InodeInv'
<1> DEFINE o == fdtable[fd]
           i == file[o].inode
<1>1. o # Null /\ fileclose(o) /\ fdtable' = [fdtable EXCEPT ![fd] = Null]
  BY DEF Close
<1>2. o \in DOMAIN file /\ file[o] \in Object /\ fdtable \in [Fd -> DOMAIN file \cup {Null}]
  BY <1>1 DEF TableInv
<1>3. Naming(fdtable', o) = Naming(fdtable, o) \ {fd} /\ fd \in Naming(fdtable, o)
  BY <1>1, <1>2 DEF Naming
<1>4. \A p \in DOMAIN file \ {o} : Naming(fdtable', p) = Naming(fdtable, p)
  BY <1>1, <1>2, NullAssumption DEF Naming, TableInv
<1>5. Cardinality(Naming(fdtable', o)) = file[o].ref - 1
  BY <1>2, <1>3, CountsFinite, FS_RemoveElement, ZenonT(30) DEF TableInv
<1>6. file[o].ref \in Nat \ {0} /\ i \in Inode
  BY <1>2 DEF Object
<1> HIDE DEF o
<1>7. CASE file[o].ref > 1
  <2>1. /\ file' = [file EXCEPT ![o].ref = @ - 1]
        /\ UNCHANGED <<ftable, count, iref, nlinks>>
    BY <1>1, <1>7 DEF fileclose, Dropped, inodes
  <2>2. /\ DOMAIN file' = DOMAIN file
        /\ file'[o] = [file[o] EXCEPT !.ref = @ - 1]
        /\ \A p \in DOMAIN file \ {o} : file'[p] = file[p]
    BY <1>2, <2>1
  <2>3. /\ file'[o] \in Object /\ file'[o].ref = file[o].ref - 1
        /\ file'[o].inode = file[o].inode
    BY <1>2, <1>7, <2>2 DEF Object
  <2>4. fdtable' \in [Fd -> DOMAIN file' \cup {Null}]
    BY <1>1, <1>2, <2>2
  <2>5. \A p \in DOMAIN file' : file'[p].ref = Cardinality(Naming(fdtable', p))
    <3> TAKE p \in DOMAIN file'
    <3>1. CASE p = o
      BY <1>5, <2>3, <3>1
    <3>2. CASE p # o
      BY <1>4, <2>2, <3>2 DEF TableInv
    <3> QED
      BY <3>1, <3>2
  <2>6. TableInv'
    BY <2>2, <2>3, <2>4, <2>5 DEF TableInv
  <2>7. \A j : Opening(file', j) = Opening(file, j)
    BY <2>2, <2>3 DEF Opening
  <2> QED
    BY <2>1, <2>2, <2>6, <2>7 DEF ListInv, InodeInv
<1>8. CASE ~(file[o].ref > 1)
  <2>1. iput(i) /\ Freed(o)
    BY <1>1, <1>8 DEF fileclose
  <2>2. /\ DOMAIN file' = DOMAIN file \ {o}
        /\ \A p \in DOMAIN file \ {o} : file'[p] = file[p]
    BY <2>1 DEF Freed, Restrict
  <2>3. Naming(fdtable', o) = {}
    <3>1. Cardinality(Naming(fdtable', o)) = 0
      BY <1>5, <1>6, <1>8
    <3>2. IsFiniteSet(Naming(fdtable', o))
      BY <1>3, CountsFinite, FS_RemoveElement
    <3> QED
      BY <3>1, <3>2, FS_EmptySet
  <2>4. fdtable' \in [Fd -> DOMAIN file' \cup {Null}]
    BY <1>1, <1>2, <2>2, <2>3 DEF Naming
  <2>5. TableInv'
    BY <1>4, <2>2, <2>4 DEF TableInv
  <2>6. ListInv'
    <3>1. PICK k \in DOMAIN ftable : ftable[k] = o /\ ftable' = RemoveAt(ftable, k)
      BY <2>1 DEF Freed
    <3>2. count' = count - 1
      BY <2>1 DEF Freed
    <3> QED
      BY <2>2, <3>1, <3>2, ListRemove DEF ListInv
  <2>7. Opening(file', i) = Opening(file, i) \ {o} /\ o \in Opening(file, i)
    BY <1>2, <2>2 DEF Opening
  <2>8. \A j \in Inode \ {i} : Opening(file', j) = Opening(file, j)
    BY <1>2, <2>2 DEF Opening
  <2> HIDE DEF i
  <2>9. Cardinality(Opening(file', i)) = Cardinality(Opening(file, i)) - 1
        /\ Cardinality(Opening(file, i)) \in Nat
    BY <2>7, CountsFinite, FS_RemoveElement
  <2>10. Cardinality(Opening(file, i)) # 0
    BY <2>7, CountsFinite, FS_EmptySet
  <2>11. iref[i] = Mounted(i) + Cardinality(Opening(file, i)) /\ iref \in [Inode -> Nat]
    BY <1>6 DEF InodeInv
  <2>12. iref' = [iref EXCEPT ![i] = @ - 1] /\ nlinks' = nlinks
    <3>1. ~(iref[i] = 1 /\ i = Root)
      BY <2>9, <2>10, <2>11 DEF Mounted
    <3> QED
      BY <2>1, <3>1 DEF iput
  <2>13. iref'[i] = Mounted(i) + Cardinality(Opening(file', i)) /\ iref'[i] \in Nat
    BY <1>6, <2>9, <2>10, <2>11, <2>12 DEF Mounted
  <2>14. \A j \in Inode : iref'[j] = Mounted(j) + Cardinality(Opening(file', j))
    <3> TAKE j \in Inode
    <3>1. CASE j = i
      BY <2>13, <3>1
    <3>2. CASE j # i
      BY <2>8, <2>11, <2>12, <3>2 DEF InodeInv
    <3> QED
      BY <3>1, <3>2
  <2>15. InodeInv'
    BY <2>11, <2>12, <2>13, <2>14 DEF InodeInv
  <2> QED
    BY <2>5, <2>6, <2>15
<1> QED
  BY <1>7, <1>8

\* Names of inodes come and go without the table.
LEMMA LinkInv ==
    ASSUME TableInv, ListInv, InodeInv, NEW i \in File, Unlink(i) \/ Create(i)
    PROVE  TableInv' /\ ListInv' /\ InodeInv'
<1>1. /\ UNCHANGED <<file, ftable, count, fdtable, iref>>
      /\ nlinks' = [nlinks EXCEPT ![i] = 0] \/ nlinks' = [nlinks EXCEPT ![i] = 1]
  BY DEF Unlink, Create, table
<1>2. nlinks' \in [Inode -> {0, 1}]
  BY <1>1 DEF InodeInv, Inode
<1> QED
  BY <1>1, <1>2 DEF TableInv, ListInv, InodeInv

-----------------------------------------------------------------------------
(***************************************************************************)
(* Reading and writing                                                     *)
(***************************************************************************)
\* A transfer changes the offset of one object and no count.
LEMMA MovedInv ==
    ASSUME TableInv, ListInv, InodeInv, NEW o \in DOMAIN file, NEW n \in Nat, Moved(o, n),
           file[o].offset + n <= MaxLen,
           UNCHANGED <<ftable, count, fdtable, iref, nlinks>>
    PROVE  TableInv' /\ ListInv' /\ InodeInv'
<1>1. file[o] \in Object
  BY DEF TableInv
<1>2. /\ DOMAIN file' = DOMAIN file
      /\ file'[o] = [file[o] EXCEPT !.offset = @ + n]
      /\ \A p \in DOMAIN file \ {o} : file'[p] = file[p]
  BY DEF Moved
<1>3. /\ file'[o] \in Object /\ file'[o].ref = file[o].ref
      /\ file'[o].inode = file[o].inode
  BY <1>1, <1>2, LengthAssumption DEF Object
<1>4. TableInv'
  BY <1>2, <1>3, ZenonT(30) DEF TableInv, Naming
<1>5. \A j : Opening(file', j) = Opening(file, j)
  BY <1>2, <1>3 DEF Opening
<1> QED
  BY <1>2, <1>4, <1>5 DEF ListInv, InodeInv

LEMMA UnmovedInv ==
    ASSUME TableInv, ListInv, InodeInv, UNCHANGED <<file, ftable, count, fdtable, iref, nlinks>>
    PROVE  TableInv' /\ ListInv' /\ InodeInv'
BY DEF TableInv, ListInv, InodeInv

\* The words a call transfers lie behind the offset, and before the end if it reads.
LEMMA ReadLength ==
    ASSUME StoreInv, NEW f \in File, NEW off \in 0 .. MaxLen, NEW n \in Nat,
           S!Read(f, off, n)
    PROVE  /\ Len(last') \in Nat /\ off + Len(last') <= MaxLen
           /\ last' = [k \in 1 .. Len(last') |-> content[f][off + k - 1]]
           /\ UNCHANGED <<content, size>>
<1> DEFINE m == IF off >= size[f] THEN 0
                ELSE IF off + n > size[f] THEN size[f] - off ELSE n
<1>1. size[f] \in 0 .. MaxLen
  BY DEF StoreInv
<1>2. m \in Nat /\ off + m <= MaxLen
  BY <1>1, LengthAssumption
<1>3. last' = [k \in 1 .. m |-> content[f][off + k - 1]]
  BY DEF S!Read
<1> HIDE DEF m
<1>4. Len(last') = m
  BY <1>2, <1>3
<1> QED
  BY <1>2, <1>3, <1>4 DEF S!Read

LEMMA WriteStoreInv ==
    ASSUME StoreInv, NEW f \in File, NEW off \in 0 .. MaxLen, NEW n \in Nat, NEW w \in Word,
           NEW k \in 0 .. n, off + k <= MaxLen,
           NEW ws, ws = [j \in 1 .. n |-> w], writei(f, off, ws, k)
    PROVE  /\ StoreInv'
           /\ last' = IF k > 0 THEN <<k>> ELSE <<-1>>
           /\ \A g \in File, p \in S!Pos :
                 content'[g][p] # content[g][p] => g = f /\ p \in off .. (off + k - 1)
<1>1. size' \in [File -> 0 .. MaxLen]
  <2>1. size[f] \in 0 .. MaxLen /\ off + k \in 0 .. MaxLen
    BY LengthAssumption DEF StoreInv
  <2>2. S!Larger(size[f], off + k) \in 0 .. MaxLen
    BY <2>1 DEF S!Larger
  <2>3. \/ size' = size
        \/ size' = [size EXCEPT ![f] = IF k > 0 THEN S!Larger(@, off + k) ELSE @]
    BY DEF writei, S!Write
  <2> QED
    BY <2>1, <2>2, <2>3 DEF StoreInv
<1>2. content' = [content EXCEPT ![f] =
         [p \in S!Pos |-> IF p >= off /\ p < off + k THEN ws[p - off + 1] ELSE @[p]]]
  BY DEF writei, S!Write, S!Stored
<1>3. \A p \in S!Pos : p >= off /\ p < off + k => ws[p - off + 1] = w /\ p \in off .. (off + k - 1)
  BY LengthAssumption DEF S!Pos
<1>4. content' \in [File -> [S!Pos -> Word \cup {0}]]
  BY <1>2, <1>3 DEF StoreInv
<1>5. \A g \in File, p \in S!Pos :
         content'[g][p] # content[g][p] => g = f /\ p \in off .. (off + k - 1)
  BY <1>2, <1>3 DEF StoreInv
<1> QED
  BY <1>1, <1>4, <1>5 DEF StoreInv, writei, S!Write

LEMMA DeleteStoreInv ==
    ASSUME StoreInv, NEW f \in File, S!Delete(f)
    PROVE  StoreInv'
BY LengthAssumption DEF StoreInv, S!Delete

-----------------------------------------------------------------------------
(***************************************************************************)
(* The steps.  StayPut and Transferred say what a step does to offsets.    *)
(***************************************************************************)
StayPut == \A o \in DOMAIN file \cap DOMAIN file' : file'[o].offset = file[o].offset

Transferred(o) ==
    /\ LET f == file[o].inode
           from == file[o].offset
           to == file'[o].offset
       IN  f \in File /\ (WasRead(f, from, to) \/ WasWritten(f, from, to))
    /\ \A p \in DOMAIN file \cap DOMAIN file' :
          p # o => file'[p].offset = file[p].offset

LEMMA InitInv == Init => IInv
<1> SUFFICES ASSUME Init PROVE IInv
  OBVIOUS
<1>1. UartInv
  BY UartInitInv DEF Init
<1>2. DOMAIN file = {} /\ ftable = <<>> /\ count = 0
  BY DEF Init
<1>3. TableInv
  BY <1>2 DEF Init, TableInv
<1>4. ListInv
  BY <1>2, EmptySeq DEF ListInv, ToSet, IsInjective
<1>5. InodeInv
  <2>1. \A i \in Inode : Opening(file, i) = {}
    BY <1>2 DEF Opening
  <2>2. Cardinality({}) = 0
    BY FS_EmptySet
  <2>3. \A i \in Inode : Cardinality(Opening(file, i)) = 0 /\ iref[i] = Mounted(i)
    BY <2>1, <2>2 DEF Init, Mounted
  <2> QED
    BY <2>3 DEF Init, InodeInv, Mounted
<1>6. StoreInv
  BY LengthAssumption DEF Init, StoreInv, S!Init
<1> QED
  BY <1>1, <1>3, <1>4, <1>5, <1>6 DEF IInv

LEMMA OpenStep ==
    ASSUME IInv, NEW fd \in Fd, NEW i \in Inode, NEW flags \in Flags, Open(fd, i, flags)
    PROVE  IInv' /\ StayPut
<1>1. UNCHANGED <<size, content>> /\ UNCHANGED uart
  BY DEF Open, store
<1>2. TableInv' /\ ListInv' /\ InodeInv'
  BY OpenInv DEF IInv
<1>3. UartInv' /\ StoreInv'
  BY <1>1, UartStutterInv DEF IInv, StoreInv
<1>4. StayPut
  BY DEF Open, filealloc, StayPut
<1> QED
  BY <1>2, <1>3, <1>4 DEF IInv

LEMMA DupStep ==
    ASSUME IInv, NEW fd \in Fd, NEW new \in Fd, Dup(fd, new)
    PROVE  IInv' /\ StayPut
<1>1. UNCHANGED <<size, content>> /\ UNCHANGED uart
  BY DEF Dup, store
<1>2. TableInv' /\ ListInv' /\ InodeInv'
  BY DupInv DEF IInv
<1>3. UartInv' /\ StoreInv'
  BY <1>1, UartStutterInv DEF IInv, StoreInv
<1>4. StayPut
  BY DEF Dup, filedup, StayPut, IInv, TableInv, Object
<1> QED
  BY <1>2, <1>3, <1>4 DEF IInv

LEMMA CloseStep ==
    ASSUME IInv, NEW fd \in Fd, Close(fd)
    PROVE  IInv' /\ StayPut
<1> DEFINE o == fdtable[fd]
           i == file[o].inode
<1>1. UNCHANGED uart /\ fileclose(o)
  BY DEF Close
<1>2. TableInv' /\ ListInv' /\ InodeInv'
  BY CloseInv DEF IInv
<1>3. CASE file[o].ref > 1
  <2>1. UNCHANGED <<size, content>> /\ Dropped(o)
    BY <1>1, <1>3 DEF fileclose, store
  <2>2. StayPut
    BY <2>1 DEF Dropped, StayPut, IInv, TableInv, Object
  <2> QED
    BY <1>1, <1>2, <2>1, <2>2, UartStutterInv DEF IInv, StoreInv
<1>4. CASE ~(file[o].ref > 1)
  <2>1. iput(i) /\ Freed(o)
    BY <1>1, <1>4 DEF fileclose
  <2>2. StayPut
    BY <2>1 DEF Freed, Restrict, StayPut
  <2>3. StoreInv'
    <3>1. CASE i \in File /\ S!Delete(i)
      BY <3>1, DeleteStoreInv DEF IInv
    <3>2. CASE UNCHANGED store
      BY <3>2 DEF store, IInv, StoreInv
    <3> QED
      BY <2>1, <3>1, <3>2 DEF iput
  <2> QED
    BY <1>1, <1>2, <2>2, <2>3, UartStutterInv DEF IInv
<1> QED
  BY <1>3, <1>4

LEMMA LinkStep ==
    ASSUME IInv, NEW i \in File, Unlink(i) \/ Create(i)
    PROVE  IInv' /\ StayPut
<1>1. UNCHANGED uart /\ file' = file
  BY DEF Unlink, Create, table
<1>2. TableInv' /\ ListInv' /\ InodeInv'
  BY LinkInv DEF IInv
<1>3. StoreInv'
  <2>1. CASE S!Delete(i)
    BY <2>1, DeleteStoreInv DEF IInv
  <2>2. CASE UNCHANGED store
    BY <2>2 DEF store, IInv, StoreInv
  <2> QED
    BY <2>1, <2>2 DEF Unlink, Create
<1> QED
  BY <1>1, <1>2, <1>3, UartStutterInv DEF IInv, StayPut

LEMMA ReadFileStep ==
    ASSUME IInv, NEW o \in DOMAIN file, file[o].inode \in File, NEW n \in Nat,
           ReadFile(o, n), UNCHANGED <<names, inodes>>
    PROVE  IInv' /\ Transferred(o)
<1> DEFINE f == file[o].inode
           off == file[o].offset
           m == Len(last')
<1>1. /\ f \in File /\ off \in 0 .. MaxLen /\ file[o] \in Object
      /\ S!Read(f, off, n) /\ Moved(o, m) /\ UNCHANGED uart
      /\ UNCHANGED <<ftable, count, fdtable, iref, nlinks>>
  BY DEF ReadFile, Advanced, IInv, TableInv, Object, names, inodes
<1>2. /\ m \in Nat /\ off + m <= MaxLen
      /\ last' = [k \in 1 .. m |-> content[f][off + k - 1]]
      /\ UNCHANGED <<content, size>>
  <2>1. StoreInv
    BY DEF IInv
  <2> HIDE DEF f, off
  <2> QED
    BY <1>1, <2>1, ReadLength
<1>3. TableInv' /\ ListInv' /\ InodeInv'
  BY <1>1, <1>2, MovedInv DEF IInv
<1>4. UartInv' /\ StoreInv'
  BY <1>1, <1>2, UartStutterInv DEF IInv, StoreInv
<1>5. /\ file'[o].offset = off + m
      /\ \A p \in DOMAIN file \cap DOMAIN file' : p # o => file'[p].offset = file[p].offset
  BY <1>1 DEF Moved, Object
<1> DEFINE D == Word \cup {0}
           whole == [p \in 1 .. MaxLen |-> content[f][p - 1]]
<1>6. \A p \in 1 .. MaxLen : whole[p] = content[f][p - 1] /\ whole[p] \in D
  BY <1>1, LengthAssumption DEF IInv, StoreInv, S!Pos
<1> HIDE DEF D, whole, m, f, off
<1>7. last' = SubSeq(whole, off + 1, off + m)
  <2>1. \A k \in 1 .. m : off + k \in 1 .. MaxLen /\ off + k - 1 = (off + k) - 1
    BY <1>1, <1>2, LengthAssumption
  <2>2. \A k \in 1 .. m : last'[k] = whole[off + k] /\ whole[off + k] \in D
    BY <1>1, <1>2, <1>6, <2>1
  <2>3. /\ SubSeq(whole, off + 1, off + m) \in Seq(D)
        /\ Len(SubSeq(whole, off + 1, off + m)) = m
        /\ \A k \in 1 .. m : SubSeq(whole, off + 1, off + m)[k] = whole[off + k]
    <3>1. \A j \in (off + 1) .. (off + m) : whole[j] \in D
      BY <1>1, <1>2, <1>6, LengthAssumption
    <3>2. off + 1 \in Int /\ off + m \in Int
      BY <1>1, <1>2
    <3> QED
      BY <1>1, <1>2, <3>1, <3>2, SubSeqProperties
  <2>4. last' \in Seq(D) /\ Len(last') = m
    BY <1>2, <2>2 DEF m
  <2> QED
    BY <2>2, <2>3, <2>4, SeqEqual
<1>8. WasRead(f, off, off + m)
  BY <1>2, <1>7 DEF WasRead, whole
<1> QED
  BY <1>1, <1>3, <1>4, <1>5, <1>8 DEF IInv, Transferred, f, off

LEMMA WriteFileStep ==
    ASSUME IInv, NEW o \in DOMAIN file, file[o].inode \in File, NEW n \in Nat,
           NEW w \in Word, NEW k \in 0 .. n,
           WriteFile(o, n, w, k), UNCHANGED <<names, inodes>>
    PROVE  IInv' /\ (StayPut \/ Transferred(o))
<1> DEFINE f == file[o].inode
           off == file[o].offset
           ws == [j \in 1 .. n |-> w]
<1>1. /\ f \in File /\ off \in 0 .. MaxLen /\ file[o] \in Object
      /\ off + k <= MaxLen /\ writei(f, off, ws, k)
      /\ Moved(o, k) /\ UNCHANGED uart
      /\ UNCHANGED <<ftable, count, fdtable, iref, nlinks>>
  BY DEF WriteFile, IInv, TableInv, Object, names, inodes
<1>2. /\ StoreInv'
      /\ last' = IF k > 0 THEN <<k>> ELSE <<-1>>
      /\ \A g \in File, p \in S!Pos :
            content'[g][p] # content[g][p] => g = f /\ p \in off .. (off + k - 1)
  <2>1. StoreInv /\ ws = [j \in 1 .. n |-> w]
    BY DEF IInv
  <2> HIDE DEF f, off, ws
  <2> QED
    BY <1>1, <2>1, WriteStoreInv
<1>3. TableInv' /\ ListInv' /\ InodeInv'
  BY <1>1, MovedInv DEF IInv
<1>4. UartInv'
  BY <1>1, UartStutterInv DEF IInv
<1>5. /\ file'[o].offset = off + k
      /\ \A p \in DOMAIN file \cap DOMAIN file' : p # o => file'[p].offset = file[p].offset
  BY <1>1 DEF Moved, Object
<1> HIDE DEF f, off
<1>6. CASE k = 0
  <2>1. file'[o].offset = off
    BY <1>1, <1>5, <1>6
  <2>2. StayPut
    BY <1>5, <2>1 DEF StayPut, off
  <2> QED
    BY <1>2, <1>3, <1>4, <2>2 DEF IInv
<1>7. CASE k > 0
  <2>1. (off + k) - off = k
    BY <1>1
  <2>2. last' = <<(off + k) - off>>
    BY <1>2, <1>7, <2>1
  <2>3. \A p \in S!Pos : content'[f][p] # content[f][p] => p \in off .. ((off + k) - 1)
    BY <1>1, <1>2
  <2>4. WasWritten(f, off, off + k)
    BY <2>2, <2>3 DEF WasWritten, S!Pos
  <2>5. Transferred(o)
    BY <1>1, <1>5, <2>4 DEF Transferred, f, off
  <2> QED
    BY <1>2, <1>3, <1>4, <2>5 DEF IInv
<1> QED
  BY <1>6, <1>7

\* sys_read: an error, a read of a file, or the start of one of the UART.
LEMMA SysReadStep ==
    ASSUME IInv, NEW fd \in Fd, NEW n \in Length, sys_read(fd, n)
    PROVE  IInv' /\ (StayPut \/ \E o \in DOMAIN file \cap DOMAIN file' : Transferred(o))
<1> DEFINE o == fdtable[fd]
<1>1. n \in Nat /\ UNCHANGED <<names, inodes>>
  BY LengthAssumption DEF sys_read
<1>2. CASE UNCHANGED <<file, content, size>> /\ UartInv'
  <2>1. TableInv' /\ ListInv' /\ InodeInv'
    BY <1>1, <1>2, UnmovedInv DEF IInv, names, inodes
  <2> QED
    BY <1>2, <2>1 DEF IInv, StoreInv, StayPut
<1>3. CASE Fails
  BY <1>2, <1>3, UartStutterInv DEF Fails, IInv
<1>4. CASE o # Null /\ fileread(o, n)
  <2>1. o \in DOMAIN file /\ file[o].inode \in Inode
    BY <1>4 DEF IInv, TableInv, Object
  <2>2. CASE ReadFile(o, n) /\ file[o].inode \in File
    <3>1. IInv' /\ Transferred(o)
      BY <1>1, <2>1, <2>2, ReadFileStep
    <3>2. o \in DOMAIN file'
      BY <2>1, <2>2 DEF ReadFile, Moved
    <3> QED
      BY <2>1, <3>1, <3>2
  <2>3. CASE uart_read(n) /\ UNCHANGED <<file, content, size>>
    BY <1>1, <1>2, <2>3, ReadInv DEF IInv
  <2> QED
    BY <1>3, <1>4, <2>2, <2>3 DEF fileread
<1> QED
  BY <1>3, <1>4 DEF sys_read, argfd

LEMMA SysWriteStep ==
    ASSUME IInv, NEW fd \in Fd, NEW n \in Length, sys_write(fd, n)
    PROVE  IInv' /\ (StayPut \/ \E o \in DOMAIN file \cap DOMAIN file' : Transferred(o))
<1> DEFINE o == fdtable[fd]
<1>1. n \in Nat /\ UNCHANGED <<names, inodes>>
  BY LengthAssumption DEF sys_write
<1>2. CASE UNCHANGED <<file, content, size>> /\ UartInv'
  <2>1. TableInv' /\ ListInv' /\ InodeInv'
    BY <1>1, <1>2, UnmovedInv DEF IInv, names, inodes
  <2> QED
    BY <1>2, <2>1 DEF IInv, StoreInv, StayPut
<1>3. CASE Fails
  BY <1>2, <1>3, UartStutterInv DEF Fails, IInv
<1>4. CASE o # Null /\ filewrite(o, n)
  <2>1. o \in DOMAIN file /\ file[o].inode \in Inode
    BY <1>4 DEF IInv, TableInv, Object
  <2>2. ASSUME NEW w \in Word, NEW k \in 0 .. n, WriteFile(o, n, w, k), file[o].inode \in File
        PROVE  IInv' /\ (StayPut \/ \E p \in DOMAIN file \cap DOMAIN file' : Transferred(p))
    <3>1. IInv' /\ (StayPut \/ Transferred(o))
      BY <1>1, <2>1, <2>2, WriteFileStep
    <3>2. o \in DOMAIN file'
      BY <2>1, <2>2 DEF WriteFile, Moved
    <3> QED
      BY <2>1, <3>1, <3>2
  <2>3. ASSUME NEW b \in Buf, uart_write(b), UNCHANGED <<file, content, size>>
        PROVE  IInv' /\ (StayPut \/ \E p \in DOMAIN file \cap DOMAIN file' : Transferred(p))
    BY <1>1, <1>2, <2>3, WriteInv DEF IInv
  <2> QED
    BY <1>3, <1>4, <2>2, <2>3 DEF filewrite
<1> QED
  BY <1>3, <1>4 DEF sys_write, argfd

\* The UART goes on by itself.
LEMMA UartStep ==
    ASSUME IInv, Polling \/ (UartDevice /\ UNCHANGED <<table, inodes, store>>)
    PROVE  IInv' /\ StayPut
<1>1. UNCHANGED <<file, ftable, count, fdtable, iref, nlinks, content, size>>
  BY DEF Polling, table, inodes, store
<1>2. UartInv'
  BY DriverInv, TransmitInv, ReceiveInv DEF Polling, UartDevice, IInv
<1>3. TableInv' /\ ListInv' /\ InodeInv'
  BY <1>1, UnmovedInv DEF IInv
<1> QED
  BY <1>1, <1>2, <1>3 DEF IInv, StoreInv, StayPut

LEMMA NextStep ==
    IInv /\ [Next]_vars =>
       IInv' /\ (StayPut \/ \E o \in DOMAIN file \cap DOMAIN file' : Transferred(o))
<1> SUFFICES ASSUME IInv, [Next]_vars
             PROVE  IInv' /\ (StayPut \/ \E o \in DOMAIN file \cap DOMAIN file' : Transferred(o))
  OBVIOUS
<1>1. CASE UNCHANGED vars
  <2>1. UNCHANGED <<file, ftable, count, fdtable, iref, nlinks, content, size>> /\ UNCHANGED uart
    BY <1>1 DEF vars, table, inodes, store
  <2>2. TableInv' /\ ListInv' /\ InodeInv' /\ UartInv'
    BY <2>1, UnmovedInv, UartStutterInv DEF IInv
  <2> QED
    BY <2>1, <2>2 DEF IInv, StoreInv, StayPut
<1>2. CASE Next
  <2>1. ASSUME NEW fd \in Fd, NEW i \in Inode, NEW flags \in Flags, Open(fd, i, flags)
        PROVE  IInv' /\ StayPut
    BY <2>1, OpenStep
  <2>2. ASSUME NEW fd \in Fd, NEW new \in Fd, Dup(fd, new)
        PROVE  IInv' /\ StayPut
    BY <2>2, DupStep
  <2>3. ASSUME NEW fd \in Fd, Close(fd)
        PROVE  IInv' /\ StayPut
    BY <2>3, CloseStep
  <2>4. ASSUME NEW fd \in Fd, NEW n \in Length, sys_read(fd, n) \/ sys_write(fd, n)
        PROVE  IInv' /\ (StayPut \/ \E o \in DOMAIN file \cap DOMAIN file' : Transferred(o))
    BY <2>4, SysReadStep, SysWriteStep
  <2>5. ASSUME NEW i \in File, Unlink(i) \/ Create(i)
        PROVE  IInv' /\ StayPut
    BY <2>5, LinkStep
  <2> QED
    BY <1>2, <2>1, <2>2, <2>3, <2>4, <2>5, UartStep DEF Next
<1> QED
  BY <1>1, <1>2

LEMMA Invariance == Spec => []IInv
BY InitInv, NextStep, PTL DEF Spec

-----------------------------------------------------------------------------
(***************************************************************************)
(* The theorems                                                            *)
(***************************************************************************)
\* The type invariant of UART, open files, descriptors and inode references: no
\* offset leaves the file size the model allows and no reference count is negative.
THEOREM TypeCorrect == Spec => []TypeOK
BY InvImpliesTypeOK, Invariance, PTL

\* filealloc, filedup, fileclose and iput count references exactly, and ftable lists
\* each open file once, for any number of objects and descriptors.
THEOREM ReferencesExact == Spec => []RefsExact
BY InvImpliesRefsExact, Invariance, PTL

\* uart_write loses, repeats and reorders nothing, uartinit sends nothing, and
\* uart_read returns what came in, however fast the device is.
THEOREM UartKeepsOrder == Spec => []BytesInOrder
<1>1. IInv => BytesInOrder
  BY DEF IInv, UartInv
<1> QED
  BY <1>1, Invariance, PTL

\* fileread and filewrite move the offset of the object the call named, and of no
\* other, by what readi or writei has transferred there.
THEOREM OffsetsFollow == Spec => OffsetFollowsTransfer
<1> DEFINE Kept == DOMAIN file \cap DOMAIN file'
           Follows == LET kept == DOMAIN file \cap DOMAIN file'
                          moved == {o \in kept : file'[o].offset # file[o].offset}
                      IN  /\ \A o \in moved :
                                LET f == file[o].inode
                                    from == file[o].offset
                                    to == file'[o].offset
                                IN  f \in File /\ (WasRead(f, from, to) \/ WasWritten(f, from, to))
                          /\ \A o, p \in moved : o = p
<1>1. StayPut => Follows
  BY DEF StayPut
<1>2. ASSUME NEW o \in Kept, Transferred(o)
      PROVE  Follows
  BY <1>2 DEF Transferred
<1>3. IInv /\ [Next]_vars => Follows
  BY <1>1, <1>2, NextStep
<1> QED
  BY <1>3, Invariance, PTL DEF Spec, OffsetFollowsTransfer

=============================================================================
