-------------------------------- MODULE Uart --------------------------------
(***************************************************************************)
(* driver/uart.c: the polled 16550 and the code that sets it up, reads it  *)
(* and writes it.  The device goes on by itself between two accesses to    *)
(* its registers: it receives characters and sends the one it holds.       *)
(*                                                                         *)
(* Register 0 is THR for a store unless LCR.DLAB is set, when it is the    *)
(* low byte of the baud rate divisor.                                      *)
(***************************************************************************)
EXTENDS Integers, Sequences

CONSTANTS Char,     \* characters
          DEPTH,    \* characters the receive FIFO holds
          Buf       \* the buffers callers pass to uart_write

ASSUME DEPTHAssumption == DEPTH \in Nat \ {0}
ASSUME BufAssumption == Buf \subseteq Seq(Char)

VARIABLES pc,       \* where the driver is
          setup,    \* the register writes uartinit has still to do
          todo,     \* what uart_write has still to store
          want,     \* how many characters uart_read has still room for
          got,      \* what uart_read has stored
          \* the device
          dlab,     \* LCR.DLAB
          rx,       \* the receive FIFO, read at RBR
          thr,      \* THR: empty or one character
          \* histories
          due,      \* characters given to uart_write and not yet on the line
          arrived   \* those in the FIFO, or received, since uart_read was called

driver  == <<pc, setup, todo, want, got>>
device  == <<dlab, rx, thr>>
history == <<due, arrived>>
uart    == <<driver, device, history>>

(***************************************************************************)
(* uartinit: interrupts off, divisor, 8N1, FIFOs; then it empties the FIFO.*)
(* (X_Mut... is a mistaken variant of X that a mutation run puts in its    *)
(* place.)                                                                 *)
(***************************************************************************)
Setup ==
    <<"IER=0", "LCR=DLAB", "DLL", "DLM", "LCR=8N1", "FCR=RESET", "FCR=ENABLE">>

UartInit ==
    /\ pc = "init" /\ setup = Setup
    /\ todo = <<>> /\ want = 0 /\ got = <<>>
    /\ dlab = FALSE /\ rx = <<>> /\ thr = <<>>
    /\ due = <<>> /\ arrived = <<>>

\* A store to register 0, of a character or of a byte of the divisor.
Store(c) == thr' = IF dlab THEN thr ELSE <<c>>

Configure ==
    /\ pc = "init" /\ setup # <<>>
    /\ setup' = Tail(setup)
    /\ LET w == Head(setup)
       IN  /\ dlab' = IF w = "LCR=DLAB" THEN TRUE ELSE IF w = "LCR=8N1" THEN FALSE ELSE dlab
           /\ IF w = "DLL" THEN Store(w)
              ELSE thr' = IF w = "FCR=RESET" THEN <<>> ELSE thr
           /\ rx' = IF w \in {"FCR=RESET", "FCR=ENABLE"} THEN <<>> ELSE rx
    /\ UNCHANGED <<pc, todo, want, got, history>>

\* One test of LSR_RX_READY, and the read of RBR it allows.  (The message logged
\* at the end is output like any other and left out.)
Drain ==
    /\ pc = "init" /\ setup = <<>>
    /\ IF rx = <<>> THEN pc' = "idle" /\ UNCHANGED rx
       ELSE rx' = Tail(rx) /\ UNCHANGED pc
    /\ UNCHANGED <<setup, todo, want, got, dlab, thr, history>>

(***************************************************************************)
(* uart_write, which waits for the device before each character, and       *)
(* uart_putc, its loop for one character.                                  *)
(***************************************************************************)
uart_write(b) ==
    /\ pc = "idle"
    /\ pc' = "write" /\ todo' = b
    /\ due' = due \o b
    /\ UNCHANGED <<setup, want, got, device, arrived>>

TxIdle_MutNoWait == TRUE
TxIdle == thr = <<>>

PutChar ==
    /\ pc = "write"
    /\ IF todo = <<>>
       THEN pc' = "idle" /\ UNCHANGED <<todo, thr>>
       ELSE TxIdle /\ Store(Head(todo)) /\ todo' = Tail(todo) /\ UNCHANGED pc
    /\ UNCHANGED <<setup, want, got, dlab, rx, history>>

(***************************************************************************)
(* uart_read: what is there, at most n characters; it does not wait.       *)
(***************************************************************************)
uart_read(n) ==
    /\ pc = "idle"
    /\ pc' = "read" /\ want' = n /\ got' = <<>>
    /\ arrived' = rx
    /\ UNCHANGED <<setup, todo, device, due>>

GetChar_MutWaits ==
    /\ pc = "read"
    /\ IF want > 0
       THEN /\ rx # <<>>
            /\ got' = Append(got, Head(rx)) /\ rx' = Tail(rx) /\ want' = want - 1
            /\ UNCHANGED <<pc, arrived>>
       ELSE /\ pc' = "idle" /\ want' = 0 /\ got' = <<>> /\ arrived' = <<>>
            /\ UNCHANGED rx
    /\ UNCHANGED <<setup, todo, dlab, thr, due>>
GetChar ==
    /\ pc = "read"
    /\ IF want > 0 /\ rx # <<>>
       THEN /\ got' = Append(got, Head(rx)) /\ rx' = Tail(rx) /\ want' = want - 1
            /\ UNCHANGED <<pc, arrived>>
       ELSE /\ pc' = "idle" /\ want' = 0 /\ got' = <<>> /\ arrived' = <<>>
            /\ UNCHANGED rx
    /\ UNCHANGED <<setup, todo, dlab, thr, due>>

(***************************************************************************)
(* The device (external).  A character that finds the FIFO full is lost.   *)
(***************************************************************************)
Receive(c) ==
    /\ Len(rx) < DEPTH
    /\ rx' = Append(rx, c)
    /\ arrived' = IF pc = "read" THEN Append(arrived, c) ELSE arrived
    /\ UNCHANGED <<driver, dlab, thr, due>>

Transmit ==
    /\ thr # <<>>
    /\ thr' = <<>>
    /\ due' = IF due = <<>> THEN due ELSE Tail(due)
    /\ UNCHANGED <<driver, dlab, rx, arrived>>

Driver == Configure \/ Drain \/ PutChar \/ GetChar
UartDevice == Transmit \/ \E c \in Char : Receive(c)

-----------------------------------------------------------------------------

UartTypeOK ==
    /\ pc \in {"init", "idle", "read", "write"}
    /\ \E k \in 0 .. Len(Setup) : setup = SubSeq(Setup, k + 1, Len(Setup))
    /\ todo \in Seq(Char) /\ got \in Seq(Char) /\ want \in Nat
    /\ dlab \in BOOLEAN
    /\ rx \in Seq(Char) /\ Len(rx) <= DEPTH
    /\ thr \in Seq(Char) /\ Len(thr) <= 1

(***************************************************************************)
(* Every character of uart_write goes to the line, once and in its place,  *)
(* although the driver may be faster than the device, and nothing else     *)
(* does: the bytes uartinit stores in register 0 must not.  uart_read      *)
(* takes characters in the order they came in, and what it leaves, or what *)
(* arrives while it reads, is left for the next call.                      *)
(***************************************************************************)
BytesInOrder ==
    /\ thr \o todo = due
    /\ pc = "read" => got \o rx = arrived

=============================================================================
