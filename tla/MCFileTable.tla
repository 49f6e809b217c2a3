----------------------------- MODULE MCFileTable -----------------------------
(***************************************************************************)
(* An instance of FileTable: two objects and two descriptors for a file,   *)
(* the root directory and the UART.                                        *)
(***************************************************************************)
EXTENDS FileTable

CONSTANTS a, b

MCBuf == {<<a, b>>}

=============================================================================
