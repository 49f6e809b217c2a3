----------------------------- MODULE FileStore ------------------------------
(***************************************************************************)
(* What a caller of ext2_file_read and ext2_file_write sees of a file: a   *)
(* size and an array of words, 0 where nothing was ever written.  Blocks,  *)
(* index blocks and allocation do not appear.                              *)
(*                                                                         *)
(* A write may be cut short when the device is full or the file has its    *)
(* maximal length.  It says how many words it stored, and these are part   *)
(* of the file like those of a complete write.                             *)
(***************************************************************************)
EXTENDS Integers, Sequences

CONSTANTS File,     \* the files
          MaxLen,   \* words a file can have
          Word,     \* values of a word
          Offset, Length   \* arguments of the calls

VARIABLES content,  \* content[f][p]: word p of file f, also behind its end
          size,     \* size[f]
          last      \* the result of the last call

vars == <<content, size, last>>

Pos == 0 .. (MaxLen - 1)
Larger(a, b) == IF a > b THEN a ELSE b

Init ==
    /\ content = [f \in File |-> [p \in Pos |-> 0]]
    /\ size = [f \in File |-> 0]
    /\ last = <<>>

\* The first n words of ws are stored at off.
Stored(f, off, ws, n) ==
    content' = [content EXCEPT ![f] =
          [p \in Pos |-> IF p >= off /\ p < off + n THEN ws[p - off + 1] ELSE @[p]]]

\* A write of which n words are stored reports them and moves the end behind them.
Write(f, off, ws, n) ==
    /\ last' = IF n > 0 THEN <<n>> ELSE <<-1>>
    /\ size' = [size EXCEPT ![f] = IF n > 0 THEN Larger(@, off + n) ELSE @]
    /\ Stored(f, off, ws, n)

\* As many words as the file has behind off, at most len.
Read(f, off, len) ==
    /\ last' = [k \in 1 .. (IF off >= size[f] THEN 0
                            ELSE IF off + len > size[f] THEN size[f] - off ELSE len)
                   |-> content[f][off + k - 1]]
    /\ UNCHANGED <<content, size>>

\* The file is deleted; its inode number may be used for a new one.
Delete(f) ==
    /\ content' = [content EXCEPT ![f] = [p \in Pos |-> 0]]
    /\ size' = [size EXCEPT ![f] = 0]
    /\ UNCHANGED last

Next ==
    \E f \in File :
        \/ \E off \in Offset, len \in Length :
              \/ Read(f, off, len)
              \/ \E w \in Word, n \in 0 .. len :
                    (n > 0 => off + n <= MaxLen) /\ Write(f, off, [k \in 1 .. len |-> w], n)
        \/ Delete(f)

Spec == Init /\ [][Next]_vars

=============================================================================
