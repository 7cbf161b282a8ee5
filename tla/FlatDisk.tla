------------------------------ MODULE FlatDisk ------------------------------
(***************************************************************************)
(* What a buffered block device promises to the file system: a row of      *)
(* bytes with a cursor, and a bound on what a power cut can undo.  The     *)
(* bytes that are only in memory all lie in one block, so what is on the   *)
(* medium is always the state after some earlier write, except in that     *)
(* block.                                                                  *)
(***************************************************************************)
EXTENDS Integers, Sequences

CONSTANTS Size, BlockSize, Bytes

VARIABLES
  image,   \* the bytes, as the file system sees them
  saved,   \* the bytes a power cut leaves
  cursor,
  out      \* what the read that was just made returned
vars == <<image, saved, cursor, out>>

Addresses == 0 .. Size - 1

Init == saved \in [Addresses -> Bytes] /\ image = saved /\ cursor = 0 /\ out = <<>>

(* At most one block differs between memory and medium.                    *)
OneBlockUnsaved ==
  \A a, b \in Addresses :
    image[a] # saved[a] /\ image[b] # saved[b] => a \div BlockSize = b \div BlockSize

Seek(c) == cursor' = c /\ out' = <<>> /\ UNCHANGED <<image, saved>>

Read(n) ==
  /\ cursor + n <= Size
  /\ out' = [i \in 1 .. n |-> image[cursor + i - 1]]
  /\ cursor' = cursor + n
  /\ UNCHANGED <<image, saved>>

Write(n) ==
  /\ cursor + n <= Size
  /\ \E bytes \in [0 .. n - 1 -> Bytes] :
       image' = [a \in Addresses |->
                   IF a \in cursor .. cursor + n - 1 THEN bytes[a - cursor] ELSE image[a]]
  /\ cursor' = cursor + n
  /\ OneBlockUnsaved'
  /\ out' = <<>> /\ UNCHANGED saved

Save == saved' = image /\ UNCHANGED <<image, cursor, out>>

PowerCut == image' = saved /\ cursor' = 0 /\ out' = <<>> /\ UNCHANGED saved

Next ==
  \/ \E c \in 0 .. Size : Seek(c)
  \/ \E n \in 1 .. BlockSize : Read(n) \/ Write(n)
  \/ Save \/ PowerCut

Spec == Init /\ [][Next]_vars
=============================================================================
