--------------------------------- MODULE Fifo ---------------------------------
(* What a pipe, or a terminal, promises: bytes come out in the order in which *)
(* they went in.                                                               *)
EXTENDS Integers, Sequences

CONSTANTS Byte, Capacity

VARIABLES
  bytes,     \* what has been written and not yet read
  delivered  \* what the last read has brought

TypeOK ==
  /\ bytes \in Seq(Byte) /\ Len(bytes) <= Capacity
  /\ delivered \in Seq(Byte)

Init == bytes = <<>> /\ delivered = <<>>

Put ==
  /\ bytes' \in Seq(Byte)
  /\ Len(bytes') \in Len(bytes) + 1..Capacity
  /\ SubSeq(bytes', 1, Len(bytes)) = bytes
  /\ UNCHANGED delivered

Get ==
  \E n \in 1..Len(bytes) : /\ delivered' = SubSeq(bytes, 1, n)
                           /\ bytes' = SubSeq(bytes, n + 1, Len(bytes))

Next == Put \/ Get

Spec == Init /\ [][Next]_<<bytes, delivered>>
==============================================================================
