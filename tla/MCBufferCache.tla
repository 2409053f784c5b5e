---------------------------- MODULE MCBufferCache ----------------------------
(* Two processes and fewer buffers than blocks, so that every buffer is     *)
(* reused while the other process works with it.                            *)
EXTENDS BufferCache, TLC

CONSTANTS p1, p2

MCProcess == {p1, p2}

MCThreeBlocks == {1, 2, 3}

MCReaders == [p \in MCProcess |-> {"modify", "breada", "fresh", "sync"}]

\* One process reads ahead: it holds a buffer while it asks for the other.
MCOneReadsAhead == [p \in MCProcess |-> IF p = p1 THEN {"breada"} ELSE {"modify"}]

MCNoError == {}
MCReadError == {"READ"}

Symmetry == Permutations(Process)
==============================================================================
