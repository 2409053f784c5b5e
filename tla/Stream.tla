-------------------------------- MODULE Stream --------------------------------
(***************************************************************************)
(* What pipes and terminals have in common: processes that read and write  *)
(* a stream of bytes, and that are not preempted in the kernel.            *)
(***************************************************************************)
EXTENDS Integers, Sequences, FiniteSets

CONSTANTS
  Process,
  MaxCount  \* bound: the longest read or write

ASSUME StreamAssumption ==
  /\ IsFiniteSet(Process)
  /\ MaxCount \in Nat \ {0}

VARIABLES
  pc,        \* where a process is
  count,     \* the bytes it has still to read or write
  delivered  \* the bytes that were last read

streamVars == <<pc, count, delivered>>

StreamInit ==
  /\ pc = [p \in Process |-> "user"]
  /\ count = [p \in Process |-> 0]
  /\ delivered = <<>>

GoTo(p, label) == pc' = [pc EXCEPT ![p] = label]

\* Those who are at the first label are made runnable and go on at the second;
\* p itself is then at label.
WakeAll(p, label, next) ==
  pc' = [q \in Process |-> IF q = p THEN label
                           ELSE IF pc[q] \in DOMAIN next THEN next[pc[q]] ELSE pc[q]]
==============================================================================
