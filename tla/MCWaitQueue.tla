----------------------------- MODULE MCWaitQueue -----------------------------
(* Three tasks and three queues: one slept on with sleep_on() and interrupts *)
(* off (a buffer), one with sleep_on() and interrupts on (the floppy motor), *)
(* one with interruptible_sleep_on() and interrupts on (the selection of a   *)
(* floppy drive).                                                            *)
EXTENDS WaitQueueRefinement, TLC

CONSTANTS t1, t2, t3, buffer, motor, select

MCTask == {t1, t2, t3}

\* For the safety properties: everybody sleeps on the first two queues.
MCQueue == {buffer, motor}
MCNoQueue == {}
MCMotor == {motor}
MCWaits == [t \in MCTask |-> MCQueue]

\* To follow every task to the end: all three on the buffer, and what two of
\* them leave behind on the other queues.
MCLiveQueue == {buffer, select}
MCSelect == {select}
MCLiveWaits == t1 :> {buffer, select} @@ t2 :> {buffer, select} @@ t3 :> {buffer}

Symmetry == Permutations(Task)
==============================================================================
