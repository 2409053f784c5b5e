------------------------- MODULE WaitQueueRefinement -------------------------
(***************************************************************************)
(* The chain of tmp pointers on the kernel stacks implements a set: what   *)
(* WaitQueue.tla does with *p and tmp is, on the queues slept on with      *)
(* sleep_on(), what WaitSet.tla says about a set of waiting tasks.         *)
(*                                                                         *)
(* A task waits on q if it is reached from *p by following tmp through     *)
(* tasks that are linked to q or asleep on it.  A task inside sleep_on()   *)
(* that is not reached has been released: it runs already, or a task that  *)
(* will run names it, or, where interrupts are on, it was woken too early  *)
(* and nobody will: the set knows that it is released, sleep_on() does not.*)
(***************************************************************************)
EXTENDS WaitQueue

\* A task that is linked and not yet asleep is on the queue, whatever is
\* stored into its state.
Linked == {t \in Task : pc[t] = "linked" /\ on[t] \notin IntrQueue}
Chained == Sleepers \union Linked
ChainedOn(q) == {t \in Chained : on[t] = q}

\* Between joining the queue and the return of sleep_on().
Inside == {t \in Task : pc[t] = "sleep_on"} \union Linked

\* No set of chained tasks of t's queue that holds t can be entered neither
\* by the head of the queue nor by the tmp of a chained task outside the set.
Reached(t) ==
  \A S \in SUBSET ChainedOn(on[t]) :
     t \in S => \/ wq[on[t]] \in S
                \/ \E u \in ChainedOn(on[t]) \ S : tmp[u] \in S

IsWaiting(t) == t \in Chained /\ Reached(t)

WaitingOn == [t \in Task |-> IF IsWaiting(t) THEN on[t] ELSE NoQueue]

Released == {t \in Inside : ~IsWaiting(t)}

Abstract == INSTANCE WaitSet WITH
  Queue <- Queue \ IntrQueue, waiting <- WaitingOn, released <- Released

\* sleep_on() and wake_up() implement a set of waiting tasks: wake_up()
\* releases every task asleep on the queue, although it stores into the state
\* of one of them only, and nobody joins or leaves a queue unnoticed, not
\* even by an interrupt in the middle of sleep_on().
ImplementsWaitSet == Abstract!Init /\ [][Abstract!Next]_(Abstract!vars)

\* Every task released by a wake_up() returns from sleep_on(), however the
\* tasks that have to wake it are scheduled, provided that its queue is
\* slept on with interrupts off.
ReleasedReturns ==
  \A t \in Task :
     (t \in Released /\ on[t] \notin OpenQueue) ~> pc[t] # "sleep_on"
==============================================================================
