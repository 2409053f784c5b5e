------------------------------- MODULE WaitSet -------------------------------
(***************************************************************************)
(* What sleep_on() and wake_up() of kernel/sched.c promise to the code     *)
(* that calls them: a wait queue is a set of tasks, a wake-up releases     *)
(* every task that is in the set, and only a released task comes back from *)
(* sleep_on().  A task may also come back without a wake-up, which is why  *)
(* every caller re-tests its condition in a while loop.                    *)
(*                                                                         *)
(* The buffer cache, the request queue and the inode table are modelled on *)
(* top of this promise; WaitQueue.tla shows that the code keeps it.        *)
(***************************************************************************)
CONSTANTS Task,    \* the tasks that may sleep
          Queue,   \* the wait queues (one "struct task_struct *" each)
          NoQueue  \* not waiting

VARIABLES
  waiting,   \* waiting[t] = the queue t sleeps on, or NoQueue
  released   \* the tasks released by a wake-up that have not returned yet

vars == <<waiting, released>>

Init ==
  /\ waiting = [t \in Task |-> NoQueue]
  /\ released = {}

\* t calls sleep_on(q).
Sleep(t, q) ==
  /\ waiting[t] = NoQueue
  /\ t \notin released
  /\ waiting' = [waiting EXCEPT ![t] = q]
  /\ UNCHANGED released

\* Somebody calls wake_up(q): every task waiting on q is released.
WakeUp(q) ==
  LET woken == {t \in Task : waiting[t] = q}
  IN  /\ waiting' = [t \in Task |-> IF t \in woken THEN NoQueue ELSE waiting[t]]
      /\ released' = released \union woken

\* The tasks that wait.
Waiters == {t \in Task : waiting[t] # NoQueue}

\* A set of tasks is released although nobody woke their queue.
Spurious(S) ==
  /\ waiting' = [t \in Task |-> IF t \in S THEN NoQueue ELSE waiting[t]]
  /\ released' = released \union S

\* A released task returns from sleep_on(), which may release others.
Return(t, S) ==
  /\ t \in released
  /\ waiting' = [u \in Task |-> IF u \in S THEN NoQueue ELSE waiting[u]]
  /\ released' = (released \union S) \ {t}

Next ==
  \/ \E t \in Task, q \in Queue : Sleep(t, q)
  \/ \E q \in Queue : WakeUp(q)
  \/ \E S \in SUBSET Waiters : Spurious(S)
  \/ \E t \in Task, S \in SUBSET Waiters : Return(t, S)
==============================================================================
