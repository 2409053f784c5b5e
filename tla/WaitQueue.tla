------------------------------ MODULE WaitQueue ------------------------------
(***************************************************************************)
(* kernel/sched.c: sleep_on(), interruptible_sleep_on(), wake_up() and the *)
(* part of schedule() that wakes signalled tasks, together with the way    *)
(* the rest of the kernel calls them ("while (busy) sleep_on(&q)").        *)
(*                                                                         *)
(* A wait queue is one pointer, *p.  There is no list: a task that goes to *)
(* sleep keeps the previous value of *p in a local variable, tmp, on its   *)
(* kernel stack and wakes that task itself when it runs again.  So a wake- *)
(* up reaches only the task that slept last and travels down the chain of  *)
(* tmp pointers as the tasks run.                                          *)
(*                                                                         *)
(* The kernel is not preemptible: a task runs from one call of schedule()  *)
(* to the next, and only interrupt handlers run in between.  "current" is  *)
(* the running task, NoTask while schedule() picks the next one (or idles  *)
(* in task 0).  Which runnable task schedule() picks is left open here.    *)
(*                                                                         *)
(* Most callers sleep with interrupts off.  make_request() (ll_rw_blk.c)    *)
(* and floppy_on() do not, so on their queues an interrupt may come        *)
(* between any two statements of sleep_on(): those queues are OpenQueue.   *)
(***************************************************************************)
EXTENDS Naturals, Tasks

CONSTANTS
  Task,       \* the tasks other than task 0, which never sleeps
  Queue,      \* the wait queues
  IntrQueue,  \* the queues that are slept on with interruptible_sleep_on()
  OpenQueue,  \* the queues that are slept on with interrupts on
  Waits,      \* Waits[t] = the queues t's system calls wait on
  NoTask,     \* NULL
  NoQueue     \* not waiting

ASSUME WaitQueueAssumption ==
  /\ IntrQueue \subseteq Queue
  /\ OpenQueue \subseteq Queue
  /\ Waits \in [Task -> SUBSET Queue]
  /\ NoTask \notin Task
  /\ NoQueue \notin Queue

VARIABLES
  wq,       \* wq[q] = *p, the task that slept on q last, or NoTask
  tmp,      \* tmp[t] = the local variable of t's sleep_on(), NoTask outside
  on,       \* on[t] = the queue t's kernel code is waiting on, or NoQueue
  pc,       \* where t is
  ready     \* ready[q] = the condition q's waiters wait for

vars == <<state, signal, wq, tmp, on, pc, ready, current>>

\* "user": user mode.  "test": the test of the while loop around the sleep.
\* "entered", "linked": in the sleep, tmp = *p done, and *p = current done.
\* "sleep_on", "intr_sleep": inside schedule(), called from the sleep.
\* "zombie": inside the last schedule() of do_exit().  "returned": past it.
Where == {"user", "test", "entered", "linked", "sleep_on", "intr_sleep", "zombie", "returned"}

\* In, or on the way to, a sleep.
Waiting == {"test", "entered", "linked", "sleep_on", "intr_sleep"}

State == {"running", "interruptible", "uninterruptible", "zombie"}

TypeOK ==
  /\ state   \in [Task -> State]
  /\ signal  \in [Task -> BOOLEAN]
  /\ wq      \in [Queue -> Task \union {NoTask}]
  /\ tmp     \in [Task -> Task \union {NoTask}]
  /\ on      \in [Task -> Queue \union {NoQueue}]
  /\ pc      \in [Task -> Where]
  /\ ready   \in [Queue -> BOOLEAN]
  /\ current \in Task \union {NoTask}
  /\ \A t \in Task : pc[t] \in Waiting => on[t] \in Queue

Init ==
  /\ state   = [t \in Task |-> "running"]
  /\ signal  = [t \in Task |-> FALSE]
  /\ wq      = [q \in Queue |-> NoTask]
  /\ tmp     = [t \in Task |-> NoTask]
  /\ on      = [t \in Task |-> NoQueue]
  /\ pc      = [t \in Task |-> "user"]
  /\ ready   = [q \in Queue |-> TRUE]
  /\ current = NoTask

\* Mutation: the store is made without the test "if (tmp)".
MakeRunningUnchecked(st, t) == [u \in Task \union {t} |-> IF u = t THEN "running" ELSE st[u]]

\* if (tmp) tmp->state = 0: the store is made whatever t is doing.
MakeRunning(st, t) == [u \in Task |-> IF u = t THEN "running" ELSE st[u]]

-----------------------------------------------------------------------------
(* schedule() *)

\* The loop at the top of schedule(): interruptible tasks with a signal run.
Signalled == [t \in Task |-> IF state[t] = "interruptible" /\ signal[t]
                             THEN "running" ELSE state[t]]

\* schedule() switches to t.
Schedule(t) ==
  /\ current = NoTask
  /\ Signalled[t] = "running"
  /\ state' = Signalled
  /\ current' = t
  /\ UNCHANGED <<signal, wq, tmp, on, pc, ready>>

\* The timer interrupt ends the time slice of a task in user mode.
Preempt(t) ==
  /\ current = t
  /\ pc[t] \in {"user", "returned"}
  /\ current' = NoTask
  /\ UNCHANGED <<state, signal, wq, tmp, on, pc, ready>>

-----------------------------------------------------------------------------
(* The callers: while (!ready) sleep *)

\* A system call comes to a place where it must wait for q.
Enter(t, q) ==
  /\ current = t
  /\ pc[t] = "user"
  /\ q \in Waits[t]
  /\ pc' = [pc EXCEPT ![t] = "test"]
  /\ on' = [on EXCEPT ![t] = q]
  /\ UNCHANGED <<state, signal, wq, tmp, ready, current>>

\* An interruptible wait also ends when a signal is pending.
MayPass(t) == ready[on[t]] \/ (on[t] \in IntrQueue /\ signal[t])

\* The test succeeds.  A lock is then taken, a character consumed; a plain
\* wait_on_buffer() leaves the condition as it is.
Pass(t) ==
  /\ current = t
  /\ pc[t] = "test"
  /\ MayPass(t)
  /\ \E r \in {ready[on[t]], FALSE} : ready' = [ready EXCEPT ![on[t]] = r]
  /\ pc' = [pc EXCEPT ![t] = "user"]
  /\ on' = [on EXCEPT ![t] = NoQueue]
  /\ UNCHANGED <<state, signal, wq, tmp, current>>

\* Mutation: the old head of the queue is not kept.
GoToSleepUnlinked(t, st, where) ==
  /\ current = t
  /\ pc[t] = "test" /\ on[t] \notin OpenQueue
  /\ ~MayPass(t)
  /\ wq' = [wq EXCEPT ![on[t]] = t]
  /\ state' = [state EXCEPT ![t] = st]
  /\ pc' = [pc EXCEPT ![t] = where]
  /\ current' = NoTask
  /\ UNCHANGED <<signal, tmp, on, ready>>

\* tmp = *p; *p = current; state = ...; schedule(), with interrupts off.
GoToSleep(t, st, where) ==
  /\ current = t
  /\ pc[t] = "test" /\ on[t] \notin OpenQueue
  /\ ~MayPass(t)
  /\ tmp' = [tmp EXCEPT ![t] = wq[on[t]]]
  /\ wq' = [wq EXCEPT ![on[t]] = t]
  /\ state' = [state EXCEPT ![t] = st]
  /\ pc' = [pc EXCEPT ![t] = where]
  /\ current' = NoTask
  /\ UNCHANGED <<signal, on, ready>>

\* The same with interrupts on, first tmp = *p.
SaveHead(t) ==
  /\ current = t
  /\ pc[t] = "test" /\ on[t] \in OpenQueue
  /\ ~MayPass(t)
  /\ tmp' = [tmp EXCEPT ![t] = wq[on[t]]]
  /\ pc' = [pc EXCEPT ![t] = "entered"]
  /\ UNCHANGED <<state, signal, wq, on, ready, current>>

\* *p = current.
Link(t) ==
  /\ current = t
  /\ pc[t] = "entered"
  /\ wq' = [wq EXCEPT ![on[t]] = t]
  /\ pc' = [pc EXCEPT ![t] = "linked"]
  /\ UNCHANGED <<state, signal, tmp, on, ready, current>>

\* current->state = ...; schedule().  A wake_up() since Link() has been
\* in vain: the state it stored is overwritten, and *p is NULL.
LieDown(t, st, where) ==
  /\ current = t
  /\ pc[t] = "linked"
  /\ state' = [state EXCEPT ![t] = st]
  /\ pc' = [pc EXCEPT ![t] = where]
  /\ current' = NoTask
  /\ UNCHANGED <<signal, wq, tmp, on, ready>>

SleepOn(t) ==
  /\ on[t] \notin IntrQueue
  /\ \/ GoToSleep(t, "uninterruptible", "sleep_on")
     \/ LieDown(t, "uninterruptible", "sleep_on")

InterruptibleSleepOn(t) ==
  /\ on[t] \in IntrQueue
  /\ \/ GoToSleep(t, "interruptible", "intr_sleep")
     \/ LieDown(t, "interruptible", "intr_sleep")

\* Mutation: sleep_on() returns without waking tmp.
SleepOnReturnsAlone(t) ==
  /\ current = t
  /\ pc[t] = "sleep_on"
  /\ tmp' = [tmp EXCEPT ![t] = NoTask]
  /\ pc' = [pc EXCEPT ![t] = "test"]
  /\ UNCHANGED <<state, signal, wq, on, ready, current>>

\* The end of sleep_on(): if (tmp) tmp->state = 0.
SleepOnReturns(t) ==
  /\ current = t
  /\ pc[t] = "sleep_on"
  /\ state' = MakeRunning(state, tmp[t])
  /\ tmp' = [tmp EXCEPT ![t] = NoTask]
  /\ pc' = [pc EXCEPT ![t] = "test"]
  /\ UNCHANGED <<signal, wq, on, ready, current>>

\* interruptible_sleep_on(): another task slept after t; wake it and repeat.
InterruptibleRepeats(t) ==
  LET head == wq[on[t]]
  IN  /\ current = t
      /\ pc[t] = "intr_sleep"
      /\ head \notin {NoTask, t}
      /\ state' = [MakeRunning(state, head) EXCEPT ![t] = "interruptible"]
      /\ current' = NoTask
      /\ UNCHANGED <<signal, wq, tmp, on, pc, ready>>

\* interruptible_sleep_on(): *p = NULL; if (tmp) tmp->state = 0.
InterruptibleReturns(t) ==
  /\ current = t
  /\ pc[t] = "intr_sleep"
  /\ wq[on[t]] \in {NoTask, t}
  /\ wq' = [wq EXCEPT ![on[t]] = NoTask]
  /\ state' = MakeRunning(state, tmp[t])
  /\ tmp' = [tmp EXCEPT ![t] = NoTask]
  /\ pc' = [pc EXCEPT ![t] = "test"]
  /\ UNCHANGED <<signal, on, ready, current>>

-----------------------------------------------------------------------------
(* Interrupts, signals and exit *)

\* An interrupt handler, or another task, makes the condition true and calls
\* wake_up(&q).
WakeUp(q) ==
  /\ ready' = [ready EXCEPT ![q] = TRUE]
  /\ state' = MakeRunning(state, wq[q])
  /\ wq' = [wq EXCEPT ![q] = NoTask]
  /\ UNCHANGED <<signal, tmp, on, pc, current>>

\* A signal is posted; the receiver's state is left to schedule().
Kill(t) ==
  /\ pc[t] \notin {"zombie", "returned"}
  /\ signal' = [signal EXCEPT ![t] = TRUE]
  /\ UNCHANGED <<state, wq, tmp, on, pc, ready, current>>

\* ret_from_sys_call: the signal is cleared and its handler is run.
HandleSignal(t) ==
  /\ current = t
  /\ pc[t] = "user"
  /\ signal[t]
  /\ signal' = [signal EXCEPT ![t] = FALSE]
  /\ UNCHANGED <<state, wq, tmp, on, pc, ready, current>>

\* The end of do_exit(): state = TASK_ZOMBIE; schedule().
DoExit(t) ==
  /\ current = t
  /\ pc[t] = "user"
  /\ state' = [state EXCEPT ![t] = "zombie"]
  /\ pc' = [pc EXCEPT ![t] = "zombie"]
  /\ current' = NoTask
  /\ UNCHANGED <<signal, wq, tmp, on, ready>>

\* return (-1) of do_exit(): schedule() came back.
DoExitReturns(t) ==
  /\ current = t
  /\ pc[t] = "zombie"
  /\ pc' = [pc EXCEPT ![t] = "returned"]
  /\ UNCHANGED <<state, signal, wq, tmp, on, ready, current>>

\* What the running task does in the kernel, where nothing preempts it.
KernelStep(t) ==
  \/ Pass(t)
  \/ SaveHead(t)
  \/ Link(t)
  \/ SleepOn(t)
  \/ InterruptibleSleepOn(t)
  \/ SleepOnReturns(t)
  \/ InterruptibleRepeats(t)
  \/ InterruptibleReturns(t)
  \/ DoExitReturns(t)

Next ==
  \/ \E t \in Task : Schedule(t)
  \/ \E t \in Task : Preempt(t)
  \/ \E t \in Task, q \in Queue : Enter(t, q)
  \/ \E t \in Task : KernelStep(t)
  \/ \E q \in Queue : WakeUp(q)
  \/ \E t \in Task : Kill(t)
  \/ \E t \in Task : HandleSignal(t)
  \/ \E t \in Task : DoExit(t)

\* The running task keeps running; timer interrupts keep coming, and one that
\* finds the task in the kernel only delays the switch to the end of the
\* system call, so Preempt is strongly fair; no runnable task is passed over
\* for ever (Sched.tla shows that the counters of schedule() guarantee it).
\* Nothing makes a task sleep, exit or wake another one.
Fairness ==
  /\ WF_vars(\E t \in Task : KernelStep(t))
  /\ SF_vars(\E t \in Task : Preempt(t))
  /\ \A t \in Task : SF_vars(Schedule(t))

Spec == Init /\ [][Next]_vars /\ Fairness

-----------------------------------------------------------------------------
(* Properties *)

\* The tasks that cannot run until somebody stores into their state.
Sleepers == {t \in Task : state[t] = "uninterruptible"}

\* Only sleep_on() makes a task uninterruptible, and it does not leave
\* sleep_on() in that state.
SleepersAreInSleepOn ==
  \A t \in Sleepers : pc[t] = "sleep_on" /\ on[t] \notin IntrQueue

\* Those that went to sleep with interrupts off.
MaskedSleepers == {t \in Sleepers : on[t] \notin OpenQueue}

\* t is named by the queue it sleeps on, or by the tmp of a task that is
\* still inside the sleep_on() of this queue and is not in S.
KnownOutside(t, S) ==
  \/ wq[on[t]] = t
  \/ \E u \in Task \ S : pc[u] = "sleep_on" /\ on[u] = on[t] /\ tmp[u] = t

\* Where interrupts are off, no sleeper is forgotten: whatever set of
\* sleepers one looks at, one of them is named by its queue head or by a
\* task outside the set, asleep or awake on the same queue, that will wake
\* it; so no group of sleepers, not even one whose members name each other,
\* is cut off from every future wake-up.  This is about the chain of tmp
\* pointers that stands in for a list in sleep_on() and wake_up().  It does
\* not hold for the queues of make_request() and floppy_on(): see LieDown.
NoSleeperForgotten ==
  \A S \in SUBSET MaskedSleepers : S # {} => \E t \in S : KnownOutside(t, S)
==============================================================================
