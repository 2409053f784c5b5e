----------------------------- MODULE SchedProofs -----------------------------
(***************************************************************************)
(* Proofs about kernel/sched.c, for any number of tasks.                   *)
(*                                                                         *)
(* First WaitQueue.tla, for any wait queues: no sleeper is lost, and the   *)
(* tmp pointers implement a set of tasks.                                  *)
(*                                                                         *)
(* Then Sched.tla, for any number of ticks: the counters stay within       *)
(* bounds, and nobody runs in user mode without ticks.  There everything   *)
(* rests on what schedule() promises, whatever states, counters and alarms *)
(* it is called with; the actions only have to call it.                    *)
(***************************************************************************)
EXTENDS WaitQueueRefinement, Sched, TLAPS

\* The running task is awake, and a task inside interruptible_sleep_on() is
\* there for an interruptible queue: whatever it stores into *p does not
\* touch the chain of a queue slept on with sleep_on().
CurrentRuns == current # NoTask => state[current] = "running"

IntrSleepersOnIntrQueue ==
  \A t \in Task : pc[t] = "intr_sleep" => on[t] \in IntrQueue

\* Nothing but interrupts comes between the statements of a sleep, and only
\* where interrupts are on.
SleepIsEntered ==
  \A t \in Task :
     /\ pc[t] \in {"test", "entered", "linked"} => current = t
     /\ pc[t] \in {"entered", "linked"} => on[t] \in OpenQueue

\* What t read from *p is still there, or it has been woken since.
HeadSaved ==
  \A t \in Task :
     pc[t] = "entered" => \/ tmp[t] = wq[on[t]]
                          \/ wq[on[t]] = NoTask /\ tmp[t] \notin Sleepers

IInv ==
  /\ TypeOK
  /\ CurrentRuns
  /\ IntrSleepersOnIntrQueue
  /\ SleepIsEntered
  /\ HeadSaved
  /\ SleepersAreInSleepOn
  /\ NoSleeperForgotten

-----------------------------------------------------------------------------
\* Every variable keeps its type: in particular *p and tmp name a task or
\* are NULL.  This is about every store of sched.c that the model has.
THEOREM TypeCorrect == Spec => []TypeOK
<1> USE WaitQueueAssumption DEF State, Where, Waiting
<1>1. Init => TypeOK
  BY DEF Init, TypeOK
<1>2. TypeOK /\ [Next]_vars => TypeOK'
  <2> SUFFICES ASSUME TypeOK, [Next]_vars PROVE TypeOK'
    OBVIOUS
  <2> USE DEF TypeOK
  <2>1. ASSUME NEW t \in Task, Schedule(t) PROVE TypeOK'
    BY <2>1 DEF Schedule, Signalled
  <2>2. ASSUME NEW t \in Task, Preempt(t) PROVE TypeOK'
    BY <2>2 DEF Preempt
  <2>3. ASSUME NEW t \in Task, NEW q \in Queue, Enter(t, q) PROVE TypeOK'
    BY <2>3 DEF Enter
  <2>4. ASSUME NEW t \in Task, KernelStep(t) PROVE TypeOK'
    <3>1. CASE Pass(t)
      <4>1. PICK r \in {ready[on[t]], FALSE} : ready' = [ready EXCEPT ![on[t]] = r]
        BY <3>1 DEF Pass
      <4>2. ready' \in [Queue -> BOOLEAN]
        BY <4>1
      <4> QED BY <3>1, <4>2 DEF Pass
    <3>2. CASE SleepOn(t)
      BY <3>2 DEF SleepOn, GoToSleep, LieDown
    <3>3. CASE InterruptibleSleepOn(t)
      BY <3>3 DEF InterruptibleSleepOn, GoToSleep, LieDown
    <3>8. CASE SaveHead(t)
      BY <3>8 DEF SaveHead
    <3>9. CASE Link(t)
      BY <3>9 DEF Link
    <3>4. CASE SleepOnReturns(t)
      BY <3>4 DEF SleepOnReturns, MakeRunning
    <3>5. CASE InterruptibleRepeats(t)
      BY <3>5 DEF InterruptibleRepeats, MakeRunning
    <3>6. CASE InterruptibleReturns(t)
      BY <3>6 DEF InterruptibleReturns, MakeRunning
    <3>7. CASE DoExitReturns(t)
      BY <3>7 DEF DoExitReturns
    <3> QED BY <2>4, <3>1, <3>2, <3>3, <3>4, <3>5, <3>6, <3>7, <3>8, <3>9 DEF KernelStep
  <2>5. ASSUME NEW q \in Queue, WakeUp(q) PROVE TypeOK'
    BY <2>5 DEF WakeUp, MakeRunning
  <2>6. ASSUME NEW t \in Task, Kill(t) PROVE TypeOK'
    BY <2>6 DEF Kill
  <2>7. ASSUME NEW t \in Task, HandleSignal(t) PROVE TypeOK'
    BY <2>7 DEF HandleSignal
  <2>8. ASSUME NEW t \in Task, DoExit(t) PROVE TypeOK'
    BY <2>8 DEF DoExit
  <2>9. CASE UNCHANGED vars
    BY <2>9 DEF vars
  <2> QED BY <2>1, <2>2, <2>3, <2>4, <2>5, <2>6, <2>7, <2>8, <2>9 DEF Next
<1> QED BY <1>1, <1>2, PTL DEF Spec

-----------------------------------------------------------------------------
\* A step that makes no task uninterruptible, takes no sleeper out of the
\* place that names it and moves no sleeper, forgets nobody: it is enough
\* that every naming that existed before exists afterwards, or named a task
\* that no longer sleeps.
LEMMA NamesKept ==
  ASSUME NoSleeperForgotten,
         MaskedSleepers' \subseteq MaskedSleepers,
         \A s \in MaskedSleepers' :
            wq[on[s]] = s => wq'[on'[s]] = s,
         \A s \in MaskedSleepers', u \in Task :
            pc[u] = "sleep_on" /\ on[u] = on[s] /\ tmp[u] = s
              => pc'[u] = "sleep_on" /\ on'[u] = on'[s] /\ tmp'[u] = s
  PROVE  NoSleeperForgotten'
<1> SUFFICES ASSUME NEW S \in SUBSET MaskedSleepers', S # {}
             PROVE  \E s \in S : KnownOutside(s, S)'
  BY DEF NoSleeperForgotten
<1>1. PICK s \in S : KnownOutside(s, S)
  BY DEF NoSleeperForgotten
<1>2. s \in MaskedSleepers'
  OBVIOUS
<1>3. KnownOutside(s, S)'
  BY <1>1, <1>2 DEF KnownOutside
<1> QED BY <1>3

\* The step the chain is made for: the task that goes to sleep becomes the
\* head and its tmp takes over the naming of the old head.
LEMMA SleepOnKeepsNames ==
  ASSUME IInv, NEW t \in Task, GoToSleep(t, "uninterruptible", "sleep_on")
  PROVE  NoSleeperForgotten'
<1> USE DEF IInv, TypeOK, GoToSleep
<1>1. /\ t \notin Sleepers /\ pc[t] = "test" /\ on[t] \in Queue
      /\ MaskedSleepers' = MaskedSleepers \union {t}
  BY DEF SleepersAreInSleepOn, MaskedSleepers, Sleepers, Waiting
<1> SUFFICES ASSUME NEW S \in SUBSET MaskedSleepers', S # {}
             PROVE  \E s \in S : KnownOutside(s, S)'
  BY DEF NoSleeperForgotten
<1>2. CASE t \in S
  <2>1. wq'[on'[t]] = t
    BY <1>1
  <2> QED BY <1>2, <2>1 DEF KnownOutside
<1>3. CASE t \notin S
  <2>1. S \in SUBSET MaskedSleepers
    BY <1>1, <1>3
  <2>2. PICK s \in S : KnownOutside(s, S)
    BY <2>1 DEF NoSleeperForgotten
  <2>3. s \in Task /\ on[s] \in Queue /\ on' = on
    BY <2>1 DEF MaskedSleepers, Sleepers, SleepersAreInSleepOn, Waiting
  <2>4. CASE wq[on[s]] = s /\ on[s] = on[t]
    <3>1. t \in Task \ S /\ pc'[t] = "sleep_on" /\ on'[t] = on'[s] /\ tmp'[t] = s
      BY <1>3, <2>3, <2>4
    <3> QED BY <3>1 DEF KnownOutside
  <2>5. CASE wq[on[s]] = s /\ on[s] # on[t]
    <3>1. wq'[on'[s]] = s
      BY <2>3, <2>5
    <3> QED BY <3>1 DEF KnownOutside
  <2>6. CASE \E u \in Task \ S : pc[u] = "sleep_on" /\ on[u] = on[s] /\ tmp[u] = s
    <3>1. PICK u \in Task \ S : pc[u] = "sleep_on" /\ on[u] = on[s] /\ tmp[u] = s
      BY <2>6
    <3>2. pc'[u] = "sleep_on" /\ on'[u] = on'[s] /\ tmp'[u] = s
      BY <1>1, <2>3, <3>1
    <3> QED BY <3>1, <3>2 DEF KnownOutside
  <2> QED BY <2>2, <2>4, <2>5, <2>6 DEF KnownOutside
<1> QED BY <1>2, <1>3

-----------------------------------------------------------------------------
LEMMA InitIInv == Init => IInv
BY WaitQueueAssumption
   DEF Init, IInv, TypeOK, State, Where, Waiting, CurrentRuns, IntrSleepersOnIntrQueue,
       SleepIsEntered, HeadSaved, SleepersAreInSleepOn, NoSleeperForgotten,
       MaskedSleepers, Sleepers

\* The parts of IInv that say where a task in a given state may be.
LEMMA PlacesKept ==
  ASSUME IInv, [Next]_vars
  PROVE  (/\ CurrentRuns /\ IntrSleepersOnIntrQueue /\ SleepIsEntered
          /\ HeadSaved /\ SleepersAreInSleepOn)'
<1> DEFINE Places == /\ CurrentRuns /\ IntrSleepersOnIntrQueue /\ SleepIsEntered
                     /\ HeadSaved /\ SleepersAreInSleepOn
<1> USE WaitQueueAssumption
        DEF IInv, TypeOK, CurrentRuns, IntrSleepersOnIntrQueue, SleepIsEntered,
            HeadSaved, SleepersAreInSleepOn, Sleepers
<1>1. ASSUME NEW t \in Task, Schedule(t) PROVE Places'
  BY <1>1 DEF Schedule, Signalled
<1>2. ASSUME NEW t \in Task, Preempt(t) PROVE Places'
  BY <1>2 DEF Preempt
<1>3. ASSUME NEW t \in Task, NEW q \in Queue, Enter(t, q) PROVE Places'
  BY <1>3 DEF Enter
<1>4. ASSUME NEW t \in Task, KernelStep(t) PROVE Places'
  <2>1. CASE Pass(t)
    <3>1. t \notin Sleepers
      BY <2>1 DEF Pass, SleepersAreInSleepOn
    <3> QED BY <2>1, <3>1 DEF Pass
  <2>2. CASE SleepOn(t)
    BY <2>2 DEF SleepOn, GoToSleep, LieDown
  <2>3. CASE InterruptibleSleepOn(t)
    BY <2>3 DEF InterruptibleSleepOn, GoToSleep, LieDown
  <2>8. CASE SaveHead(t)
    BY <2>8 DEF SaveHead
  <2>9. CASE Link(t)
    BY <2>9 DEF Link
  <2>4. CASE SleepOnReturns(t)
    BY <2>4 DEF SleepOnReturns, MakeRunning
  <2>5. CASE InterruptibleRepeats(t)
    BY <2>5 DEF InterruptibleRepeats, MakeRunning
  <2>6. CASE InterruptibleReturns(t)
    BY <2>6 DEF InterruptibleReturns, MakeRunning
  <2>7. CASE DoExitReturns(t)
    BY <2>7 DEF DoExitReturns
  <2> QED BY <1>4, <2>1, <2>2, <2>3, <2>4, <2>5, <2>6, <2>7, <2>8, <2>9 DEF KernelStep
<1>5. ASSUME NEW q \in Queue, WakeUp(q) PROVE Places'
  BY <1>5 DEF WakeUp, MakeRunning
<1>6. ASSUME NEW t \in Task, Kill(t) PROVE Places'
  BY <1>6 DEF Kill
<1>7. ASSUME NEW t \in Task, HandleSignal(t) PROVE Places'
  BY <1>7 DEF HandleSignal
<1>8. ASSUME NEW t \in Task, DoExit(t) PROVE Places'
  BY <1>8 DEF DoExit
<1>9. CASE UNCHANGED vars
  BY <1>9 DEF vars
<1> QED BY <1>1, <1>2, <1>3, <1>4, <1>5, <1>6, <1>7, <1>8, <1>9 DEF Next

\* No step loses the name of a sleeper.
LEMMA NamesInductive ==
  ASSUME IInv, [Next]_vars
  PROVE  NoSleeperForgotten'
<1> USE WaitQueueAssumption, NamesKept DEF IInv, TypeOK, MaskedSleepers, Sleepers
<1>1. ASSUME NEW t \in Task, Schedule(t) PROVE NoSleeperForgotten'
  BY <1>1 DEF Schedule, Signalled
<1>2. ASSUME NEW t \in Task, Preempt(t) PROVE NoSleeperForgotten'
  BY <1>2 DEF Preempt
<1>3. ASSUME NEW t \in Task, NEW q \in Queue, Enter(t, q) PROVE NoSleeperForgotten'
  <2>1. t \notin Sleepers
    BY <1>3 DEF Enter, SleepersAreInSleepOn
  <2> QED BY <1>3, <2>1 DEF Enter
<1>4. ASSUME NEW t \in Task, KernelStep(t) PROVE NoSleeperForgotten'
  <2>1. CASE Pass(t)
    <3>1. t \notin Sleepers
      BY <2>1 DEF Pass, SleepersAreInSleepOn
    <3> QED BY <2>1, <3>1 DEF Pass
  <2>2. CASE SleepOn(t)
    <3>1. CASE GoToSleep(t, "uninterruptible", "sleep_on")
      BY <3>1, SleepOnKeepsNames
    <3>2. CASE LieDown(t, "uninterruptible", "sleep_on")
      BY <3>2 DEF LieDown, SleepIsEntered
    <3> QED BY <2>2, <3>1, <3>2 DEF SleepOn
  <2>3. CASE InterruptibleSleepOn(t)
    <3>1. CASE GoToSleep(t, "interruptible", "intr_sleep")
      <4>1. /\ MaskedSleepers' = MaskedSleepers /\ t \notin MaskedSleepers
            /\ on' = on /\ on[t] \in Queue
            /\ \A s \in MaskedSleepers : on[s] # on[t] /\ on[s] \in Queue
        BY <2>3, <3>1 DEF InterruptibleSleepOn, GoToSleep, SleepersAreInSleepOn, Waiting
      <4>2. \A u \in Task : pc[u] = "sleep_on" => pc'[u] = "sleep_on" /\ tmp'[u] = tmp[u]
        BY <3>1 DEF GoToSleep
      <4>3. \A q \in Queue : q # on[t] => wq'[q] = wq[q]
        BY <3>1 DEF GoToSleep
      <4> QED BY <4>1, <4>2, <4>3
    <3>2. CASE LieDown(t, "interruptible", "intr_sleep")
      BY <2>3, <3>2 DEF InterruptibleSleepOn, LieDown, SleepersAreInSleepOn
    <3> QED BY <2>3, <3>1, <3>2 DEF InterruptibleSleepOn
  <2>8. CASE SaveHead(t)
    BY <2>8 DEF SaveHead, SleepersAreInSleepOn
  <2>9. CASE Link(t)
    BY <2>9 DEF Link, SleepIsEntered, SleepersAreInSleepOn
  <2>4. CASE SleepOnReturns(t)
    <3>1. tmp[t] \notin Sleepers'
      BY <2>4 DEF SleepOnReturns, MakeRunning
    <3> QED BY <2>4, <3>1 DEF SleepOnReturns, MakeRunning
  <2>5. CASE InterruptibleRepeats(t)
    BY <2>5 DEF InterruptibleRepeats, MakeRunning
  <2>6. CASE InterruptibleReturns(t)
    BY <2>6 DEF InterruptibleReturns, MakeRunning, SleepersAreInSleepOn,
                IntrSleepersOnIntrQueue
  <2>7. CASE DoExitReturns(t)
    BY <2>7 DEF DoExitReturns
  <2> QED BY <1>4, <2>1, <2>2, <2>3, <2>4, <2>5, <2>6, <2>7, <2>8, <2>9 DEF KernelStep
<1>5. ASSUME NEW q \in Queue, WakeUp(q) PROVE NoSleeperForgotten'
  <2>1. wq[q] \notin Sleepers'
    BY <1>5 DEF WakeUp, MakeRunning
  <2> QED BY <1>5, <2>1 DEF WakeUp, MakeRunning
<1>6. ASSUME NEW t \in Task, Kill(t) PROVE NoSleeperForgotten'
  BY <1>6 DEF Kill
<1>7. ASSUME NEW t \in Task, HandleSignal(t) PROVE NoSleeperForgotten'
  BY <1>7 DEF HandleSignal
<1>8. ASSUME NEW t \in Task, DoExit(t) PROVE NoSleeperForgotten'
  BY <1>8 DEF DoExit
<1>9. CASE UNCHANGED vars
  BY <1>9 DEF vars
<1> QED BY <1>1, <1>2, <1>3, <1>4, <1>5, <1>6, <1>7, <1>8, <1>9 DEF Next

-----------------------------------------------------------------------------
\* No group of tasks asleep in sleep_on() is ever cut off from the queue
\* heads and from the tasks that will wake it, for any number of tasks and
\* queues, with interruptible sleepers and their stale stores beside them.
THEOREM SleepersNotForgotten == Spec => []NoSleeperForgotten
<1>1. IInv /\ [Next]_vars /\ TypeOK' => IInv'
  BY PlacesKept, NamesInductive DEF IInv
<1>2. IInv => NoSleeperForgotten
  BY DEF IInv
<1> QED BY InitIInv, TypeCorrect, <1>1, <1>2, PTL DEF Spec
-----------------------------------------------------------------------------
(* A wait queue is a set of tasks *)

\* The naming that is left after a step was there before it: nobody becomes
\* the head of a queue, or is named by a sleeper's tmp, who was not.
NamesOnlyVanish ==
  /\ Chained' \subseteq Chained
  /\ \A s \in Chained' : on'[s] = on[s]
  /\ \A s \in Chained' : wq'[on[s]] = s => wq[on[s]] = s
  /\ \A s \in Chained' : tmp'[s] = tmp[s]

NobodyJoins == \A t \in Task : IsWaiting(t)' => IsWaiting(t)

\* A set of sleepers that could not be entered cannot be entered afterwards,
\* so nobody who was released is on a queue again.
LEMMA NobodyIsCaughtAgain ==
  ASSUME NamesOnlyVanish
  PROVE  NobodyJoins
<1> SUFFICES ASSUME NEW t \in Task, IsWaiting(t)'
             PROVE  Reached(t) /\ t \in Chained
  BY DEF NobodyJoins, IsWaiting
<1> DEFINE q == on[t]
<1>1. t \in Chained' /\ t \in Chained /\ on'[t] = q
  BY DEF IsWaiting, NamesOnlyVanish
<1>2. ChainedOn(on[t])' = {s \in Chained' : on'[s] = q}
  BY <1>1 DEF ChainedOn
<1> SUFFICES ASSUME NEW S \in SUBSET ChainedOn(q), t \in S
             PROVE  wq[q] \in S \/ \E u \in ChainedOn(q) \ S : tmp[u] \in S
  BY <1>1 DEF Reached
<1> DEFINE R == S \cap Chained'
<1>3. R \in SUBSET (ChainedOn(on[t])') /\ t \in R
  BY <1>1, <1>2 DEF ChainedOn, NamesOnlyVanish
<1>4. wq'[on'[t]] \in R \/ \E u \in ChainedOn(on[t])' \ R : tmp'[u] \in R
  BY <1>3 DEF IsWaiting, Reached
<1>5. CASE wq'[on'[t]] \in R
  <2>1. PICK s \in R : wq'[q] = s
    BY <1>1, <1>5
  <2>2. on[s] = q /\ s \in Chained'
    BY DEF ChainedOn
  <2> QED BY <2>1, <2>2 DEF NamesOnlyVanish
<1>6. CASE \E u \in ChainedOn(on[t])' \ R : tmp'[u] \in R
  <2>1. PICK u \in ChainedOn(on[t])' \ R : tmp'[u] \in R
    BY <1>6
  <2>2. u \in ChainedOn(q) \ S /\ tmp[u] \in S
    BY <2>1, <1>2 DEF ChainedOn, NamesOnlyVanish
  <2> QED BY <2>2
<1> QED BY <1>4, <1>5, <1>6

\* A task that waits is inside sleep_on(), asleep on a queue.
LEMMA WaitersSleep ==
  ASSUME IInv, NEW t \in Task, IsWaiting(t)
  PROVE  /\ t \in Inside
         /\ on[t] \in Queue \ IntrQueue
         /\ on[t] # NoQueue
         /\ WaitingOn[t] = on[t]
BY WaitQueueAssumption
   DEF IInv, TypeOK, SleepersAreInSleepOn, IsWaiting, WaitingOn, Waiting, Chained,
       Linked, Inside, Sleepers

\* Those a step takes off their queues.
Leaving == {t \in Task : IsWaiting(t) /\ ~IsWaiting(t)'}

OnKept == \A t \in Task : IsWaiting(t)' => on'[t] = on[t]

\* When nobody joins, the queues lose exactly those that leave.
LEMMA QueuesShrink ==
  ASSUME IInv, NobodyJoins, OnKept
  PROVE  /\ \A t \in Leaving : WaitingOn[t] # NoQueue
         /\ WaitingOn' = [t \in Task |-> IF t \in Leaving THEN NoQueue ELSE WaitingOn[t]]
<1>1. \A t \in Leaving : WaitingOn[t] # NoQueue
  BY WaitersSleep DEF Leaving
<1>2. ASSUME NEW t \in Task
      PROVE  (IF IsWaiting(t)' THEN on'[t] ELSE NoQueue)
               = (IF t \in Leaving THEN NoQueue ELSE WaitingOn[t])
  BY <1>2 DEF Leaving, NobodyJoins, OnKept, WaitingOn
<1>3. WaitingOn' = [t \in Task |-> IF IsWaiting(t)' THEN on'[t] ELSE NoQueue]
  BY DEF WaitingOn
<1> QED BY <1>1, <1>2, <1>3

\* A step that leaves every task where it is in sleep_on() releases those
\* that leave.
LEMMA StepIsSpurious ==
  ASSUME IInv, NamesOnlyVanish,
         Inside' = Inside
  PROVE  Abstract!Next
<1>1. NobodyJoins
  BY NobodyIsCaughtAgain
<1>2. OnKept
  BY DEF OnKept, IsWaiting, NamesOnlyVanish
<1>3. Leaving \in SUBSET Abstract!Waiters
  BY <1>1, <1>2, QueuesShrink DEF Leaving, Abstract!Waiters
<1>0. Inside \subseteq Task
  BY DEF Inside, Linked
<1>4. Released' = Released \union Leaving
  BY <1>0, <1>1, WaitersSleep DEF Released, Leaving, NobodyJoins
<1>5. Abstract!Spurious(Leaving)
  BY <1>1, <1>2, <1>4, QueuesShrink DEF Abstract!Spurious
<1> QED BY <1>3, <1>5 DEF Abstract!Next
\* The step that puts a task on a queue: it becomes the head, its tmp takes
\* over the naming of the old head, and so everybody stays reached who was.
LEMMA ChainGrows ==
  ASSUME IInv, NEW t \in Task, t \notin Inside, on[t] \in Queue \ IntrQueue,
         on' = on, wq' = [wq EXCEPT ![on[t]] = t],
         Chained' = Chained \union {t}, Inside' = Inside \union {t},
         \A u \in Task : u # t => tmp'[u] = tmp[u],
         \A S \in SUBSET Chained : tmp'[t] \in S <=> wq[on[t]] \in S
  PROVE  Abstract!Sleep(t, on[t])
<1> DEFINE q == on[t]
<1>1. /\ t \notin Chained /\ q \in Queue /\ Chained \subseteq Inside /\ Chained \subseteq Task
      /\ \A s \in Chained : on[s] \in Queue
  BY DEF IInv, TypeOK, SleepersAreInSleepOn, Chained, Sleepers, Linked, Inside, Waiting
<1>2. /\ wq'[q] = t
      /\ \A r \in Queue : r # q => wq'[r] = wq[r]
  BY <1>1 DEF IInv, TypeOK
<1>3. /\ ChainedOn(q)' = ChainedOn(q) \union {t}
      /\ \A r \in Queue : r # q => ChainedOn(r)' = ChainedOn(r)
      /\ \A r \in Queue : ChainedOn(r) \subseteq Task /\ t \notin ChainedOn(r)
                          /\ ChainedOn(r) \subseteq Chained
  BY <1>1 DEF ChainedOn
<1>4. IsWaiting(t)'
  BY <1>1, <1>2 DEF IsWaiting, Reached
<1>5. ASSUME NEW s \in Task, s # t PROVE IsWaiting(s)' <=> IsWaiting(s)
  <2>1. s \in Chained' <=> s \in Chained
    BY <1>1, <1>5
  <2>3. CASE s \in Chained /\ on[s] # q
    <3>1. ChainedOn(on[s])' = ChainedOn(on[s]) /\ wq'[on'[s]] = wq[on[s]]
      BY <1>1, <1>2, <1>3, <2>3
    <3>2. \A u \in ChainedOn(on[s]) : tmp'[u] = tmp[u]
      BY <1>1, <1>3, <2>3
    <3>3. Reached(s)' <=> Reached(s)
      BY <3>1, <3>2 DEF Reached
    <3> QED BY <2>1, <3>3 DEF IsWaiting
  <2>4. CASE s \in Chained /\ on[s] = q
    <3>1. ASSUME Reached(s), NEW S \in SUBSET (ChainedOn(q)'), s \in S
          PROVE  wq'[q] \in S \/ \E u \in ChainedOn(q)' \ S : tmp'[u] \in S
      <4>1. CASE t \in S
        BY <4>1, <1>2
      <4>2. CASE t \notin S
        <5>1. S \in SUBSET ChainedOn(q) /\ S \in SUBSET Chained
          BY <4>2, <1>1, <1>3
        <5>2. wq[q] \in S \/ \E u \in ChainedOn(q) \ S : tmp[u] \in S
          BY <5>1, <3>1, <2>4 DEF Reached
        <5>3. CASE wq[q] \in S
          BY <5>1, <5>3, <4>2, <1>2, <1>3
        <5>4. CASE \E u \in ChainedOn(q) \ S : tmp[u] \in S
          <6>1. PICK u \in ChainedOn(q) \ S : tmp[u] \in S
            BY <5>4
          <6>2. u \in ChainedOn(q)' \ S /\ tmp'[u] \in S
            BY <6>1, <1>1, <1>2, <1>3
          <6> QED BY <6>2
        <5> QED BY <5>2, <5>3, <5>4
      <4> QED BY <4>1, <4>2
    <3>2. ASSUME Reached(s)', NEW S \in SUBSET ChainedOn(q), s \in S
          PROVE  wq[q] \in S \/ \E u \in ChainedOn(q) \ S : tmp[u] \in S
      <4>1. S \in SUBSET (ChainedOn(q)') /\ t \notin S /\ S \in SUBSET Chained
        BY <1>1, <1>3
      <4>2. wq'[q] \in S \/ \E u \in ChainedOn(q)' \ S : tmp'[u] \in S
        BY <4>1, <3>2, <2>4, <1>2 DEF Reached
      <4>3. PICK u \in ChainedOn(q)' \ S : tmp'[u] \in S
        BY <4>1, <4>2, <1>2
      <4>4. CASE u = t
        BY <4>1, <4>3, <4>4
      <4>5. CASE u # t
        BY <4>3, <4>5, <1>1, <1>2, <1>3
      <4> QED BY <4>4, <4>5
    <3>3. Reached(s)' <=> Reached(s)
      BY <3>1, <3>2, <2>4, <1>2 DEF Reached
    <3> QED BY <2>1, <3>3 DEF IsWaiting
  <2> QED BY <2>1, <2>3, <2>4 DEF IsWaiting
<1>6. WaitingOn[t] = NoQueue /\ t \notin Released
  BY <1>1 DEF WaitingOn, IsWaiting, Released
<1>7. WaitingOn' = [WaitingOn EXCEPT ![t] = q]
  <2>1. ASSUME NEW s \in Task
        PROVE  (IF IsWaiting(s)' THEN on'[s] ELSE NoQueue)
                 = (IF s = t THEN q ELSE WaitingOn[s])
    BY <1>2, <1>4, <1>5 DEF WaitingOn
  <2>2. WaitingOn' = [s \in Task |-> IF IsWaiting(s)' THEN on'[s] ELSE NoQueue]
    BY DEF WaitingOn
  <2>3. [WaitingOn EXCEPT ![t] = q] = [s \in Task |-> IF s = t THEN q ELSE WaitingOn[s]]
    BY DEF WaitingOn
  <2> QED BY <2>1, <2>2, <2>3
<1>8. Released' = Released
  BY <1>1, <1>4, <1>5 DEF Released, Inside, Linked
<1> QED BY <1>6, <1>7, <1>8 DEF Abstract!Sleep

\* With interrupts off the task joins and lies down in one step.
LEMMA SleepOnJoins ==
  ASSUME IInv, NEW t \in Task, on[t] \notin IntrQueue,
         GoToSleep(t, "uninterruptible", "sleep_on")
  PROVE  Abstract!Sleep(t, on[t])
<1> USE DEF IInv, TypeOK, GoToSleep
<1>1. on[t] \in Queue \ IntrQueue
  BY DEF Waiting
<1>2. t \notin Inside /\ Inside' = Inside \union {t} /\ Linked' = Linked
  BY DEF Inside, Linked
<1>3. Sleepers' = Sleepers \union {t}
  BY DEF Sleepers
<1>4. Chained' = Chained \union {t}
  BY <1>2, <1>3 DEF Chained
<1>5. /\ tmp'[t] = wq[on[t]]
      /\ \A u \in Task : u # t => tmp'[u] = tmp[u]
  OBVIOUS
<1> QED BY <1>1, <1>2, <1>4, <1>5, ChainGrows

\* With interrupts on it joins when it stores itself into *p.  If it was
\* interrupted by a wake-up before, its tmp names nobody who sleeps.
LEMMA LinkJoins ==
  ASSUME IInv, NEW t \in Task, on[t] \notin IntrQueue, Link(t)
  PROVE  Abstract!Sleep(t, on[t])
<1> USE DEF IInv, TypeOK, Link
<1>1. on[t] \in Queue \ IntrQueue
  BY DEF Waiting
<1>2. t \notin Inside /\ Inside' = Inside \union {t} /\ Linked' = Linked \union {t}
  BY DEF Inside, Linked
<1>3. Sleepers' = Sleepers
  BY DEF Sleepers
<1>4. Chained' = Chained \union {t}
  BY <1>2, <1>3 DEF Chained
<1>5. Linked = {}
  BY DEF Linked, SleepIsEntered
<1>6. ASSUME NEW S \in SUBSET Chained PROVE tmp'[t] \in S <=> wq[on[t]] \in S
  <2>1. NoTask \notin S /\ S \subseteq Sleepers
    BY <1>5, WaitQueueAssumption DEF Chained, Sleepers
  <2> QED BY <2>1 DEF HeadSaved
<1> QED BY <1>1, <1>2, <1>4, <1>6, ChainGrows

\* A task comes back from sleep_on(): it was released, and the one its tmp
\* names is released now.
LEMMA SleepOnReturnsReleased ==
  ASSUME IInv, NEW t \in Task, SleepOnReturns(t)
  PROVE  Abstract!Next
<1> USE WaitQueueAssumption DEF IInv, TypeOK, SleepOnReturns, MakeRunning
<1>0. Linked = {} /\ Linked' = {}
  BY DEF Linked, SleepIsEntered
<1>1. NamesOnlyVanish
  BY <1>0 DEF NamesOnlyVanish, Chained, Sleepers, CurrentRuns
<1>2. NobodyJoins /\ OnKept
  BY <1>1, NobodyIsCaughtAgain DEF OnKept, IsWaiting, NamesOnlyVanish
<1>3. t \notin Chained
  BY <1>0 DEF CurrentRuns, Chained, Sleepers
<1>4. t \in Released /\ t \notin Leaving
  BY <1>3 DEF Released, Leaving, IsWaiting, Inside
<1>5. Inside' = Inside \ {t}
  BY <1>0 DEF Inside
<1>9. Inside \subseteq Task
  BY DEF Inside, Linked
<1> HIDE DEF IInv, TypeOK, SleepOnReturns
<1>6. Released' = (Released \union Leaving) \ {t}
  BY <1>2, <1>4, <1>5, <1>9, WaitersSleep DEF Released, Leaving, NobodyJoins
<1>7. Leaving \in SUBSET Abstract!Waiters
  BY <1>2, QueuesShrink DEF Leaving, Abstract!Waiters
<1>8. Abstract!Return(t, Leaving)
  BY <1>2, <1>4, <1>6, QueuesShrink DEF Abstract!Return
<1> QED BY <1>7, <1>8 DEF Abstract!Next

LEMMA StepImplements ==
  ASSUME IInv, [Next]_vars
  PROVE  [Abstract!Next]_(Abstract!vars)
<1> USE WaitQueueAssumption, StepIsSpurious
        DEF IInv, TypeOK, Sleepers, Linked, Chained, Inside, NamesOnlyVanish
<1>1. ASSUME NEW t \in Task, Schedule(t) PROVE Abstract!Next
  BY <1>1 DEF Schedule, Signalled
<1>2. ASSUME NEW t \in Task, Preempt(t) PROVE Abstract!Next
  BY <1>2 DEF Preempt
<1>3. ASSUME NEW t \in Task, NEW q \in Queue, Enter(t, q) PROVE Abstract!Next
  <2>1. t \notin Sleepers
    BY <1>3 DEF Enter, SleepersAreInSleepOn
  <2> QED BY <1>3, <2>1 DEF Enter
<1>4. ASSUME NEW t \in Task, KernelStep(t) PROVE Abstract!Next
  <2>1. CASE Pass(t)
    <3>1. t \notin Sleepers
      BY <2>1 DEF Pass, SleepersAreInSleepOn
    <3> QED BY <2>1, <3>1 DEF Pass
  <2>2. CASE SleepOn(t)
    <3>1. on[t] \in Queue \ IntrQueue
      BY <2>2 DEF SleepOn, GoToSleep, LieDown, Waiting
    <3>2. CASE GoToSleep(t, "uninterruptible", "sleep_on")
      BY <3>1, <3>2, SleepOnJoins DEF Abstract!Next
    <3>3. CASE LieDown(t, "uninterruptible", "sleep_on")
      BY <3>1, <3>3 DEF LieDown
    <3> QED BY <2>2, <3>2, <3>3 DEF SleepOn
  <2>3. CASE InterruptibleSleepOn(t)
    <3>1. CASE GoToSleep(t, "interruptible", "intr_sleep")
      BY <3>1 DEF GoToSleep, SleepersAreInSleepOn
    <3>2. CASE LieDown(t, "interruptible", "intr_sleep")
      BY <2>3, <3>2 DEF InterruptibleSleepOn, LieDown, SleepersAreInSleepOn
    <3> QED BY <2>3, <3>1, <3>2 DEF InterruptibleSleepOn
  <2>8. CASE SaveHead(t)
    BY <2>8 DEF SaveHead, SleepersAreInSleepOn
  <2>9. CASE Link(t)
    <3>1. CASE on[t] \in IntrQueue
      BY <2>9, <3>1 DEF Link, SleepersAreInSleepOn
    <3>2. CASE on[t] \notin IntrQueue
      BY <2>9, <3>2, LinkJoins DEF Abstract!Next, Link, Waiting
    <3> QED BY <3>1, <3>2
  <2>4. CASE SleepOnReturns(t)
    BY <2>4, SleepOnReturnsReleased
  <2>5. CASE InterruptibleRepeats(t)
    BY <2>5 DEF InterruptibleRepeats, MakeRunning
  <2>6. CASE InterruptibleReturns(t)
    BY <2>6 DEF InterruptibleReturns, MakeRunning, SleepersAreInSleepOn,
                IntrSleepersOnIntrQueue
  <2>7. CASE DoExitReturns(t)
    BY <2>7 DEF DoExitReturns
  <2> QED BY <1>4, <2>1, <2>2, <2>3, <2>4, <2>5, <2>6, <2>7, <2>8, <2>9 DEF KernelStep
<1>5. ASSUME NEW q \in Queue, WakeUp(q) PROVE Abstract!Next
  BY <1>5 DEF WakeUp, MakeRunning
<1>6. ASSUME NEW t \in Task, Kill(t) PROVE Abstract!Next
  BY <1>6 DEF Kill
<1>7. ASSUME NEW t \in Task, HandleSignal(t) PROVE Abstract!Next
  BY <1>7 DEF HandleSignal
<1>8. ASSUME NEW t \in Task, DoExit(t) PROVE Abstract!Next
  BY <1>8 DEF DoExit
<1>9. CASE UNCHANGED vars
  BY <1>9 DEF vars
<1> QED BY <1>1, <1>2, <1>3, <1>4, <1>5, <1>6, <1>7, <1>8, <1>9 DEF Next

LEMMA InitImplements == Init => Abstract!Init
<1> SUFFICES ASSUME Init PROVE Abstract!Init
  OBVIOUS
<1>1. Chained = {} /\ Inside = {}
  BY DEF Init, Chained, Sleepers, Linked, Inside
<1>2. WaitingOn = [t \in Task |-> NoQueue]
  BY <1>1 DEF WaitingOn, IsWaiting
<1>3. Released = {}
  BY <1>1 DEF Released
<1> QED BY <1>2, <1>3 DEF Abstract!Init

\* The tmp pointers implement a set: for any tasks and queues, every step of
\* sleep_on() and wake_up() is a step of a set of waiting tasks, which is
\* what the rest of the kernel relies on when it sleeps.
THEOREM ChainIsASet == Spec => ImplementsWaitSet
<1>1. IInv /\ [Next]_vars /\ TypeOK' => IInv'
  BY PlacesKept, NamesInductive DEF IInv
<1>2. IInv /\ [Next]_vars => [Abstract!Next]_(Abstract!vars)
  BY StepImplements
<1> QED BY InitIInv, InitImplements, TypeCorrect, <1>1, <1>2, PTL DEF Spec, ImplementsWaitSet

\* wake_up(q) stores into the state of one task only, and yet releases every
\* task that waits on q: afterwards none of them waits, and each will be let
\* out of sleep_on() by itself or by one that was released before it.
THEOREM WakeUpReleasesAll ==
  Spec => [][\A q \in Queue : WakeUp(q) =>
                \A t \in Task : WaitingOn[t] = q => t \in Released']_vars
<1>1. ASSUME IInv, NEW q \in Queue, WakeUp(q), NEW t \in Task, WaitingOn[t] = q
      PROVE  t \in Released'
  <2>1. IsWaiting(t) /\ on[t] = q
    BY <1>1, WaitQueueAssumption DEF WaitingOn
  <2>2. t \in Inside' /\ on'[t] = q /\ on[t] \in Queue
    BY <1>1, <2>1, WaitersSleep DEF WakeUp, Inside, Linked
  <2>3. wq'[q] = NoTask /\ NoTask \notin Chained'
    BY <1>1, WaitQueueAssumption DEF WakeUp, IInv, TypeOK, Chained, Linked, Sleepers
  <2>4. ~IsWaiting(t)'
    <3> SUFFICES ASSUME t \in Chained' PROVE ~Reached(t)'
      BY DEF IsWaiting
    <3>1. t \in ChainedOn(on[t])' /\ wq'[on'[t]] \notin ChainedOn(on[t])'
      BY <2>2, <2>3 DEF ChainedOn
    <3> QED BY <3>1 DEF Reached
  <2> QED BY <2>2, <2>4 DEF Released
<1>2. IInv /\ [Next]_vars /\ TypeOK' => IInv'
  BY PlacesKept, NamesInductive DEF IInv
<1>3. IInv /\ [Next]_vars =>
        [\A q \in Queue : WakeUp(q) =>
            \A t \in Task : WaitingOn[t] = q => t \in Released']_vars
  BY <1>1
<1> QED BY InitIInv, TypeCorrect, <1>2, <1>3, PTL DEF Spec

-----------------------------------------------------------------------------
(* The scheduler, Sched.tla *)

TaskStates == Asleep \union {"none", "running", "zombie"}
TaskTicks == 0..(2 * MaxPriority - 1)

\* Halving what is left before adding the priority keeps every counter below
\* twice the highest priority.
LEMMA RefillBounded ==
  ASSUME NEW c \in TaskTicks, NEW p \in 1..MaxPriority
  PROVE  (c \div 2) + p \in TaskTicks /\ (c \div 2) + p > 0
BY SchedAssumption DEF TaskTicks

\* schedule() keeps the types and chooses a runnable task with ticks left.
LEMMA ScheduleChooses ==
  ASSUME SchedTypeOK,
         NEW st \in [Slot -> TaskStates],
         NEW ct \in [Slot -> TaskTicks],
         NEW al \in [Slot -> -1..NoAlarm],
         schedule(st, ct, al)
  PROVE  /\ state' \in [Slot -> TaskStates]
         /\ counter' \in [Slot -> TaskTicks]
         /\ signal' \in [Slot -> SUBSET Signals]
         /\ alarm' \in [Slot -> -1..NoAlarm]
         /\ current' \in Slot \union {Idle}
         /\ current' # Idle => state'[current'] = "running" /\ counter'[current'] > 0
<1> DEFINE sig == [t \in Slot |-> signal[t] \union (IF t \in Rings(al) THEN {"SIGALRM"} ELSE {})]
           now == [t \in Slot |-> IF st[t] = "interruptible" /\ sig[t] \ blocked[t] # {}
                                  THEN "running" ELSE st[t]]
           runnable == {t \in Slot : now[t] = "running"}
           refill == \A t \in runnable : ct[t] = 0
           left == IF runnable # {} /\ refill
                   THEN [t \in Slot |-> IF st[t] = "none" THEN ct[t] ELSE (ct[t] \div 2) + priority[t]]
                   ELSE ct
<1>1. /\ signal' = sig /\ state' = now /\ counter' = left
      /\ alarm' = [t \in Slot |-> IF t \in Rings(al) THEN NoAlarm ELSE al[t]]
      /\ \/ runnable = {} /\ current' = Idle
         \/ \E next \in runnable :
              /\ \A t \in runnable : left[t] <= left[next]
              /\ current' = next
  BY DEF schedule
<1>2. sig \in [Slot -> SUBSET Signals]
  BY DEF SchedTypeOK, Signals, Blockable
<1>3. now \in [Slot -> TaskStates]
  BY DEF TaskStates
<1>4. NoAlarm \in -1..NoAlarm
  BY SchedAssumption DEF NoAlarm
<1>5. left \in [Slot -> TaskTicks]
  BY RefillBounded DEF SchedTypeOK
<1>6. ASSUME NEW t \in runnable, refill
      PROVE  left[t] > 0
  <2>1. st[t] # "none"
    BY <1>6
  <2>2. left[t] = (ct[t] \div 2) + priority[t]
    BY <1>6, <2>1
  <2> QED  BY <2>2, RefillBounded DEF SchedTypeOK
<1>7. ASSUME ~refill
      PROVE  \E t \in runnable : left[t] > 0
  BY <1>7 DEF TaskTicks
<1>8. ASSUME NEW next \in runnable, \A t \in runnable : left[t] <= left[next]
      PROVE  left[next] > 0
  <2>1. CASE refill
    BY <1>6, <2>1
  <2>2. CASE ~refill
    <3>1. PICK t \in runnable : left[t] > 0
      BY <1>7, <2>2
    <3>2. left[t] \in Int /\ left[next] \in Int
      BY <1>5 DEF TaskTicks
    <3> QED  BY <1>8, <3>1, <3>2
  <2> QED  BY <2>1, <2>2
<1>9. current' # Idle => current' \in runnable /\ left[current'] > 0
  BY <1>1, <1>8
<1>10. alarm' \in [Slot -> -1..NoAlarm]
  BY <1>1, <1>4
<1>11. current' \in Slot \union {Idle}
  BY <1>1
<1> HIDE DEF sig, left
<1> QED  BY <1>1, <1>2, <1>3, <1>5, <1>9, <1>10, <1>11

-----------------------------------------------------------------------------
TickInv ==
  /\ SchedTypeOK
  /\ current # Idle => state[current] = "running"

LEMMA TickInvStarts == SchedInit => TickInv
<1> SUFFICES ASSUME SchedInit PROVE TickInv
  OBVIOUS
<1>1. MaxPriority \in TaskTicks /\ MaxPriority \in 1..MaxPriority /\ NoAlarm \in -1..NoAlarm
  BY SchedAssumption DEF TaskTicks, NoAlarm
<1> QED  BY <1>1 DEF SchedInit, TickInv, SchedTypeOK, TaskTicks, Asleep

\* What a step must do for the slice to end: whoever has the processor
\* without ticks used them up itself, in the kernel.
SliceStep ==
  current' # Idle =>
    /\ state'[current'] = "running"
    /\ counter'[current'] = 0 =>
         /\ current' = current
         /\ mode[current] = "kernel" => mode'[current] = "kernel"
         /\ Tick => mode[current] # "user"

\* A step that calls schedule() and leaves the priorities alone.
LEMMA ScheduleKeeps ==
  ASSUME TickInv,
         NEW st \in [Slot -> TaskStates],
         NEW ct \in [Slot -> TaskTicks],
         NEW al \in [Slot -> -1..NoAlarm],
         schedule(st, ct, al),
         priority' = priority,
         blocked' = blocked,
         mode' \in [Slot -> {"user", "kernel", "leaving"}]
  PROVE  TickInv' /\ SliceStep
<1>1. SchedTypeOK
  BY DEF TickInv
<1>2. TickInv'
  BY <1>1, ScheduleChooses DEF TickInv, SchedTypeOK, TaskStates, TaskTicks
<1>3. current' # Idle => state'[current'] = "running" /\ counter'[current'] > 0
  BY <1>1, ScheduleChooses
<1> QED  BY <1>2, <1>3 DEF SliceStep

\* A step by which the task that has the processor keeps it: if it has no
\* ticks it stays in its system call, or is past the test at its end, and
\* the step is no tick in user mode.
LEMMA KeepingIsNoSwitch ==
  ASSUME TickInv',
         current' = current,
         current # Idle /\ counter'[current] = 0 =>
            /\ mode[current] = "kernel" => mode'[current] = "kernel"
            /\ Tick => mode[current] # "user"
  PROVE  SliceStep
BY DEF SliceStep, TickInv

\* The clock: one tick off the counter of the current task.
LEMMA TickKeeps == ASSUME TickInv, Tick PROVE TickInv' /\ SliceStep
<1> DEFINE al == [t \in Slot |-> IF alarm[t] \in 0..MaxAlarm THEN alarm[t] - 1 ELSE alarm[t]]
           ct == IF current = Idle THEN counter
                 ELSE [counter EXCEPT ![current] = IF @ > 0 THEN @ - 1 ELSE 0]
<1>1. al \in [Slot -> -1..NoAlarm]
  BY SchedAssumption DEF TickInv, SchedTypeOK, NoAlarm
<1>2. ct \in [Slot -> TaskTicks]
  BY SchedAssumption DEF TickInv, SchedTypeOK, TaskTicks
<1>3. /\ IF current = Idle \/ ct[current] > 0
         THEN counter' = ct /\ alarm' = al /\ UNCHANGED <<state, signal, current>>
         ELSE EndOfSlice(current, ct, al)
      /\ UNCHANGED <<priority, blocked, mode>>
  BY DEF Tick
<1> HIDE DEF al, ct
<1>4. state \in [Slot -> TaskStates] /\ mode \in [Slot -> {"user", "kernel", "leaving"}]
  BY DEF TickInv, SchedTypeOK, TaskStates
<1>5. CASE current = Idle \/ ct[current] > 0
  <2>1. TickInv'
    BY <1>1, <1>2, <1>3, <1>5 DEF TickInv, SchedTypeOK, TaskTicks
  <2>2. current' = current /\ (current # Idle => counter'[current] > 0)
    BY <1>3, <1>5
  <2> QED  BY <2>1, <2>2, KeepingIsNoSwitch
<1>6. CASE current # Idle /\ ~(ct[current] > 0) /\ mode[current] = "user"
  <2>1. schedule(state, ct, al)
    BY <1>3, <1>6 DEF EndOfSlice
  <2> QED  BY <1>1, <1>2, <1>3, <1>4, <2>1, ScheduleKeeps
<1>7. CASE current # Idle /\ ~(ct[current] > 0) /\ mode[current] # "user"
  <2>1. TickInv'
    BY <1>1, <1>2, <1>3, <1>7 DEF EndOfSlice, TickInv, SchedTypeOK, TaskTicks
  <2>2. current' = current /\ mode' = mode
    BY <1>3, <1>7 DEF EndOfSlice
  <2> QED  BY <1>7, <2>1, <2>2, KeepingIsNoSwitch
<1> QED  BY <1>5, <1>6, <1>7

\* A tick never leaves a user program without ticks on the processor.
LEMMA TickInUserMode ==
  ASSUME TickInv, Tick, current # Idle, mode[current] = "user",
         current' = current
  PROVE  counter'[current] # 0
BY TickKeeps DEF SliceStep

\* So for every other step it is enough that it keeps the types, the
\* processor, and a system call in which the ticks have run out.
LEMMA KeepsProcessor ==
  ASSUME TickInv, TickInv', current' = current,
         current # Idle /\ counter'[current] = 0 /\ mode[current] = "kernel"
            => mode'[current] = "kernel"
  PROVE  SliceStep
BY TickInUserMode, KeepingIsNoSwitch

LEMMA SchedStep == ASSUME TickInv, SchedNext PROVE TickInv' /\ SliceStep
<1> DEFINE Kept == TickInv' /\ SliceStep
<1> USE DEF TickInv
<1>0. /\ state \in [Slot -> TaskStates] /\ counter \in [Slot -> TaskTicks]
      /\ alarm \in [Slot -> -1..NoAlarm]
      /\ mode \in [Slot -> {"user", "kernel", "leaving"}]
      /\ NoAlarm \in -1..NoAlarm
  BY SchedAssumption DEF SchedTypeOK, TaskStates, TaskTicks, NoAlarm
<1>1. CASE Tick
  BY <1>1, TickKeeps
<1>2. CASE IdlePause
  BY <1>0, <1>2, ScheduleKeeps DEF IdlePause
<1>3. ASSUME NEW t \in Slot, SysCall(t) PROVE Kept
  <2>1. TickInv' /\ current' = current /\ mode[current] = "user"
    BY <1>3 DEF SysCall, SchedTypeOK
  <2> QED  BY <2>1, KeepsProcessor
<1>4. ASSUME NEW t \in Slot, SysReturn(t) PROVE Kept
  <2>1. mode' \in [Slot -> {"user", "kernel", "leaving"}]
    BY <1>0, <1>4 DEF SysReturn
  <2>2. CASE state[t] # "running" \/ counter[t] = 0
    BY <1>0, <1>4, <2>1, <2>2, ScheduleKeeps DEF SysReturn
  <2>3. CASE ~(state[t] # "running" \/ counter[t] = 0)
    <3>1. TickInv' /\ current' = current /\ counter'[current] # 0
      BY <1>0, <1>4, <2>1, <2>3 DEF SysReturn, InCall, SchedTypeOK, TaskTicks
    <3> QED  BY <3>1, KeepsProcessor
  <2> QED  BY <2>2, <2>3
<1>5. ASSUME NEW t \in Slot, ReturnToUser(t) PROVE Kept
  <2>1. signal' \in [Slot -> SUBSET Signals] /\ blocked' \in [Slot -> SUBSET Blockable]
    BY <1>5 DEF ReturnToUser, do_signal, SchedTypeOK
  <2>2. TickInv' /\ current' = current /\ mode[current] = "leaving"
    BY <1>5, <2>1 DEF ReturnToUser, SchedTypeOK
  <2> QED  BY <2>2, KeepsProcessor
<1>6. ASSUME NEW t \in Slot, NEW how \in Asleep \union {"running"}, Sleep(t, how) PROVE Kept
  <2>1. [state EXCEPT ![t] = how] \in [Slot -> TaskStates]
    BY <1>0 DEF TaskStates
  <2> QED  BY <1>0, <1>6, <2>1, ScheduleKeeps DEF Sleep
<1>7. ASSUME NEW t \in Slot, Wake(t) PROVE Kept
  <2>1. TickInv' /\ current' = current /\ mode' = mode
    BY <1>7 DEF Wake, SchedTypeOK
  <2> QED  BY <2>1, KeepsProcessor
<1>8. ASSUME NEW t \in Slot, send_sig(t) PROVE Kept
  <2>1. TickInv' /\ current' = current /\ mode' = mode
    BY <1>8 DEF send_sig, SchedTypeOK, Signals
  <2> QED  BY <2>1, KeepsProcessor
<1>9. ASSUME NEW t \in Slot, DoSignal(t) PROVE Kept
  <2>1. signal' \in [Slot -> SUBSET Signals] /\ blocked' \in [Slot -> SUBSET Blockable]
    BY <1>9 DEF DoSignal, do_signal, SchedTypeOK
  <2>2. TickInv' /\ current' = current /\ mode' = mode
    BY <1>9, <2>1 DEF DoSignal, SchedTypeOK
  <2> QED  BY <2>2, KeepsProcessor
<1>10. ASSUME NEW t \in Slot, NEW increment \in -MaxPriority..MaxPriority,
              sys_nice(t, increment)
       PROVE  Kept
  <2>1. TickInv' /\ current' = current /\ mode' = mode
    BY <1>10 DEF sys_nice, SchedTypeOK
  <2> QED  BY <2>1, KeepsProcessor
<1>11. ASSUME NEW t \in Slot, NEW ticks \in 0..MaxAlarm, sys_alarm(t, ticks) PROVE Kept
  <2>1. ticks \in -1..NoAlarm
    BY SchedAssumption DEF NoAlarm
  <2>2. TickInv' /\ current' = current /\ mode' = mode
    BY <1>0, <1>11, <2>1 DEF sys_alarm, SchedTypeOK
  <2> QED  BY <2>2, KeepsProcessor
<1>12. ASSUME NEW t \in Slot, NEW newmask \in SUBSET Blockable, sys_ssetmask(t, newmask)
       PROVE  Kept
  <2>1. TickInv' /\ current' = current /\ mode' = mode
    BY <1>12 DEF sys_ssetmask, SchedTypeOK
  <2> QED  BY <2>1, KeepsProcessor
<1>13. ASSUME NEW t \in Slot, Fork(t) PROVE Kept
  <2>1. PICK child \in Slot :
          /\ state[child] = "none"
          /\ state' = [state EXCEPT ![child] = "running"]
          /\ priority' = [priority EXCEPT ![child] = priority[t]]
          /\ counter' = [counter EXCEPT ![child] = priority[t]]
          /\ signal' = [signal EXCEPT ![child] = {}]
          /\ alarm' = [alarm EXCEPT ![child] = NoAlarm]
          /\ blocked' = [blocked EXCEPT ![child] = blocked[t]]
          /\ mode' = [mode EXCEPT ![child] = "user"]
    BY <1>13 DEF Fork
  <2>2. current' = current /\ current = t /\ mode[t] = "kernel"
    BY <1>13 DEF Fork, InCall
  <2>3. child # t
    BY <2>1, <2>2 DEF Slot, Idle
  <2>4. priority[t] \in TaskTicks
    BY SchedAssumption DEF SchedTypeOK, TaskTicks
  <2>5. SchedTypeOK'
    BY <1>0, <2>1, <2>2, <2>4 DEF SchedTypeOK, TaskTicks
  <2>6. TickInv' /\ mode'[current] = mode[current]
    BY <2>1, <2>2, <2>3, <2>5, <1>0
  <2> QED  BY <2>2, <2>6, KeepsProcessor
<1>14. ASSUME NEW t \in Slot, Exit(t) PROVE Kept
  <2>1. [state EXCEPT ![t] = "zombie"] \in [Slot -> TaskStates]
    BY <1>0 DEF TaskStates
  <2> QED  BY <1>0, <1>14, <2>1, ScheduleKeeps DEF Exit
<1>15. ASSUME NEW t \in Slot, NEW child \in Slot, Release(t, child) PROVE Kept
  <2>1. /\ [state EXCEPT ![child] = "none"] \in [Slot -> TaskStates]
        /\ [alarm EXCEPT ![child] = NoAlarm] \in [Slot -> -1..NoAlarm]
    BY <1>0 DEF TaskStates
  <2> QED  BY <1>0, <1>15, <2>1, ScheduleKeeps DEF Release
<1> QED
  BY <1>1, <1>2, <1>3, <1>4, <1>5, <1>6, <1>7, <1>8, <1>9, <1>10, <1>11,
     <1>12, <1>13, <1>14, <1>15 DEF SchedNext

LEMMA TickInvStays == TickInv /\ [SchedNext]_schedVars => TickInv'
<1>1. TickInv /\ UNCHANGED schedVars => TickInv'
  BY DEF TickInv, schedVars, SchedTypeOK
<1> QED  BY <1>1, SchedStep

\* Counters and priorities stay within their bounds: a task saves up less
\* than twice the highest priority however long it sleeps, and no priority
\* falls to 0, which would keep schedule() in its loop for ever.
THEOREM CountersStayBounded == SchedSpec => []SchedTypeOK
<1>1. TickInv => SchedTypeOK
  BY DEF TickInv
<1> QED  BY TickInvStarts, TickInvStays, <1>1, PTL DEF SchedSpec

\* Every time slice ends: do_timer(), system_call.s and schedule() leave the
\* processor to a task without ticks only where it used them up itself in
\* the kernel, never over the end of a system call, a switch or a tick in
\* user mode.  (A tick behind the test of system_call.s lets it go on in
\* user mode until the next tick.)
THEOREM SlicesEnd == SchedSpec => SliceEnds
<1>1. TickInv /\ [SchedNext]_schedVars => [SliceStep]_schedVars
  BY SchedStep
<1> QED  BY TickInvStarts, TickInvStays, <1>1, PTL DEF SchedSpec, SliceEnds, SliceStep
==============================================================================
