-------------------------------- MODULE Sched --------------------------------
(***************************************************************************)
(* kernel/sched.c: which task schedule() gives the processor to.           *)
(*                                                                         *)
(* Each task has a counter of clock ticks it may still use.  The runnable  *)
(* task with the highest counter runs; when every runnable task has used   *)
(* its ticks, all tasks, the sleeping ones too, get new ones.  A tick in   *)
(* user mode may take the processor away; in the kernel it only sets the   *)
(* counter to 0, and system_call.s calls schedule() when the call returns. *)
(* Interrupts are on all that while, so a tick may also come between the   *)
(* test of the counter and the iret: then the task reaches user mode with  *)
(* a counter of 0 and keeps the processor until the next tick.             *)
(*                                                                         *)
(* Here a task sleeps and is woken in one step each (WaitQueue.tla has the *)
(* queues), only the alarm's distance from jiffies is kept, and of the     *)
(* signals one that can be blocked, SIGALRM, and one that cannot.          *)
(***************************************************************************)
EXTENDS Integers, Tasks

CONSTANTS
  NR_TASKS,     \* size of task[]; task 0 is the idle task
  MaxPriority,  \* bound: nice() with a negative increment goes no higher
  MaxAlarm,     \* bound on the ticks of an alarm
  Calls         \* the system calls each task makes, besides those that sleep

\* A task is its slot of task[], and task 0 idles.
Slot == 1..(NR_TASKS - 1)
Idle == 0
NoAlarm == MaxAlarm + 1

ASSUME SchedAssumption ==
  /\ NR_TASKS \in Nat \ {0, 1}
  /\ MaxPriority \in Nat \ {0}
  /\ MaxAlarm \in Nat
  /\ Calls \in [Slot -> SUBSET {"nice", "alarm", "kill", "mask", "fork", "exit"}]

VARIABLES
  counter,   \* ticks left
  priority,  \* ticks given
  alarm,     \* alarm - jiffies, not below -1; NoAlarm for 0
  blocked,   \* the signals that are blocked
  mode       \* "user"; "kernel": in a system call, or "leaving" it: past the
             \* test of state and counter, and not yet back in user mode

\* state[t] is "none" where task[t] is NULL.
schedVars == <<state, counter, priority, signal, alarm, blocked, mode, current>>

Asleep == {"interruptible", "uninterruptible"}

\* _BLOCKABLE leaves SIGKILL and SIGSTOP out.
Blockable == {"SIGALRM"}
Signals == Blockable \union {"SIGKILL"}

SchedTypeOK ==
  /\ state    \in [Slot -> Asleep \union {"none", "running", "zombie"}]
  /\ counter  \in [Slot -> 0..(2 * MaxPriority - 1)]
  /\ priority \in [Slot -> 1..MaxPriority]
  /\ signal   \in [Slot -> SUBSET Signals]
  /\ alarm    \in [Slot -> -1..NoAlarm]
  /\ blocked  \in [Slot -> SUBSET Blockable]
  /\ mode     \in [Slot -> {"user", "kernel", "leaving"}]
  /\ current  \in Slot \union {Idle}

\* main() has forked the first task; if none forks, all exist.
SchedInit ==
  /\ state = [t \in Slot |-> IF t = 1 \/ (\A u \in Slot : "fork" \notin Calls[u])
                          THEN "running" ELSE "none"]
  /\ counter = [t \in Slot |-> MaxPriority]
  /\ priority = [t \in Slot |-> MaxPriority]
  /\ signal = [t \in Slot |-> {}]
  /\ alarm = [t \in Slot |-> NoAlarm]
  /\ blocked = [t \in Slot |-> {}]
  /\ mode = [t \in Slot |-> "user"]
  /\ current = Idle

-----------------------------------------------------------------------------
(* schedule() *)

\* Mutation: sleeping tasks are passed over.
RingsAwake(al) == {t \in Slot : state[t] = "running" /\ al[t] < 0}

\* Alarms that have gone off: alarm < jiffies.
Rings(al) == {t \in Slot : state[t] # "none" /\ al[t] < 0}

\* schedule(), called with the states st, counters ct and alarms al: first
\* alarms and signals, then the choice.  Of the tasks with the highest
\* counter it finds the last one in task[] first, and keeps it.
schedule(st, ct, al) ==
  LET sig == [t \in Slot |-> signal[t] \union (IF t \in Rings(al) THEN {"SIGALRM"} ELSE {})]
      now == [t \in Slot |-> IF st[t] = "interruptible" /\ sig[t] \ blocked[t] # {}
                             THEN "running" ELSE st[t]]
      runnable == {t \in Slot : now[t] = "running"}
      refill == \A t \in runnable : ct[t] = 0
      left == IF runnable # {} /\ refill
              THEN [t \in Slot |-> IF st[t] = "none" THEN ct[t] ELSE (ct[t] \div 2) + priority[t]]
              ELSE ct
  IN  /\ signal' = sig
      /\ alarm' = [t \in Slot |-> IF t \in Rings(al) THEN NoAlarm ELSE al[t]]
      /\ state' = now
      /\ counter' = left
      /\ \/ runnable = {} /\ current' = Idle
         \/ \E next \in runnable :
              /\ \A t \in runnable : left[t] <= left[next]
              /\ \A t \in runnable : left[t] = left[next] => t <= next
              /\ current' = next

-----------------------------------------------------------------------------
(* The clock *)

\* Mutation: a tick in user mode does not end the time slice.
EndOfSlicePassive(t, ct, al) == state' = state /\ counter' = ct /\ alarm' = al
                                /\ UNCHANGED <<signal, current>>

\* The end of do_timer(): the ticks are used up.
EndOfSlice(t, ct, al) ==
  IF mode[t] = "user"
  THEN schedule(state, ct, al)
  ELSE counter' = ct /\ alarm' = al /\ UNCHANGED <<state, signal, current>>

\* timer_interrupt and do_timer(): jiffies grows, current pays for the tick.
Tick ==
  LET al == [t \in Slot |-> IF alarm[t] \in 0..MaxAlarm THEN alarm[t] - 1 ELSE alarm[t]]
      ct == IF current = Idle THEN counter
            ELSE [counter EXCEPT ![current] = IF @ > 0 THEN @ - 1 ELSE 0]
  IN  /\ IF current = Idle \/ ct[current] > 0
         THEN counter' = ct /\ alarm' = al /\ UNCHANGED <<state, signal, current>>
         ELSE EndOfSlice(current, ct, al)
      /\ UNCHANGED <<priority, blocked, mode>>

\* Task 0 calls pause() over and over, so its own ticks do not matter.
IdlePause ==
  /\ current = Idle
  /\ schedule(state, counter, alarm)
  /\ UNCHANGED <<priority, blocked, mode>>

-----------------------------------------------------------------------------
(* System calls *)

SysCall(t) ==
  /\ current = t
  /\ mode[t] = "user"
  /\ mode' = [mode EXCEPT ![t] = "kernel"]
  /\ UNCHANGED <<state, counter, priority, signal, alarm, blocked, current>>

InCall(t) == current = t /\ mode[t] = "kernel"

\* Mutation: the counter is not looked at.
SysReturnAtOnce(t) ==
  /\ InCall(t)
  /\ mode' = [mode EXCEPT ![t] = "leaving"]
  /\ UNCHANGED <<state, counter, signal, alarm, current, priority, blocked>>

\* The end of system_call: a task that has no ticks left is rescheduled, and
\* comes back from there to ret_from_sys_call.
SysReturn(t) ==
  /\ InCall(t)
  /\ mode' = [mode EXCEPT ![t] = "leaving"]
  /\ IF state[t] # "running" \/ counter[t] = 0
     THEN schedule(state, counter, alarm)
     ELSE UNCHANGED <<state, counter, signal, alarm, current>>
  /\ UNCHANGED <<priority, blocked>>

\* One pending signal that is not blocked is taken, and its handler may
\* block more.
do_signal(t) ==
  \/ signal[t] \subseteq blocked[t] /\ UNCHANGED <<signal, blocked>>
  \/ \E sig \in signal[t] \ blocked[t], mask \in SUBSET Blockable :
       /\ signal' = [signal EXCEPT ![t] = @ \ {sig}]
       /\ blocked' = [blocked EXCEPT ![t] = @ \union mask]

\* ret_from_sys_call up to the iret: the counter is not looked at again.
ReturnToUser(t) ==
  /\ current = t /\ mode[t] = "leaving"
  /\ mode' = [mode EXCEPT ![t] = "user"]
  /\ do_signal(t)
  /\ UNCHANGED <<state, counter, priority, alarm, current>>

\* sleep_on(), interruptible_sleep_on(), sys_pause(), sys_waitpid().  An
\* interrupt may have made the task runnable again before schedule() begins.
Sleep(t, how) ==
  /\ InCall(t)
  /\ schedule([state EXCEPT ![t] = how], counter, alarm)
  /\ UNCHANGED <<priority, blocked, mode>>

\* An interrupt or another task sets state = 0.
Wake(t) ==
  /\ state[t] \in Asleep
  /\ state' = [state EXCEPT ![t] = "running"]
  /\ UNCHANGED <<counter, priority, signal, alarm, blocked, mode, current>>

\* send_sig(), or a signal from the keyboard.
send_sig(t) ==
  /\ \E sender \in Slot : "kill" \in Calls[sender]
  /\ state[t] # "none"
  /\ signal' = [signal EXCEPT ![t] = @ \union {"SIGKILL"}]
  /\ UNCHANGED <<state, counter, priority, alarm, blocked, mode, current>>

\* timer_interrupt ends in ret_from_sys_call too.
DoSignal(t) ==
  /\ current = t /\ mode[t] = "user"
  /\ do_signal(t)
  /\ UNCHANGED <<state, counter, priority, alarm, mode, current>>

\* SIGKILL cannot be blocked.
sys_ssetmask(t, newmask) ==
  /\ InCall(t) /\ "mask" \in Calls[t]
  /\ blocked' = [blocked EXCEPT ![t] = newmask]
  /\ UNCHANGED <<state, counter, priority, signal, alarm, mode, current>>

\* Mutation: the new priority is not looked at.
sys_nice_unchecked(t, increment) ==
  /\ InCall(t) /\ "nice" \in Calls[t]
  /\ priority[t] - increment <= MaxPriority
  /\ priority' = [priority EXCEPT ![t] = @ - increment]
  /\ UNCHANGED <<state, counter, signal, alarm, blocked, mode, current>>

sys_nice(t, increment) ==
  /\ InCall(t) /\ "nice" \in Calls[t]
  /\ priority[t] - increment \in 1..MaxPriority
  /\ priority' = [priority EXCEPT ![t] = @ - increment]
  /\ UNCHANGED <<state, counter, signal, alarm, blocked, mode, current>>

\* The time is in ticks here; 0 takes the alarm back.
sys_alarm(t, ticks) ==
  /\ InCall(t) /\ "alarm" \in Calls[t]
  /\ alarm' = [alarm EXCEPT ![t] = IF ticks > 0 THEN ticks ELSE NoAlarm]
  /\ UNCHANGED <<state, counter, priority, signal, blocked, mode, current>>

\* find_empty_process() and copy_process(): the child is given new ticks.
Fork(t) ==
  /\ InCall(t) /\ "fork" \in Calls[t]
  /\ \E child \in Slot :
       /\ state[child] = "none"
       /\ \A other \in 1..(child - 1) : state[other] # "none"
       /\ state' = [state EXCEPT ![child] = "running"]
       /\ priority' = [priority EXCEPT ![child] = priority[t]]
       /\ counter' = [counter EXCEPT ![child] = priority[t]]
       /\ signal' = [signal EXCEPT ![child] = {}]
       /\ alarm' = [alarm EXCEPT ![child] = NoAlarm]
       /\ blocked' = [blocked EXCEPT ![child] = blocked[t]]
       /\ mode' = [mode EXCEPT ![child] = "user"]
  /\ UNCHANGED current

\* The end of do_exit(), called by a system call or by do_signal().  Task 1
\* is init, which does not exit.
Exit(t) ==
  /\ current = t /\ mode[t] # "user" /\ "exit" \in Calls[t]
  /\ t # 1
  /\ schedule([state EXCEPT ![t] = "zombie"], counter, alarm)
  /\ UNCHANGED <<priority, blocked, mode>>

\* sys_waitpid() finds a zombie child; release() calls schedule().  Who is
\* whose child is left open.
Release(t, child) ==
  /\ InCall(t)
  /\ state[child] = "zombie"
  /\ schedule([state EXCEPT ![child] = "none"], counter, [alarm EXCEPT ![child] = NoAlarm])
  /\ UNCHANGED <<priority, blocked, mode>>

-----------------------------------------------------------------------------
SchedNext ==
  \/ Tick
  \/ IdlePause
  \/ \E t \in Slot : SysCall(t)
  \/ \E t \in Slot : SysReturn(t)
  \/ \E t \in Slot : ReturnToUser(t)
  \/ \E t \in Slot, how \in Asleep \union {"running"} : Sleep(t, how)
  \/ \E t \in Slot : Wake(t)
  \/ \E t \in Slot : send_sig(t)
  \/ \E t \in Slot : DoSignal(t)
  \/ \E t \in Slot, increment \in -MaxPriority..MaxPriority : sys_nice(t, increment)
  \/ \E t \in Slot, ticks \in 0..MaxAlarm : sys_alarm(t, ticks)
  \/ \E t \in Slot, newmask \in SUBSET Blockable : sys_ssetmask(t, newmask)
  \/ \E t \in Slot : Fork(t)
  \/ \E t \in Slot : Exit(t)
  \/ \E t, child \in Slot : Release(t, child)

\* The clock ticks, task 0 pauses, and a system call ends or sleeps.
SchedFairness ==
  /\ WF_schedVars(Tick)
  /\ WF_schedVars(IdlePause)
  /\ \A t \in Slot : WF_schedVars(SysReturn(t)) /\ WF_schedVars(ReturnToUser(t))

SchedSpec == SchedInit /\ [][SchedNext]_schedVars /\ SchedFairness

-----------------------------------------------------------------------------
(* Properties *)

\* Where a slice ends.  Whoever has the processor without ticks used them up
\* itself, in the kernel: schedule() hands it to nobody without ticks, no
\* system call ends so, and a tick that finds user mode leaves nobody there
\* without ticks.  The counter is tested in do_timer() and in system_call.s,
\* and neither covers a tick between that test and the iret: such a task
\* runs on without ticks, but only until the next tick.
SliceEnds ==
  [][current' # Idle =>
       /\ state'[current'] = "running"
       /\ counter'[current'] = 0 =>
            /\ current' = current
            /\ mode[current] = "kernel" => mode'[current] = "kernel"
            /\ Tick => mode[current] # "user"]_schedVars

\* Every runnable task gets the processor: schedule() refills the counters
\* only when all runnable tasks have used theirs up, so none is overtaken
\* for ever.  "It should work well in all circumstances", says its comment.
RunnableRuns == \A t \in Slot : state[t] = "running" ~> current = t

ForksEnd == <>[][\A t \in Slot : ~Fork(t)]_schedVars

\* That is so unless tasks fork for ever.
NoStarvation == ForksEnd => RunnableRuns

\* A task that sleeps until its alarm goes off, and does not block SIGALRM,
\* gets the processor again: the signal is posted, and the sleep ended, by
\* schedule() alone, which must be called although nobody else may be
\* runnable.  (An alarm does not end the sleep of a task that blocks it.)
AlarmEndsSleep ==
  ForksEnd => \A t \in Slot :
    (/\ state[t] = "interruptible" /\ alarm[t] # NoAlarm
     /\ "SIGALRM" \notin blocked[t]) ~> current = t
==============================================================================
