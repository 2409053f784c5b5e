----------------------------- MODULE ProcessLife -----------------------------
(***************************************************************************)
(* kernel/fork.c, exit.c and the process groups of sys.c: how processes    *)
(* come to be, die, are waited for and signal each other, with process 1   *)
(* running the loop of init() in init/main.c.                              *)
(*                                                                         *)
(* The kernel is not preemptible, so what a system call does between two   *)
(* calls of schedule() is one step.  do_exit() is two: it may sleep while  *)
(* it closes files and puts inodes, after its children have got another    *)
(* father and before its own father is told.                               *)
(***************************************************************************)
EXTENDS Integers

CONSTANTS
  NR_TASKS,  \* size of task[]
  MaxPid,    \* the largest pid: the next ++last_pid is negative
  Kills,     \* the signals processes send with kill()
  MayBlock,  \* the signals processes block with ssetmask()
  Calls,     \* the other system calls that processes use
  Groups,    \* the process groups they use
  NULL       \* a free slot of task[]

Slot == 0..(NR_TASKS - 1)
Pid == 1..MaxPid
Signal == {"SIGHUP", "SIGKILL", "SIGCHLD"}

TaskStruct == [pid : 0..MaxPid, father : -1..MaxPid, pgrp : 0..MaxPid,
               session : 0..MaxPid, leader : BOOLEAN,
               state : {"RUNNING", "INTERRUPTIBLE", "ZOMBIE"},
               signal : SUBSET Signal, blocked : SUBSET Signal]

ASSUME ProcessLifeAssumption ==
  /\ NR_TASKS \in Nat /\ NR_TASKS > 2
  /\ MaxPid \in Nat /\ MaxPid >= NR_TASKS
  /\ Kills \subseteq {"SIGHUP", "SIGKILL"}
  /\ MayBlock \subseteq {"SIGHUP", "SIGCHLD"}
  /\ Calls \subseteq {"waitgroup", "setpgid", "setsid"}
  /\ Groups \subseteq Pid \ {1}
  /\ NULL \notin TaskStruct

VARIABLES
  task,      \* task[]
  last_pid,  \* the pid given out last
  pc,        \* "user", "wait" in sys_waitpid(), "exit" in do_exit(); "fork" in init()
  arg,       \* the pid that sys_waitpid() was called with
  shell      \* the child that init() waits for

vars == <<task, last_pid, pc, arg, shell>>

TypeOK ==
  /\ task     \in [Slot -> TaskStruct \union {NULL}]
  /\ last_pid \in Pid
  /\ pc       \in [Slot -> {"user", "wait", "exit", "fork"}]
  /\ arg      \in [Slot -> (-MaxPid)..MaxPid]
  /\ shell    \in 0..MaxPid

\* INIT_TASK, and the process it has forked, which is about to fork a shell.
Init ==
  /\ task = [i \in Slot |->
       IF i > 1 THEN NULL
       ELSE [pid |-> i, father |-> i - 1, pgrp |-> 0, session |-> 0, leader |-> FALSE,
             state |-> "RUNNING", signal |-> {}, blocked |-> {}]]
  /\ last_pid = 1
  /\ pc = [i \in Slot |-> IF i = 1 THEN "fork" ELSE "user"]
  /\ arg = [i \in Slot |-> 0]
  /\ shell = 0

-----------------------------------------------------------------------------
(* Tasks *)

Used == {i \in Slot : task[i] # NULL}

\* schedule() may choose t: it is running, or sleeps and has a signal.
Runnable(t) ==
  /\ task[t] # NULL
  /\ \/ task[t].state = "RUNNING"
     \/ task[t].state = "INTERRUPTIBLE" /\ task[t].signal \ task[t].blocked # {}

\* t runs at a label.  Task 0 only pauses.
At(t, label) == t # 0 /\ pc[t] = label /\ Runnable(t)

\* The tasks tk after sig has been sent to the slots in S.
Sent(tk, S, sig) ==
  [i \in Slot |-> IF i \in S THEN [tk[i] EXCEPT !.signal = @ \union {sig}] ELSE tk[i]]

-----------------------------------------------------------------------------
(* fork() *)

PidInUse(k) == \E i \in Used : task[i].pid = k

\* Mutation: last_pid does not begin again.
PidAfterUnwrapped(k) == last_pid + k

\* The k-th pid after last_pid, beginning again with 1.
PidAfter(k) == IF last_pid + k > MaxPid THEN last_pid + k - MaxPid ELSE last_pid + k

\* Mutation: last_pid is not compared with the pids in use.
TakePidUnchecked == last_pid' = PidAfter(1)

\* find_empty_process() counts last_pid up until no task has it.
TakePid ==
  \E k \in Pid : /\ last_pid' = PidAfter(k)
                 /\ ~PidInUse(PidAfter(k))
                 /\ \A j \in 1..(k - 1) : PidInUse(PidAfter(j))

FreeSlot == \E i \in Slot \ {0} : task[i] = NULL

\* find_empty_process() and copy_process(), with all the memory it needs.
\* last_pid has moved on when no slot is found, too.
fork(t) ==
  /\ TakePid
  /\ IF FreeSlot
     THEN \E i \in Slot \ {0} :
            /\ task[i] = NULL
            /\ \A j \in 1..(i - 1) : task[j] # NULL
            /\ task' = [task EXCEPT ![i] =
                 [task[t] EXCEPT !.pid = last_pid', !.father = task[t].pid,
                                 !.state = "RUNNING", !.signal = {}, !.leader = FALSE]]
     ELSE UNCHANGED task

\* copy_process() finds no memory: the slot is freed again.
ForkFails(t) == TakePid /\ UNCHANGED task

Fork(t) ==
  /\ t # 1 /\ At(t, "user")
  /\ fork(t) \/ ForkFails(t)
  /\ UNCHANGED <<pc, arg, shell>>

\* init() forks until it has a child, then waits for that child.
InitForks ==
  /\ At(1, "fork")
  /\ FreeSlot
  /\ fork(1)
  /\ shell' = last_pid'
  /\ pc' = [pc EXCEPT ![1] = "user"]
  /\ UNCHANGED arg

InitForkFails ==
  /\ At(1, "fork")
  /\ ForkFails(1)
  /\ UNCHANGED <<pc, arg, shell>>

-----------------------------------------------------------------------------
(* exit() *)

ChildrenOf(tk, t) == {i \in Slot : tk[i] # NULL /\ tk[i].father = tk[t].pid}

\* Mutation: the children keep their father.
BeginsToExitAlone(t, tk) == pc' = [pc EXCEPT ![t] = "exit"] /\ task' = tk

\* Mutation: task[1] hears nothing of the zombies it gets.
BeginsToExitSilently(t, tk) ==
  /\ pc' = [pc EXCEPT ![t] = "exit"]
  /\ task' = [i \in Slot |->
       IF i \in ChildrenOf(tk, t) THEN [tk[i] EXCEPT !.father = 1] ELSE tk[i]]

\* do_exit() as far as the closing of files: the children go to process 1,
\* and task[1] is told if there are zombies among them.
BeginsToExit(t, tk) ==
  LET adopted == [i \in Slot |->
        IF i \in ChildrenOf(tk, t) THEN [tk[i] EXCEPT !.father = 1] ELSE tk[i]]
      dead == {i \in ChildrenOf(tk, t) : tk[i].state = "ZOMBIE"}
      told == IF dead # {} /\ tk[1] # NULL THEN {1} ELSE {}
  IN  /\ task' = Sent(adopted, told, "SIGCHLD")
      /\ pc' = [pc EXCEPT ![t] = "exit"]

Exit(t) ==
  /\ t # 1 /\ At(t, "user")
  /\ BeginsToExit(t, task)
  /\ UNCHANGED <<last_pid, arg, shell>>

\* The task that tell_father() finds first.
Father(t) ==
  {i \in Used : /\ task[t].father # 0 /\ task[i].pid = task[t].father
                /\ \A j \in Used : task[j].pid = task[t].father => i <= j}

\* Mutation: tell_father() is left out.
ExitEndsQuietly(t) ==
  LET session == {i \in Used \ {0} : task[t].leader /\ task[i].session = task[t].session}
  IN  /\ At(t, "exit")
      /\ task' = [Sent(task, session, "SIGHUP") EXCEPT ![t].state = "ZOMBIE"]
      /\ UNCHANGED <<last_pid, pc, arg, shell>>

\* The rest of do_exit(): kill_session() for a leader, then tell_father().  A
\* process that finds no father frees its own slot.
ExitEnds(t) ==
  LET session == {i \in Used \ {0} : task[t].leader /\ task[i].session = task[t].session}
      hungUp == [Sent(task, session, "SIGHUP") EXCEPT ![t].state = "ZOMBIE"]
  IN  /\ At(t, "exit")
      /\ task' = IF Father(t) = {} THEN [hungUp EXCEPT ![t] = NULL]
                 ELSE Sent(hungUp, Father(t), "SIGCHLD")
      /\ UNCHANGED <<last_pid, pc, arg, shell>>

-----------------------------------------------------------------------------
(* waitpid() *)

\* The children of t that waitpid(p) is about, in the tasks tk.
WaitsFor(tk, t, p) ==
  {i \in ChildrenOf(tk, t) \ {0, t} :
     /\ p > 0 => tk[i].pid = p
     /\ p = 0 => tk[i].pgrp = tk[t].pgrp
     /\ p < -1 => tk[i].pgrp = -p}

Zombies(tk, t, p) == {i \in WaitsFor(tk, t, p) : tk[i].state = "ZOMBIE"}

\* The last zombie in task[] is released, and its pid returned.
Reap(t, p, tk) ==
  \E z \in Zombies(tk, t, p) :
    /\ \A i \in Zombies(tk, t, p) : i <= z
    /\ task' = [tk EXCEPT ![z] = NULL, ![t].state = "RUNNING"]
    /\ pc' = [pc EXCEPT ![z] = "user",
                        ![t] = IF t = 1 /\ tk[z].pid = shell THEN "fork" ELSE "user"]
    /\ arg' = [arg EXCEPT ![t] = 0]

SleepForChild(t, p, tk) ==
  /\ WaitsFor(tk, t, p) # {} /\ Zombies(tk, t, p) = {}
  /\ task' = [tk EXCEPT ![t].state = "INTERRUPTIBLE"]
  /\ pc' = [pc EXCEPT ![t] = "wait"]
  /\ arg' = [arg EXCEPT ![t] = p]

\* ECHILD
NoChild(t, p, tk) ==
  /\ WaitsFor(tk, t, p) = {}
  /\ task' = [tk EXCEPT ![t].state = "RUNNING"]
  /\ pc' = [pc EXCEPT ![t] = "user"]
  /\ arg' = [arg EXCEPT ![t] = 0]

\* One round from repeat: on.  With WNOHANG it never sleeps, and returns
\* without a change where it would.
WaitRound(t, p, tk) == Reap(t, p, tk) \/ SleepForChild(t, p, tk) \/ NoChild(t, p, tk)

WaitArguments ==
  {-1} \union Pid \union (IF "waitgroup" \in Calls THEN {0} \union {-g : g \in Groups} ELSE {})

sys_waitpid(t) ==
  /\ At(t, "user")
  /\ \E p \in (IF t = 1 THEN {-1} ELSE WaitArguments) : WaitRound(t, p, task)
  /\ UNCHANGED <<last_pid, shell>>

\* Mutation: the call sleeps again without looking at the children.
WakesUpBlind(t) ==
  /\ At(t, "wait")
  /\ task' = [task EXCEPT ![t].signal = @ \ {"SIGCHLD"}]
  /\ UNCHANGED <<last_pid, shell, pc, arg>>

\* schedule() comes back: SIGCHLD is dropped, and any other signal, blocked
\* or not, ends the call with EINTR.
WakesUp(t) ==
  LET heard == [task EXCEPT ![t].signal = @ \ {"SIGCHLD"}]
  IN  /\ At(t, "wait")
      /\ \/ heard[t].signal = {} /\ WaitRound(t, arg[t], heard)
         \/ /\ heard[t].signal # {}
            /\ task' = [heard EXCEPT ![t].state = "RUNNING"]
            /\ pc' = [pc EXCEPT ![t] = "user"]
            /\ arg' = [arg EXCEPT ![t] = 0]
      /\ UNCHANGED <<last_pid, shell>>

-----------------------------------------------------------------------------
(* Signals, groups and sessions *)

\* Whom kill(p) of t reaches.  The last else of sys_kill() belongs to the if
\* inside the loop for -1: that loop sends to the last task, and then to the
\* rest of a group 1; kill(-group) sends nothing.  All processes here may
\* signal each other.
KillReaches(t, p) ==
  {i \in Used \ {0} :
     \/ p = 0 /\ task[i].pgrp = task[t].pid
     \/ p > 0 /\ task[i].pid = p
     \/ p = -1 /\ (task[i].pgrp = 1 \/ \A j \in Used : j <= i)}

\* Nobody kills process 1.
Kill(t) ==
  /\ t # 1 /\ At(t, "user")
  /\ \E p \in (Pid \ {1}) \union {-1, 0} \union {-g : g \in Groups}, sig \in Kills :
       task' = Sent(task, KillReaches(t, p), sig)
  /\ UNCHANGED <<last_pid, pc, arg, shell>>

\* On the way back to user mode one signal is taken, the lowest first.  SIGHUP
\* may be ignored or handled; SIGCHLD always is.
DoSignal(t) ==
  LET pending == task[t].signal \ task[t].blocked
      taken == IF "SIGHUP" \in pending THEN "SIGHUP"
               ELSE IF "SIGKILL" \in pending THEN "SIGKILL" ELSE "SIGCHLD"
      rest == [task EXCEPT ![t].signal = @ \ {taken}]
  IN  /\ At(t, "user")
      /\ pending # {}
      /\ \/ taken # "SIGCHLD" /\ BeginsToExit(t, rest)
         \/ taken # "SIGKILL" /\ task' = rest /\ UNCHANGED pc
      /\ UNCHANGED <<last_pid, arg, shell>>

sys_ssetmask(t) ==
  /\ t # 1 /\ At(t, "user")
  /\ \E mask \in SUBSET MayBlock : task' = [task EXCEPT ![t].blocked = mask]
  /\ UNCHANGED <<last_pid, pc, arg, shell>>

\* A process moves itself or a child, as shells do.
sys_setpgid(t) ==
  /\ "setpgid" \in Calls
  /\ t # 1 /\ At(t, "user")
  /\ \E i \in {t} \union ChildrenOf(task, t), g \in Groups :
       /\ ~task[i].leader
       /\ task[i].session = task[t].session
       /\ task' = [task EXCEPT ![i].pgrp = g]
  /\ UNCHANGED <<last_pid, pc, arg, shell>>

\* The superuser may call it again.
sys_setsid(t) ==
  /\ "setsid" \in Calls
  /\ t # 1 /\ At(t, "user")
  /\ task' = [task EXCEPT ![t].leader = TRUE, ![t].session = task[t].pid,
                          ![t].pgrp = task[t].pid]
  /\ UNCHANGED <<last_pid, pc, arg, shell>>

-----------------------------------------------------------------------------
Call(t) ==
  \/ Fork(t) \/ Exit(t) \/ sys_waitpid(t) \/ Kill(t)
  \/ sys_ssetmask(t) \/ sys_setpgid(t) \/ sys_setsid(t)

InKernel(t) == ExitEnds(t) \/ WakesUp(t) \/ DoSignal(t)

Next == InitForks \/ InitForkFails \/ \E t \in Slot : Call(t) \/ InKernel(t)

Spec == Init /\ [][Next]_vars

\* What is begun in the kernel ends (no runnable task is passed over for ever,
\* Sched.tla), signals are taken at the next tick, and process 1 goes round
\* its loop, so that its fork() succeeds once there is a slot and memory, which
\* does not run out for ever.  Nothing makes another process do anything.
Fairness ==
  /\ WF_vars(InitForks) /\ WF_vars(sys_waitpid(1))
  /\ \A t \in Slot : WF_vars(InKernel(t))

FairSpec == Spec /\ Fairness

-----------------------------------------------------------------------------
(* Properties *)

\* No two tasks have the same pid, also after last_pid has begun again:
\* find_empty_process() has looked at every task.
UniquePid == \A i, j \in Used : task[i].pid = task[j].pid => i = j

\* Every process but the first two has a father that will hear of its death:
\* in task[], and not past the loop of do_exit() that gives its children
\* away.  tell_father() never comes to its "BAD BAD - no father found", where
\* a process frees the page its own stack is in.
FatherIsAlive ==
  \A i \in Used \ {0, 1} :
    \E f \in Used \ {0} : task[f].pid = task[i].father /\ pc[f] # "exit"

\* A process that sleeps in waitpid() and has a zombie to collect has been
\* sent SIGCHLD since it looked: by the child, or by the child's father that
\* died and left it to process 1.  (A wait for a process group is left out:
\* a zombie may be moved into the group, and nobody is told.)
WaiterIsTold ==
  \A t \in Used :
    pc[t] = "wait" /\ (arg[t] = -1 \/ arg[t] > 0) /\ Zombies(task, t, arg[t]) # {}
      => "SIGCHLD" \in task[t].signal

\* Whoever waits for a child that is dead gets out of waitpid(), unless he
\* has blocked SIGCHLD: then the signal is there and wakes nobody.
WaiterReturns ==
  \A t \in Slot :
    (/\ task[t] # NULL /\ pc[t] = "wait" /\ "SIGCHLD" \notin task[t].blocked
     /\ arg[t] = -1 \/ arg[t] > 0
     /\ Zombies(task, t, arg[t]) # {})
      ~> pc[t] # "wait"

\* An orphan is freed after its death by process 1, unless that finds task[]
\* full: init() waits for nobody while its fork() fails.
OrphansReaped ==
  \A i \in Slot \ {0, 1} :
    (task[i] # NULL /\ task[i].father = 1 /\ task[i].state = "ZOMBIE")
      ~> \/ task[i] = NULL \/ task[i].state # "ZOMBIE"
         \/ pc[1] = "fork" /\ ~FreeSlot
==============================================================================
