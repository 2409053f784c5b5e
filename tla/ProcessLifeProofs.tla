-------------------------- MODULE ProcessLifeProofs --------------------------
(***************************************************************************)
(* Theorems about ProcessLife.tla, for any size of task[], any highest pid *)
(* and any choice of system calls.                                         *)
(***************************************************************************)
EXTENDS ProcessLife, TLAPS

-----------------------------------------------------------------------------
(* The inductive invariant *)

\* The first two tasks: task 0 only pauses; process 1 is alone in session 0
\* and group 0 with nobody who can reach it by a signal but SIGCHLD.
InitLives ==
  /\ task[0] # NULL /\ task[0].pid = 0 /\ task[0].father = -1 /\ pc[0] # "exit"
  /\ task[1] # NULL /\ task[1].pid = 1 /\ pc[1] # "exit"
  /\ task[1].state # "ZOMBIE"
  /\ task[1].pgrp = 0 /\ task[1].session = 0 /\ task[1].father \in {0, 1}
  /\ task[1].signal \subseteq {"SIGCHLD"}

\* No leader is in session 0.
LeadersHaveSessions == \A i \in Used : task[i].leader => task[i].session # 0

\* A zombie is at the end of do_exit().
ZombiesHaveExited == \A i \in Used : task[i].state = "ZOMBIE" => pc[i] = "exit"

IInv == /\ TypeOK
        /\ UniquePid
        /\ FatherIsAlive
        /\ InitLives
        /\ LeadersHaveSessions
        /\ ZombiesHaveExited

-----------------------------------------------------------------------------
(* Lemmas *)

Tasks == [Slot -> TaskStruct \union {NULL}]

\* The tasks tk are those of task[], but for signals taken away.
Like(tk) ==
  /\ tk \in Tasks
  /\ \A i \in Slot :
       /\ tk[i] = NULL <=> task[i] = NULL
       /\ task[i] # NULL =>
            /\ tk[i].pid = task[i].pid /\ tk[i].father = task[i].father
            /\ tk[i].pgrp = task[i].pgrp /\ tk[i].session = task[i].session
            /\ tk[i].leader = task[i].leader /\ tk[i].state = task[i].state
            /\ tk[i].signal \subseteq task[i].signal

\* The tasks new are the tasks tk after sig has been sent to the slots in S.
SignalSent(tk, new, S, sig) ==
  /\ new \in Tasks
  /\ \A i \in Slot :
       /\ new[i] = NULL <=> tk[i] = NULL
       /\ i \notin S => new[i] = tk[i]
       /\ tk[i] # NULL =>
            /\ new[i].pid = tk[i].pid /\ new[i].father = tk[i].father
            /\ new[i].pgrp = tk[i].pgrp /\ new[i].session = tk[i].session
            /\ new[i].leader = tk[i].leader /\ new[i].state = tk[i].state
            /\ new[i].signal \subseteq tk[i].signal \union {sig}
            /\ tk[i].signal \subseteq new[i].signal
       /\ i \in S => sig \in new[i].signal

LEMMA SlotFacts == 0 \in Slot /\ 1 \in Slot
  BY ProcessLifeAssumption DEF Slot

\* PidAfter() stays within the pids: last_pid never leaves them.
LEMMA PidAfterType ==
  ASSUME last_pid \in Pid, NEW k \in Pid
  PROVE  PidAfter(k) \in Pid
  BY ProcessLifeAssumption DEF Pid, PidAfter

\* Sending a signal changes the signals of the tasks it is sent to, no more.
LEMMA SentFacts ==
  ASSUME NEW tk \in Tasks, NEW S \in SUBSET Slot, NEW sig \in Signal,
         \A i \in S : tk[i] # NULL
  PROVE  SignalSent(tk, Sent(tk, S, sig), S, sig)
<1> DEFINE st == Sent(tk, S, sig)
<1>1. ASSUME NEW i \in Slot
      PROVE  st[i] = IF i \in S THEN [tk[i] EXCEPT !.signal = @ \union {sig}] ELSE tk[i]
  BY DEF Sent
<1>2. ASSUME NEW i \in S
      PROVE  /\ tk[i] \in TaskStruct
             /\ st[i] = [tk[i] EXCEPT !.signal = tk[i].signal \union {sig}]
             /\ st[i] \in TaskStruct
             /\ st[i].signal = tk[i].signal \union {sig}
             /\ st[i].pid = tk[i].pid /\ st[i].father = tk[i].father
             /\ st[i].pgrp = tk[i].pgrp /\ st[i].session = tk[i].session
             /\ st[i].leader = tk[i].leader /\ st[i].state = tk[i].state
  <2>1. tk[i] \in TaskStruct
    BY DEF Tasks
  <2>2. st[i] = [tk[i] EXCEPT !.signal = tk[i].signal \union {sig}]
    BY <1>1
  <2> HIDE DEF st
  <2>3. /\ st[i] \in TaskStruct
        /\ st[i].signal = tk[i].signal \union {sig}
        /\ st[i].pid = tk[i].pid /\ st[i].father = tk[i].father
        /\ st[i].pgrp = tk[i].pgrp /\ st[i].session = tk[i].session
        /\ st[i].leader = tk[i].leader /\ st[i].state = tk[i].state
    BY <2>1, <2>2 DEF TaskStruct
  <2> QED BY <2>1, <2>2, <2>3
<1>3. st \in Tasks
  <2>1. \A i \in Slot : st[i] \in TaskStruct \union {NULL}
    BY <1>1, <1>2 DEF Tasks
  <2> QED BY <2>1 DEF Tasks, Sent
<1>4. ASSUME NEW i \in Slot
      PROVE  /\ st[i] = NULL <=> tk[i] = NULL
             /\ i \notin S => st[i] = tk[i]
             /\ tk[i] # NULL =>
                  /\ st[i].pid = tk[i].pid
                  /\ st[i].father = tk[i].father
                  /\ st[i].pgrp = tk[i].pgrp
                  /\ st[i].session = tk[i].session
                  /\ st[i].leader = tk[i].leader
                  /\ st[i].state = tk[i].state
                  /\ st[i].signal \subseteq tk[i].signal \union {sig}
                  /\ tk[i].signal \subseteq st[i].signal
             /\ i \in S => sig \in st[i].signal
  <2>1. CASE i \notin S
    BY <1>1, <2>1
  <2>2. CASE i \in S
    <3> HIDE DEF st
    <3>1. st[i] # NULL /\ tk[i] # NULL
      BY <1>2, <2>2, ProcessLifeAssumption
    <3> QED BY <1>2, <2>2, <3>1
  <2> QED BY <2>1, <2>2
<1> QED BY <1>3, <1>4 DEF SignalSent

\* A step that keeps all tasks with their pids and fathers, makes no zombie
\* and lets nobody into do_exit(), keeps everything but the types.
LEMMA QuietStep ==
  ASSUME IInv, task' \in Tasks,
         \A i \in Slot :
           /\ task'[i] = NULL <=> task[i] = NULL
           /\ task[i] # NULL =>
                /\ task'[i].pid = task[i].pid /\ task'[i].father = task[i].father
                /\ task'[i].state = "ZOMBIE" => task[i].state = "ZOMBIE"
                /\ task'[i].leader => task'[i].session # 0
           /\ pc'[i] = "exit" <=> pc[i] = "exit",
         task'[1].pgrp = 0, task'[1].session = 0, task'[1].signal \subseteq {"SIGCHLD"}
  PROVE  /\ UniquePid' /\ FatherIsAlive' /\ InitLives'
         /\ LeadersHaveSessions' /\ ZombiesHaveExited'
<1> USE DEF IInv
<1>1. Used' = Used
  BY DEF Used
<1>2. UniquePid'
  BY <1>1 DEF UniquePid, Used
<1>3. FatherIsAlive'
  BY <1>1 DEF FatherIsAlive, Used
<1>4. InitLives'
  BY SlotFacts DEF InitLives
<1>5. LeadersHaveSessions'
  BY <1>1 DEF LeadersHaveSessions, Used
<1>6. ZombiesHaveExited'
  BY <1>1 DEF ZombiesHaveExited, Used
<1> QED BY <1>2, <1>3, <1>4, <1>5, <1>6

\* fork(): the child's pid is nobody else's, and its father is running.
LEMMA ForkKeeps ==
  ASSUME IInv, NEW t \in Used \ {0}, pc[t] # "exit", fork(t),
         \A i \in Slot : pc'[i] = "exit" <=> pc[i] = "exit"
  PROVE  /\ task' \in Tasks /\ last_pid' \in Pid
         /\ UniquePid' /\ FatherIsAlive' /\ InitLives'
         /\ LeadersHaveSessions' /\ ZombiesHaveExited'
<1> USE DEF IInv
<1>1. last_pid' \in Pid /\ ~PidInUse(last_pid')
  <2>1. PICK k \in Pid : last_pid' = PidAfter(k) /\ ~PidInUse(PidAfter(k))
    BY DEF fork, TakePid
  <2> QED BY <2>1, PidAfterType DEF TypeOK
<1>2. CASE ~FreeSlot
  <2>1. task' = task
    BY <1>2 DEF fork
  <2>2. task' \in Tasks
    BY <2>1 DEF TypeOK, Tasks
  <2> QED BY <1>1, <2>1, <2>2, QuietStep, SlotFacts DEF LeadersHaveSessions, InitLives, Used
<1>3. CASE FreeSlot
  <2> DEFINE child == [task[t] EXCEPT !.pid = last_pid', !.father = task[t].pid,
                                     !.state = "RUNNING", !.signal = {}, !.leader = FALSE]
  <2>1. PICK i \in Slot \ {0} : task[i] = NULL /\ task' = [task EXCEPT ![i] = child]
    BY <1>3 DEF fork
  <2>2. task[t] \in TaskStruct /\ t \in Slot
    BY DEF TypeOK, Used
  <2>3. /\ child \in TaskStruct
        /\ child.pid = last_pid' /\ child.father = task[t].pid
        /\ child.state = "RUNNING" /\ child.leader = FALSE
    <3>1. last_pid' \in 0..MaxPid /\ task[t].pid \in -1..MaxPid
      BY <1>1, <2>2, ProcessLifeAssumption DEF Pid, TaskStruct
    <3> QED BY <2>2, <3>1 DEF TaskStruct
  <2>4. i # 1 /\ i # t
    BY <2>1 DEF InitLives, Used
  <2> HIDE DEF child
  <2>5. child # NULL
    BY <2>3, ProcessLifeAssumption
  <2>6. task'[i] = child /\ \A j \in Slot \ {i} : task'[j] = task[j]
    BY <2>1 DEF TypeOK
  <2>7. Used' = Used \union {i} /\ i \notin Used
    BY <2>1, <2>5, <2>6 DEF Used
  <2>8. \A j \in Used : task[j].pid # last_pid'
    BY <1>1 DEF PidInUse
  <2>9. task' \in Tasks
    BY <2>1, <2>3 DEF TypeOK, Tasks
  <2>10. UniquePid'
    BY <2>3, <2>6, <2>7, <2>8 DEF UniquePid, Used
  <2>11. FatherIsAlive'
    <3> SUFFICES ASSUME NEW j \in Used' \ {0, 1}
                 PROVE  \E f \in Used' \ {0} : task'[f].pid = task'[j].father /\ pc'[f] # "exit"
      BY DEF FatherIsAlive
    <3>1. CASE j = i
      <4>1. task'[j].father = task[t].pid /\ task'[t].pid = task[t].pid
        BY <2>2, <2>3, <2>4, <2>6, <3>1
      <4>2. t \in Used' \ {0} /\ pc'[t] # "exit"
        BY <2>2, <2>7
      <4> QED BY <4>1, <4>2
    <3>2. CASE j # i
      <4>1. j \in Used \ {0, 1} /\ task'[j] = task[j]
        BY <2>6, <2>7, <3>2 DEF Used
      <4>2. PICK f \in Used \ {0} : task[f].pid = task[j].father /\ pc[f] # "exit"
        BY <4>1 DEF FatherIsAlive
      <4>3. f \in Used' \ {0} /\ task'[f] = task[f] /\ pc'[f] # "exit"
        BY <2>6, <2>7, <4>2 DEF Used
      <4> QED BY <4>1, <4>2, <4>3
    <3> QED BY <3>1, <3>2
  <2>12. InitLives'
    BY <2>1, <2>4, <2>6, SlotFacts DEF InitLives
  <2>13. LeadersHaveSessions'
    BY <2>3, <2>6, <2>7 DEF LeadersHaveSessions, Used
  <2>14. ZombiesHaveExited'
    BY <2>3, <2>6, <2>7 DEF ZombiesHaveExited, Used
  <2> QED BY <1>1, <2>9, <2>10, <2>11, <2>12, <2>13, <2>14
<1> QED BY <1>2, <1>3

\* The first part of do_exit(): nobody keeps a father that is past it.
LEMMA ExitKeeps ==
  ASSUME IInv, NEW t \in Used \ {0, 1}, NEW tk, Like(tk), BeginsToExit(t, tk)
  PROVE  /\ task' \in Tasks
         /\ UniquePid' /\ FatherIsAlive' /\ InitLives'
         /\ LeadersHaveSessions' /\ ZombiesHaveExited'
<1> USE DEF IInv
<1> DEFINE adopted == [i \in Slot |->
             IF i \in ChildrenOf(tk, t) THEN [tk[i] EXCEPT !.father = 1] ELSE tk[i]]
           dead == {i \in ChildrenOf(tk, t) : tk[i].state = "ZOMBIE"}
           told == IF dead # {} /\ tk[1] # NULL THEN {1} ELSE {}
<1>1. /\ task' = Sent(adopted, told, "SIGCHLD")
      /\ pc' = [pc EXCEPT ![t] = "exit"]
  BY DEF BeginsToExit
<1>2. ASSUME NEW i \in Slot
      PROVE  /\ adopted[i] \in TaskStruct \union {NULL}
             /\ adopted[i] = NULL <=> tk[i] = NULL
             /\ tk[i] # NULL =>
                  /\ adopted[i].pid = tk[i].pid
                  /\ adopted[i].father = IF tk[i].father = tk[t].pid THEN 1 ELSE tk[i].father
                  /\ adopted[i].pgrp = tk[i].pgrp /\ adopted[i].session = tk[i].session
                  /\ adopted[i].leader = tk[i].leader /\ adopted[i].state = tk[i].state
                  /\ adopted[i].signal = tk[i].signal
  <2>1. tk[i] \in TaskStruct \union {NULL}
    BY DEF Like, Tasks
  <2>2. CASE i \in ChildrenOf(tk, t)
    <3>1. adopted[i] = [tk[i] EXCEPT !.father = 1] /\ tk[i] # NULL /\ tk[i].father = tk[t].pid
      BY <2>2 DEF ChildrenOf
    <3> HIDE DEF adopted
    <3>2. /\ adopted[i] \in TaskStruct
          /\ adopted[i].pid = tk[i].pid /\ adopted[i].father = 1
          /\ adopted[i].pgrp = tk[i].pgrp /\ adopted[i].session = tk[i].session
          /\ adopted[i].leader = tk[i].leader /\ adopted[i].state = tk[i].state
          /\ adopted[i].signal = tk[i].signal
      BY <2>1, <3>1, ProcessLifeAssumption DEF TaskStruct
    <3> QED BY <3>1, <3>2, ProcessLifeAssumption
  <2>3. CASE i \notin ChildrenOf(tk, t)
    BY <2>1, <2>3 DEF ChildrenOf
  <2> QED BY <2>2, <2>3
<1>3. adopted \in Tasks
  BY <1>2 DEF Tasks
<1>4. told \in SUBSET Slot /\ \A i \in told : adopted[i] # NULL
  BY <1>2, SlotFacts
<1> HIDE DEF adopted, told
<1>5. /\ task' \in Tasks
      /\ \A i \in Slot :
           /\ task'[i] = NULL <=> task[i] = NULL
           /\ task[i] # NULL =>
                /\ task'[i].pid = task[i].pid
                /\ task'[i].father = IF task[i].father = task[t].pid THEN 1 ELSE task[i].father
                /\ task'[i].pgrp = task[i].pgrp /\ task'[i].session = task[i].session
                /\ task'[i].leader = task[i].leader /\ task'[i].state = task[i].state
                /\ task'[i].signal \subseteq task[i].signal \union {"SIGCHLD"}
  <2>1. "SIGCHLD" \in Signal
    BY DEF Signal
  <2>2. task[t] # NULL /\ t \in Slot
    BY DEF Used
  <2>3. tk[t].pid = task[t].pid
    BY <2>2 DEF Like
  <2>4. /\ task' \in Tasks
        /\ \A i \in Slot :
             /\ task'[i] = NULL <=> adopted[i] = NULL
             /\ adopted[i] # NULL =>
                  /\ task'[i].pid = adopted[i].pid
                  /\ task'[i].father = adopted[i].father
                  /\ task'[i].pgrp = adopted[i].pgrp /\ task'[i].session = adopted[i].session
                  /\ task'[i].leader = adopted[i].leader /\ task'[i].state = adopted[i].state
                  /\ task'[i].signal \subseteq adopted[i].signal \union {"SIGCHLD"}
    <3>1. SignalSent(adopted, Sent(adopted, told, "SIGCHLD"), told, "SIGCHLD")
      BY <1>3, <1>4, <2>1, SentFacts
    <3>2. SignalSent(adopted, task', told, "SIGCHLD")
      BY <1>1, <3>1
    <3> QED BY <3>2 DEF SignalSent
  <2>5. ASSUME NEW i \in Slot
        PROVE  /\ task'[i] = NULL <=> task[i] = NULL
               /\ task[i] # NULL =>
                    /\ task'[i].pid = task[i].pid
                    /\ task'[i].father = IF task[i].father = task[t].pid THEN 1 ELSE task[i].father
                    /\ task'[i].pgrp = task[i].pgrp /\ task'[i].session = task[i].session
                    /\ task'[i].leader = task[i].leader /\ task'[i].state = task[i].state
                    /\ task'[i].signal \subseteq task[i].signal \union {"SIGCHLD"}
    <3>1. /\ tk[i] = NULL <=> task[i] = NULL
          /\ task[i] # NULL =>
               /\ tk[i].pid = task[i].pid /\ tk[i].father = task[i].father
               /\ tk[i].pgrp = task[i].pgrp /\ tk[i].session = task[i].session
               /\ tk[i].leader = task[i].leader /\ tk[i].state = task[i].state
               /\ tk[i].signal \subseteq task[i].signal
      BY DEF Like
    <3> QED BY <1>2, <2>3, <2>4, <3>1
  <2> QED BY <2>4, <2>5
<1>6. Used' = Used
  BY <1>5 DEF Used
<1>7. /\ t \in Slot /\ pc'[t] = "exit"
      /\ \A i \in Slot \ {t} : pc'[i] = pc[i]
  BY <1>1 DEF TypeOK, Used
<1>8. UniquePid'
  BY <1>5, <1>6 DEF UniquePid, Used
<1>9. InitLives'
  <2>1. task[t].pid # -1
    BY DEF Used, TypeOK, TaskStruct
  <2> QED BY <1>5, <1>7, <2>1, SlotFacts DEF InitLives
<1>10. FatherIsAlive'
  <2> SUFFICES ASSUME NEW i \in Used' \ {0, 1}
               PROVE  \E f \in Used' \ {0} : task'[f].pid = task'[i].father /\ pc'[f] # "exit"
    BY DEF FatherIsAlive
  <2>1. i \in Used \ {0, 1} /\ i \in Slot /\ task[i] # NULL
    BY <1>6 DEF Used
  <2>2. CASE task[i].father = task[t].pid
    <3>1. task'[i].father = 1
      BY <1>5, <2>1, <2>2
    <3>2. 1 \in Used' \ {0} /\ task'[1].pid = 1 /\ pc'[1] # "exit"
      BY <1>9, SlotFacts DEF InitLives, Used
    <3> QED BY <3>1, <3>2
  <2>3. CASE task[i].father # task[t].pid
    <3>1. PICK f \in Used \ {0} : task[f].pid = task[i].father /\ pc[f] # "exit"
      BY <2>1 DEF FatherIsAlive
    <3>2. f # t /\ f \in Slot
      BY <2>3, <3>1 DEF Used
    <3>3. f \in Used' \ {0} /\ task'[f].pid = task[f].pid /\ pc'[f] # "exit"
      BY <1>5, <1>6, <1>7, <3>1, <3>2 DEF Used
    <3> QED BY <1>5, <2>1, <2>3, <3>1, <3>3
  <2> QED BY <2>2, <2>3
<1>11. LeadersHaveSessions'
  BY <1>5, <1>6 DEF LeadersHaveSessions, Used
<1>12. ZombiesHaveExited'
  BY <1>5, <1>6, <1>7 DEF ZombiesHaveExited, Used
<1> QED BY <1>5, <1>8, <1>9, <1>10, <1>11, <1>12

\* The second part of do_exit(): nobody is t's child, so nothing is lost with
\* it, and process 1 is in no leader's session.
LEMMA ExitEndsKeeps ==
  ASSUME IInv, NEW t \in Slot, ExitEnds(t)
  PROVE  IInv'
<1> USE DEF IInv
<1> DEFINE session == {i \in Used \ {0} : task[t].leader /\ task[i].session = task[t].session}
           hup == Sent(task, session, "SIGHUP")
           hungUp == [hup EXCEPT ![t].state = "ZOMBIE"]
<1>1. /\ t \notin {0, 1} /\ t \in Used /\ pc[t] = "exit"
      /\ UNCHANGED <<last_pid, pc, arg, shell>>
      /\ task' = IF Father(t) = {} THEN [hungUp EXCEPT ![t] = NULL]
                 ELSE Sent(hungUp, Father(t), "SIGCHLD")
  BY DEF ExitEnds, At, Runnable, Used, InitLives
<1>2. session \in SUBSET Slot /\ (\A i \in session : task[i] # NULL) /\ 1 \notin session
  BY <1>1 DEF Used, LeadersHaveSessions, InitLives
<1> HIDE DEF session
<1>3. SignalSent(task, hup, session, "SIGHUP")
  <2>1. task \in Tasks /\ "SIGHUP" \in Signal
    BY DEF TypeOK, Tasks, Signal
  <2> QED BY <1>2, <2>1, SentFacts
<1> HIDE DEF hup
<1>4. /\ hungUp \in Tasks /\ hungUp[t] # NULL
      /\ \A i \in Slot \ {t} : hungUp[i] = hup[i]
      /\ hungUp[t].pid = hup[t].pid /\ hungUp[t].father = hup[t].father
      /\ hungUp[t].leader = hup[t].leader /\ hungUp[t].session = hup[t].session
  <2>1. hup \in Tasks /\ hup[t] \in TaskStruct
    BY <1>1, <1>3 DEF SignalSent, Tasks, Used
  <2>2. hungUp = [hup EXCEPT ![t] = [hup[t] EXCEPT !.state = "ZOMBIE"]]
    OBVIOUS
  <2> DEFINE zombie == [hup[t] EXCEPT !.state = "ZOMBIE"]
  <2>3. /\ zombie \in TaskStruct
        /\ zombie.pid = hup[t].pid /\ zombie.father = hup[t].father
        /\ zombie.leader = hup[t].leader /\ zombie.session = hup[t].session
    BY <2>1 DEF TaskStruct
  <2> HIDE DEF zombie, hungUp
  <2>4. hungUp = [hup EXCEPT ![t] = zombie]
    BY <2>2 DEF zombie
  <2> QED BY <2>1, <2>3, <2>4, ProcessLifeAssumption DEF Tasks
<1> HIDE DEF hungUp
<1>5. /\ task' \in Tasks
      /\ \A i \in Slot \ {t} :
           /\ task'[i] = NULL <=> task[i] = NULL
           /\ task[i] # NULL =>
                /\ task'[i].pid = task[i].pid /\ task'[i].father = task[i].father
                /\ task'[i].pgrp = task[i].pgrp /\ task'[i].session = task[i].session
                /\ task'[i].leader = task[i].leader /\ task'[i].state = task[i].state
      /\ task'[1].signal \subseteq {"SIGCHLD"}
      /\ task'[t] # NULL => /\ task'[t].pid = task[t].pid /\ task'[t].father = task[t].father
                            /\ task'[t].leader = task[t].leader
                            /\ task'[t].session = task[t].session
  <2>1. 1 \in Slot /\ 1 # t /\ task[1] # NULL /\ task[1].signal \subseteq {"SIGCHLD"}
    BY <1>1, SlotFacts DEF InitLives
  <2>2. hup[1] = task[1]
    BY <1>2, <1>3, <2>1 DEF SignalSent
  <2>3. CASE Father(t) = {}
    <3>1. task' = [hungUp EXCEPT ![t] = NULL]
      BY <1>1, <2>3
    <3>2. task' \in Tasks /\ task'[t] = NULL /\ \A i \in Slot \ {t} : task'[i] = hup[i]
      BY <1>4, <3>1 DEF Tasks
    <3> QED BY <1>3, <2>1, <2>2, <3>2 DEF SignalSent
  <2>4. CASE Father(t) # {}
    <3>1. task' = Sent(hungUp, Father(t), "SIGCHLD")
      BY <1>1, <2>4
    <3>2. Father(t) \in SUBSET Slot /\ \A i \in Father(t) : hungUp[i] # NULL
      <4>1. \A i \in Father(t) : i \in Slot /\ task[i] # NULL
        BY DEF Father, Used
      <4>2. \A i \in Father(t) : hungUp[i] # NULL
        BY <1>3, <1>4, <4>1 DEF SignalSent
      <4> QED BY <4>1, <4>2
    <3>3. "SIGCHLD" \in Signal
      BY DEF Signal
    <3>4. SignalSent(hungUp, Sent(hungUp, Father(t), "SIGCHLD"), Father(t), "SIGCHLD")
      BY <1>4, <3>2, <3>3, SentFacts
    <3>5. SignalSent(hungUp, task', Father(t), "SIGCHLD")
      BY <3>1, <3>4
    <3>6. task[t] # NULL
      BY <1>1 DEF Used
    <3> QED BY <1>3, <1>4, <2>1, <2>2, <3>5, <3>6 DEF SignalSent
  <2> QED BY <2>3, <2>4
<1>6. Used' \subseteq Used /\ Used \ {t} \subseteq Used' /\ task[t] # NULL
  BY <1>1, <1>5 DEF Used
<1>7. TypeOK'
  BY <1>1, <1>5 DEF TypeOK, Tasks
<1>8. \A i \in Used' : task'[i].pid = task[i].pid /\ task'[i].father = task[i].father
  BY <1>5, <1>6 DEF Used
<1>9. UniquePid'
  BY <1>6, <1>8 DEF UniquePid
<1>10. FatherIsAlive'
  <2> SUFFICES ASSUME NEW i \in Used' \ {0, 1}
               PROVE  \E f \in Used' \ {0} : task'[f].pid = task'[i].father /\ pc'[f] # "exit"
    BY DEF FatherIsAlive
  <2>1. PICK f \in Used \ {0} : task[f].pid = task[i].father /\ pc[f] # "exit"
    BY <1>6 DEF FatherIsAlive
  <2>2. f \in Used' \ {0} /\ pc'[f] # "exit"
    BY <1>1, <1>6, <2>1
  <2> QED BY <1>8, <2>1, <2>2
<1>11. InitLives'
  BY <1>1, <1>5, SlotFacts DEF InitLives
<1>12. LeadersHaveSessions'
  BY <1>5, <1>6 DEF LeadersHaveSessions, Used
<1>13. ZombiesHaveExited'
  BY <1>1, <1>5, <1>6 DEF ZombiesHaveExited, Used
<1> QED BY <1>7, <1>9, <1>10, <1>11, <1>12, <1>13

\* waitpid() frees a zombie: it is at the end of do_exit(), so nobody's father.
LEMMA ReapKeeps ==
  ASSUME IInv, NEW t \in Used \ {0}, pc[t] # "exit", NEW p \in (-MaxPid)..MaxPid,
         NEW tk, Like(tk), Reap(t, p, tk), UNCHANGED <<last_pid, shell>>
  PROVE  IInv'
<1> USE DEF IInv
<1>1. PICK z \in Zombies(tk, t, p) :
        /\ task' = [tk EXCEPT ![z] = NULL, ![t].state = "RUNNING"]
        /\ pc' = [pc EXCEPT ![z] = "user",
                            ![t] = IF t = 1 /\ tk[z].pid = shell THEN "fork" ELSE "user"]
        /\ arg' = [arg EXCEPT ![t] = 0]
  BY DEF Reap
<1>2. /\ z \in Slot /\ z \notin {0, t} /\ tk[z] # NULL /\ tk[z].state = "ZOMBIE"
      /\ t \in Slot /\ task[t] # NULL
  BY <1>1 DEF Zombies, WaitsFor, ChildrenOf, Used
<1>3. z # 1 /\ pc[z] = "exit"
  <2>1. task[z] # NULL /\ task[z].state = "ZOMBIE"
    BY <1>2 DEF Like
  <2> QED BY <1>2, <2>1 DEF InitLives, ZombiesHaveExited, Used
<1>4. tk \in Tasks /\ tk[t] \in TaskStruct
  BY <1>2 DEF Like, Tasks
<1> DEFINE awake == [tk[t] EXCEPT !.state = "RUNNING"]
<1>5. /\ awake \in TaskStruct
      /\ awake.pid = tk[t].pid /\ awake.father = tk[t].father
      /\ awake.pgrp = tk[t].pgrp /\ awake.session = tk[t].session
      /\ awake.leader = tk[t].leader /\ awake.signal = tk[t].signal /\ awake.state = "RUNNING"
  BY <1>4 DEF TaskStruct
<1>6. /\ task' \in Tasks /\ task'[z] = NULL /\ task'[t] = awake
      /\ \A i \in Slot \ {t, z} : task'[i] = tk[i]
  <2>1. task' = [[tk EXCEPT ![z] = NULL] EXCEPT ![t] = awake]
    BY <1>1, <1>2
  <2> HIDE DEF awake
  <2> QED BY <1>2, <1>4, <1>5, <2>1 DEF Tasks
<1> HIDE DEF awake
<1>7. \A i \in Slot \ {z} :
        /\ task'[i] = NULL <=> task[i] = NULL
        /\ task[i] # NULL =>
             /\ task'[i].pid = task[i].pid /\ task'[i].father = task[i].father
             /\ task'[i].pgrp = task[i].pgrp /\ task'[i].session = task[i].session
             /\ task'[i].leader = task[i].leader
             /\ task'[i].state = "ZOMBIE" => task[i].state = "ZOMBIE" /\ i # t
             /\ task'[i].signal \subseteq task[i].signal
  BY <1>2, <1>5, <1>6, ProcessLifeAssumption DEF Like
<1>8. Used' = Used \ {z}
  BY <1>2, <1>6, <1>7 DEF Used
<1>9. /\ pc' \in [Slot -> {"user", "wait", "exit", "fork"}]
      /\ pc'[t] # "exit" /\ pc'[z] = "user" /\ \A i \in Slot \ {t, z} : pc'[i] = pc[i]
  BY <1>1, <1>2 DEF TypeOK
<1>10. TypeOK'
  <2>1. arg' \in [Slot -> (-MaxPid)..MaxPid]
    <3>1. 0 \in (-MaxPid)..MaxPid
      BY ProcessLifeAssumption
    <3> HIDE DEF Tasks
    <3> QED BY <1>1, <3>1 DEF TypeOK
  <2> QED BY <1>6, <1>9, <2>1 DEF TypeOK, Tasks
<1>11. UniquePid'
  BY <1>7, <1>8 DEF UniquePid, Used
<1>12. FatherIsAlive'
  <2> SUFFICES ASSUME NEW i \in Used' \ {0, 1}
               PROVE  \E f \in Used' \ {0} : task'[f].pid = task'[i].father /\ pc'[f] # "exit"
    BY DEF FatherIsAlive
  <2>1. PICK f \in Used \ {0} : task[f].pid = task[i].father /\ pc[f] # "exit"
    BY <1>8 DEF FatherIsAlive
  <2>2. f # z /\ f \in Used' \ {0} /\ f \in Slot /\ i \in Slot \ {z}
    BY <1>3, <1>8, <2>1 DEF Used
  <2>3. pc'[f] # "exit"
    BY <1>9, <2>1, <2>2
  <2> QED BY <1>7, <1>8, <2>1, <2>2, <2>3 DEF Used
<1>13. InitLives'
  BY <1>2, <1>3, <1>7, <1>9, SlotFacts DEF InitLives
<1>14. LeadersHaveSessions'
  BY <1>7, <1>8 DEF LeadersHaveSessions, Used
<1>15. ZombiesHaveExited'
  BY <1>7, <1>8, <1>9 DEF ZombiesHaveExited, Used
<1> QED BY <1>10, <1>11, <1>12, <1>13, <1>14, <1>15

\* Every way through waitpid() keeps the invariant.
LEMMA WaitKeeps ==
  ASSUME IInv, NEW t \in Used \ {0}, pc[t] # "exit", NEW p \in (-MaxPid)..MaxPid,
         NEW tk, Like(tk), WaitRound(t, p, tk), UNCHANGED <<last_pid, shell>>
  PROVE  IInv'
<1>1. CASE Reap(t, p, tk)
  BY <1>1, ReapKeeps
<1>2. ASSUME NEW st \in {"RUNNING", "INTERRUPTIBLE"}, task' = [tk EXCEPT ![t].state = st],
             NEW label \in {"user", "wait"}, pc' = [pc EXCEPT ![t] = label],
             arg' \in [Slot -> (-MaxPid)..MaxPid]
      PROVE  IInv'
  <2> DEFINE changed == [tk[t] EXCEPT !.state = st]
  <2>1. tk \in Tasks /\ t \in Slot /\ task[t] # NULL /\ tk[t] \in TaskStruct
    BY DEF Like, Tasks, Used
  <2>2. /\ changed \in TaskStruct /\ changed.state = st
        /\ changed.pid = tk[t].pid /\ changed.father = tk[t].father
        /\ changed.pgrp = tk[t].pgrp /\ changed.session = tk[t].session
        /\ changed.leader = tk[t].leader /\ changed.signal = tk[t].signal
    BY <2>1 DEF TaskStruct
  <2>3. task' = [tk EXCEPT ![t] = changed]
    BY <1>2
  <2> HIDE DEF changed
  <2>4. task' \in Tasks /\ task'[t] = changed /\ \A i \in Slot \ {t} : task'[i] = tk[i]
    BY <2>1, <2>2, <2>3 DEF Tasks
  <2>5. \A i \in Slot :
          /\ task'[i] = NULL <=> task[i] = NULL
          /\ task[i] # NULL =>
               /\ task'[i].pid = task[i].pid /\ task'[i].father = task[i].father
               /\ task'[i].pgrp = task[i].pgrp /\ task'[i].session = task[i].session
               /\ task'[i].state = "ZOMBIE" => task[i].state = "ZOMBIE"
               /\ task'[i].leader = task[i].leader
               /\ task'[i].signal \subseteq task[i].signal
    BY <2>1, <2>2, <2>4, ProcessLifeAssumption DEF Like
  <2>6. /\ pc' \in [Slot -> {"user", "wait", "exit", "fork"}]
        /\ \A i \in Slot : pc'[i] = "exit" <=> pc[i] = "exit"
    BY <1>2 DEF IInv, TypeOK
  <2>7. /\ UniquePid' /\ FatherIsAlive' /\ InitLives'
        /\ LeadersHaveSessions' /\ ZombiesHaveExited'
    <3>1. \A i \in Slot : task[i] # NULL /\ task'[i].leader => task'[i].session # 0
      BY <2>5 DEF IInv, LeadersHaveSessions, Used
    <3>2. task'[1].pgrp = 0 /\ task'[1].session = 0 /\ task'[1].signal \subseteq {"SIGCHLD"}
      BY <2>5, SlotFacts DEF IInv, InitLives
    <3> QED BY <2>4, <2>5, <2>6, <3>1, <3>2, QuietStep
  <2>8. TypeOK'
    BY <1>2, <2>4, <2>6 DEF IInv, TypeOK, Tasks
  <2> QED BY <2>7, <2>8 DEF IInv
<1>3. ASSUME NEW k \in (-MaxPid)..MaxPid, arg' = [arg EXCEPT ![t] = k]
      PROVE  arg' \in [Slot -> (-MaxPid)..MaxPid]
  BY <1>3 DEF IInv, TypeOK
<1>4. 0 \in (-MaxPid)..MaxPid
  BY ProcessLifeAssumption
<1>5. CASE SleepForChild(t, p, tk)
  BY <1>2, <1>3, <1>5 DEF SleepForChild
<1>6. CASE NoChild(t, p, tk)
  BY <1>2, <1>3, <1>4, <1>6 DEF NoChild
<1> QED BY <1>1, <1>5, <1>6 DEF WaitRound

\* A change of one task's mask, group or session, or the loss of a signal.
LEMMA ChangeKeeps ==
  ASSUME IInv, NEW i \in Used \ {0}, NEW new \in TaskStruct, task' = [task EXCEPT ![i] = new],
         new.pid = task[i].pid, new.father = task[i].father,
         new.state = "ZOMBIE" => task[i].state = "ZOMBIE",
         new.leader => new.session # 0,
         i = 1 => /\ new.pgrp = 0 /\ new.session = 0 /\ new.signal \subseteq {"SIGCHLD"},
         pc' \in [Slot -> {"user", "wait", "exit", "fork"}],
         \A j \in Slot : pc'[j] = "exit" <=> pc[j] = "exit",
         arg' \in [Slot -> (-MaxPid)..MaxPid], UNCHANGED <<last_pid, shell>>
  PROVE  IInv'
<1> USE DEF IInv
<1>1. /\ task' \in Tasks /\ i \in Slot /\ task[i] # NULL
      /\ task'[i] = new /\ \A j \in Slot \ {i} : task'[j] = task[j]
  BY DEF TypeOK, Tasks, Used
<1>2. \A j \in Slot :
        /\ task'[j] = NULL <=> task[j] = NULL
        /\ task[j] # NULL =>
             /\ task'[j].pid = task[j].pid /\ task'[j].father = task[j].father
             /\ task'[j].state = "ZOMBIE" => task[j].state = "ZOMBIE"
             /\ task'[j].leader => task'[j].session # 0
  BY <1>1, ProcessLifeAssumption DEF LeadersHaveSessions, Used
<1>3. task'[1].pgrp = 0 /\ task'[1].session = 0 /\ task'[1].signal \subseteq {"SIGCHLD"}
  BY <1>1, SlotFacts DEF InitLives
<1>4. /\ UniquePid' /\ FatherIsAlive' /\ InitLives'
      /\ LeadersHaveSessions' /\ ZombiesHaveExited'
  BY <1>1, <1>2, <1>3, QuietStep
<1>5. TypeOK'
  BY <1>1 DEF TypeOK, Tasks
<1> QED BY <1>4, <1>5

\* kill() by anybody but process 1 passes process 1 by.
LEMMA KillKeeps ==
  ASSUME IInv, NEW t \in Slot, Kill(t)
  PROVE  IInv'
<1> USE DEF IInv
<1>1. PICK p \in (Pid \ {1}) \union {-1, 0} \union {-g : g \in Groups}, sig \in Kills :
        task' = Sent(task, KillReaches(t, p), sig)
  BY DEF Kill
<1>2. t \notin {0, 1} /\ t \in Used /\ UNCHANGED <<last_pid, pc, arg, shell>>
  BY DEF Kill, At, Runnable, Used
<1>3. KillReaches(t, p) \in SUBSET Slot /\ \A i \in KillReaches(t, p) : task[i] # NULL
  BY DEF KillReaches, Used
<1>4. 1 \notin KillReaches(t, p)
  <2>1. p = 1 \/ p = -1 \/ p = 0 \/ p # 1
    OBVIOUS
  <2>2. p # 1
    BY <1>1, ProcessLifeAssumption DEF Pid
  <2>3. task[t].pid # 0
    BY <1>2, SlotFacts DEF InitLives, UniquePid, Used
  <2>4. ~(\A j \in Used : j <= 1)
    BY <1>2 DEF Slot, Used
  <2> QED BY <2>2, <2>3, <2>4 DEF KillReaches, InitLives
<1>5. SignalSent(task, task', KillReaches(t, p), sig)
  <2>1. task \in Tasks /\ sig \in Signal
    BY <1>1, ProcessLifeAssumption DEF TypeOK, Tasks, Signal
  <2>2. SignalSent(task, Sent(task, KillReaches(t, p), sig), KillReaches(t, p), sig)
    BY <1>3, <2>1, SentFacts
  <2> QED BY <1>1, <2>2
<1>6. task' \in Tasks
  BY <1>5 DEF SignalSent
<1>7. /\ UniquePid' /\ FatherIsAlive' /\ InitLives'
      /\ LeadersHaveSessions' /\ ZombiesHaveExited'
  <2>1. \A i \in Slot :
          /\ task'[i] = NULL <=> task[i] = NULL
          /\ task[i] # NULL =>
               /\ task'[i].pid = task[i].pid /\ task'[i].father = task[i].father
               /\ task'[i].state = "ZOMBIE" => task[i].state = "ZOMBIE"
               /\ task'[i].leader => task'[i].session # 0
          /\ pc'[i] = "exit" <=> pc[i] = "exit"
    BY <1>2, <1>5 DEF SignalSent, LeadersHaveSessions, Used
  <2>2. task'[1].pgrp = 0 /\ task'[1].session = 0 /\ task'[1].signal \subseteq {"SIGCHLD"}
    BY <1>4, <1>5, SlotFacts DEF SignalSent, InitLives
  <2> QED BY <1>6, <2>1, <2>2, QuietStep
<1>8. TypeOK'
  BY <1>2, <1>6 DEF TypeOK, Tasks
<1> QED BY <1>7, <1>8

-----------------------------------------------------------------------------
(* Waiters *)

\* What WaiterIsTold says of t.
Told(t) ==
  pc[t] = "wait" /\ (arg[t] = -1 \/ arg[t] > 0) /\ Zombies(task, t, arg[t]) # {}
    => "SIGCHLD" \in task[t].signal

\* t goes on waiting, and loses no SIGCHLD.
StillWaits(t) ==
  /\ task[t] # NULL /\ pc[t] = "wait" /\ arg'[t] = arg[t] /\ task'[t].pid = task[t].pid
  /\ "SIGCHLD" \in task[t].signal => "SIGCHLD" \in task'[t].signal

\* Task 0 never calls waitpid().
ZeroPauses == pc[0] = "user"

\* z was a zombie of the same father before.
WasZombie(z) ==
  /\ task[z] # NULL /\ task[z].state = "ZOMBIE"
  /\ task[z].father = task'[z].father /\ task[z].pid = task'[z].pid

\* Whoever waited before has been told of the zombies that were there before.
LEMMA StillTold ==
  ASSUME IInv, WaiterIsTold, NEW t \in Slot, StillWaits(t),
         \A z \in Slot \ {0, t} :
           (task'[z] # NULL /\ task'[z].state = "ZOMBIE" /\ task'[z].father = task[t].pid)
             => "SIGCHLD" \in task'[t].signal \/ WasZombie(z)
  PROVE  Told(t)'
<1> SUFFICES ASSUME arg[t] = -1 \/ arg[t] > 0, Zombies(task, t, arg[t])' # {},
                    "SIGCHLD" \notin task'[t].signal
             PROVE  FALSE
  BY DEF Told, StillWaits
<1>1. PICK z \in Zombies(task, t, arg[t])' : TRUE
  OBVIOUS
<1>2. /\ z \in Slot \ {0, t} /\ task'[z] # NULL /\ task'[z].state = "ZOMBIE"
      /\ task'[z].father = task[t].pid
      /\ arg[t] > 0 => task'[z].pid = arg[t]
  BY <1>1 DEF Zombies, WaitsFor, ChildrenOf, StillWaits
<1>3. WasZombie(z)
  BY <1>2
<1>4. z \in Zombies(task, t, arg[t])
  <2>1. arg[t] \in Int
    BY DEF IInv, TypeOK
  <2> QED BY <1>2, <1>3, <2>1 DEF Zombies, WaitsFor, ChildrenOf, WasZombie
<1> QED BY <1>4 DEF WaiterIsTold, Used, StillWaits

\* A step makes no zombie, and after it only old waiters wait, but for s.
NoNewZombies == \A z \in Slot : task'[z] # NULL /\ task'[z].state = "ZOMBIE" => WasZombie(z)
OldWaiters(s) == \A t \in Slot \ {s} : task'[t] # NULL /\ pc'[t] = "wait" => StillWaits(t)

\* Then everybody has been told, if s has.
LEMMA ToldBut ==
  ASSUME IInv, WaiterIsTold, NEW s \in Slot, OldWaiters(s), NoNewZombies, Told(s)'
  PROVE  WaiterIsTold'
<1> SUFFICES ASSUME NEW t \in Used', pc'[t] = "wait"
             PROVE  Told(t)'
  BY DEF WaiterIsTold, Told
<1>1. t \in Slot /\ task'[t] # NULL
  BY DEF Used
<1>2. CASE t # s
  <2>1. StillWaits(t)
    BY <1>1, <1>2 DEF OldWaiters
  <2> QED BY <1>1, <2>1, StillTold DEF NoNewZombies
<1> QED BY <1>2

\* Everybody has been told when only old waiters wait.
LEMMA ToldKept ==
  ASSUME IInv, WaiterIsTold, \A t \in Slot : task'[t] # NULL /\ pc'[t] = "wait" => StillWaits(t),
         NoNewZombies
  PROVE  WaiterIsTold'
<1> SUFFICES ASSUME NEW t \in Used', pc'[t] = "wait"
             PROVE  Told(t)'
  BY DEF WaiterIsTold, Told
<1>1. t \in Slot /\ StillWaits(t)
  BY DEF Used
<1> QED BY <1>1, StillTold DEF NoNewZombies

\* A child that has just been forked has no children.
LEMMA ForkTells ==
  ASSUME IInv, WaiterIsTold, NEW t \in Used \ {0}, fork(t),
         \A i \in Slot : pc'[i] = "wait" => pc[i] = "wait", arg' = arg
  PROVE  WaiterIsTold'
<1> USE DEF IInv
<1>1. CASE ~FreeSlot
  <2>1. task' = task
    BY <1>1 DEF fork
  <2> QED BY <2>1, ToldKept DEF StillWaits, WasZombie, NoNewZombies
<1>2. CASE FreeSlot
  <2> DEFINE child == [task[t] EXCEPT !.pid = last_pid', !.father = task[t].pid,
                                     !.state = "RUNNING", !.signal = {}, !.leader = FALSE]
  <2>1. PICK i \in Slot \ {0} : task[i] = NULL /\ task' = [task EXCEPT ![i] = child]
    BY <1>2 DEF fork
  <2>2. last_pid' \in Pid /\ ~PidInUse(last_pid')
    <3>1. PICK k \in Pid : last_pid' = PidAfter(k) /\ ~PidInUse(PidAfter(k))
      BY DEF fork, TakePid
    <3> QED BY <3>1, PidAfterType DEF TypeOK
  <2>3. task[t] \in TaskStruct
    BY DEF TypeOK, Used
  <2>4. child.pid = last_pid' /\ child.state = "RUNNING"
    BY <2>3 DEF TaskStruct
  <2> HIDE DEF child
  <2>5. task'[i] = child /\ \A j \in Slot \ {i} : task'[j] = task[j]
    BY <2>1 DEF TypeOK
  <2>6. \A z \in Slot : task'[z] # NULL /\ task'[z].state = "ZOMBIE" => z # i /\ WasZombie(z)
    BY <2>4, <2>5 DEF WasZombie
  <2>7. Zombies(task, i, arg[i])' = {}
    <3> SUFFICES ASSUME NEW z \in Zombies(task, i, arg[i])' PROVE FALSE
      OBVIOUS
    <3>1. z \in Slot \ {0} /\ task'[z].father = last_pid' /\ WasZombie(z)
      BY <2>4, <2>5, <2>6 DEF Zombies, WaitsFor, ChildrenOf
    <3>2. z \in Used \ {0, 1} /\ task[z].father = last_pid'
      BY <3>1 DEF WasZombie, Used, InitLives
    <3> QED BY <2>2, <3>2 DEF FatherIsAlive, PidInUse
  <2>8. Told(i)'
    BY <2>7 DEF Told
  <2>9. \A j \in Slot \ {i} : task'[j] # NULL /\ pc'[j] = "wait" => StillWaits(j)
    BY <2>5 DEF StillWaits
  <2> QED BY <2>6, <2>8, <2>9, ToldBut DEF OldWaiters, NoNewZombies
<1> QED BY <1>1, <1>2

\* do_exit() gives its zombies to process 1, and tells it.
LEMMA ExitTells ==
  ASSUME IInv, WaiterIsTold, NEW t \in Used \ {0, 1}, NEW tk, Like(tk),
         \A i \in Slot \ {t} : tk[i] = task[i],
         BeginsToExit(t, tk), arg' = arg
  PROVE  WaiterIsTold'
<1> USE DEF IInv
<1> DEFINE adopted == [i \in Slot |->
             IF i \in ChildrenOf(tk, t) THEN [tk[i] EXCEPT !.father = 1] ELSE tk[i]]
           dead == {i \in ChildrenOf(tk, t) : tk[i].state = "ZOMBIE"}
           told == IF dead # {} /\ tk[1] # NULL THEN {1} ELSE {}
<1>1. /\ task' = Sent(adopted, told, "SIGCHLD")
      /\ pc' = [pc EXCEPT ![t] = "exit"]
  BY DEF BeginsToExit
<1>2. ASSUME NEW i \in Slot
      PROVE  /\ adopted[i] \in TaskStruct \union {NULL}
             /\ adopted[i] = NULL <=> tk[i] = NULL
             /\ i \in ChildrenOf(tk, t) => adopted[i].father = 1
             /\ tk[i] # NULL =>
                  /\ adopted[i].pid = tk[i].pid /\ adopted[i].state = tk[i].state
                  /\ i \notin ChildrenOf(tk, t) => adopted[i].father = tk[i].father
                  /\ adopted[i].signal = tk[i].signal
  <2>1. tk[i] \in TaskStruct \union {NULL}
    BY DEF Like, Tasks
  <2>2. CASE i \in ChildrenOf(tk, t)
    <3>1. adopted[i] = [tk[i] EXCEPT !.father = 1] /\ tk[i] # NULL
      BY <2>2 DEF ChildrenOf
    <3> HIDE DEF adopted
    <3>2. /\ adopted[i] \in TaskStruct
          /\ adopted[i].pid = tk[i].pid /\ adopted[i].father = 1
          /\ adopted[i].state = tk[i].state /\ adopted[i].signal = tk[i].signal
      BY <2>1, <3>1, ProcessLifeAssumption DEF TaskStruct
    <3> QED BY <2>2, <3>1, <3>2, ProcessLifeAssumption
  <2>3. CASE i \notin ChildrenOf(tk, t)
    BY <2>1, <2>3
  <2> QED BY <2>2, <2>3
<1>3. adopted \in Tasks
  BY <1>2 DEF Tasks
<1>4. /\ told \in SUBSET Slot /\ \A i \in told : adopted[i] # NULL
      /\ dead # {} => 1 \in told
  <2>1. tk[1] # NULL
    BY SlotFacts DEF Like, InitLives
  <2> QED BY <1>2, <2>1, SlotFacts
<1>5. \A z \in Slot : tk[z] # NULL /\ tk[z].state = "ZOMBIE" /\ z \in ChildrenOf(tk, t) => z \in dead
  OBVIOUS
<1> HIDE DEF adopted, told, dead
<1>6. SignalSent(adopted, task', told, "SIGCHLD")
  <2>1. "SIGCHLD" \in Signal
    BY DEF Signal
  <2>2. SignalSent(adopted, Sent(adopted, told, "SIGCHLD"), told, "SIGCHLD")
    BY <1>3, <1>4, <2>1, SentFacts
  <2> QED BY <1>1, <2>2
<1> SUFFICES ASSUME NEW w \in Used', pc'[w] = "wait"
             PROVE  Told(w)'
  BY DEF WaiterIsTold, Told
<1>7. /\ w \in Slot /\ task'[w] # NULL /\ w # t /\ pc[w] = "wait"
      /\ task[w] # NULL /\ tk[w] = task[w]
  BY <1>1, <1>2, <1>6 DEF Used, TypeOK, SignalSent
<1>8. StillWaits(w)
  BY <1>2, <1>6, <1>7 DEF StillWaits, SignalSent
<1>9. ASSUME NEW z \in Slot \ {0, w}, task'[z] # NULL, task'[z].state = "ZOMBIE",
             task'[z].father = task[w].pid
      PROVE  "SIGCHLD" \in task'[w].signal \/ WasZombie(z)
  <2>1. /\ tk[z] # NULL /\ task[z] # NULL /\ task[z].state = "ZOMBIE" /\ tk[z].state = "ZOMBIE"
        /\ task[z].pid = task'[z].pid /\ task[z].father = tk[z].father
    BY <1>2, <1>6, <1>9 DEF SignalSent, Like
  <2>2. CASE z \notin ChildrenOf(tk, t)
    BY <1>2, <1>6, <1>9, <2>1, <2>2 DEF SignalSent, WasZombie
  <2>3. CASE z \in ChildrenOf(tk, t)
    <3>1. task[w].pid = 1
      BY <1>2, <1>6, <1>9, <2>1, <2>3 DEF SignalSent
    <3>2. w = 1
      BY <1>7, <3>1, SlotFacts DEF InitLives, UniquePid, Used
    <3>3. 1 \in told
      BY <1>4, <1>5, <2>1, <2>3
    <3> QED BY <1>6, <1>7, <3>2, <3>3 DEF SignalSent
  <2> QED BY <2>2, <2>3
<1> QED BY <1>7, <1>8, <1>9, StillTold

\* tell_father() finds the process that waits for the zombie.
LEMMA ExitEndsTells ==
  ASSUME IInv, WaiterIsTold, ZeroPauses, NEW t \in Slot, ExitEnds(t)
  PROVE  WaiterIsTold'
<1> USE DEF IInv
<1> DEFINE session == {i \in Used \ {0} : task[t].leader /\ task[i].session = task[t].session}
           hup == Sent(task, session, "SIGHUP")
           hungUp == [hup EXCEPT ![t].state = "ZOMBIE"]
<1>1. /\ t \notin {0, 1} /\ t \in Used /\ pc[t] = "exit" /\ pc' = pc /\ arg' = arg
      /\ task' = IF Father(t) = {} THEN [hungUp EXCEPT ![t] = NULL]
                 ELSE Sent(hungUp, Father(t), "SIGCHLD")
  BY DEF ExitEnds, At, Runnable, Used, InitLives
<1>2. session \in SUBSET Slot /\ \A i \in session : task[i] # NULL
  BY <1>1 DEF Used
<1> HIDE DEF session
<1>3. SignalSent(task, hup, session, "SIGHUP")
  <2>1. task \in Tasks /\ "SIGHUP" \in Signal
    BY DEF TypeOK, Tasks, Signal
  <2> QED BY <1>2, <2>1, SentFacts
<1> HIDE DEF hup
<1>4. /\ hungUp \in Tasks /\ hungUp[t] # NULL
      /\ hungUp[t].pid = hup[t].pid /\ hungUp[t].father = hup[t].father
      /\ \A i \in Slot \ {t} : hungUp[i] = hup[i]
  <2>1. hup \in Tasks /\ hup[t] \in TaskStruct
    BY <1>1, <1>3 DEF SignalSent, Tasks, Used
  <2> DEFINE zombie == [hup[t] EXCEPT !.state = "ZOMBIE"]
  <2>2. hungUp = [hup EXCEPT ![t] = zombie]
    OBVIOUS
  <2>3. zombie \in TaskStruct /\ zombie.pid = hup[t].pid /\ zombie.father = hup[t].father
    BY <2>1 DEF TaskStruct
  <2> HIDE DEF zombie, hungUp
  <2> QED BY <2>1, <2>2, <2>3, ProcessLifeAssumption DEF Tasks
<1> HIDE DEF hungUp
<1>5. /\ Father(t) \in SUBSET Slot /\ \A i \in Father(t) : hungUp[i] # NULL
      /\ "SIGCHLD" \in Signal
  <2>1. \A i \in Father(t) : i \in Slot /\ task[i] # NULL
    BY DEF Father, Used
  <2>2. \A i \in Father(t) : hungUp[i] # NULL
    BY <1>3, <1>4, <2>1 DEF SignalSent
  <2> QED BY <2>1, <2>2 DEF Signal
<1>6. /\ Father(t) = {} => task'[t] = NULL /\ \A i \in Slot \ {t} : task'[i] = hup[i]
      /\ Father(t) # {} => SignalSent(hungUp, task', Father(t), "SIGCHLD")
  <2>1. CASE Father(t) = {}
    <3>1. task' = [hungUp EXCEPT ![t] = NULL]
      BY <1>1, <2>1
    <3> QED BY <1>4, <2>1, <3>1 DEF Tasks
  <2>2. CASE Father(t) # {}
    <3>1. SignalSent(hungUp, Sent(hungUp, Father(t), "SIGCHLD"), Father(t), "SIGCHLD")
      BY <1>4, <1>5, SentFacts
    <3> QED BY <1>1, <2>2, <3>1
  <2> QED BY <2>1, <2>2
<1>7. ASSUME NEW i \in Slot \ {t}
      PROVE  /\ task'[i] = NULL <=> task[i] = NULL
             /\ task[i] # NULL =>
                  /\ task'[i].pid = task[i].pid /\ task'[i].father = task[i].father
                  /\ task'[i].state = task[i].state
                  /\ task[i].signal \subseteq task'[i].signal
                  /\ i \in Father(t) => "SIGCHLD" \in task'[i].signal
  BY <1>3, <1>4, <1>6 DEF SignalSent
<1> SUFFICES ASSUME NEW w \in Used', pc'[w] = "wait"
             PROVE  Told(w)'
  BY DEF WaiterIsTold, Told
<1>8. w \in Slot \ {t} /\ task'[w] # NULL /\ task[w] # NULL /\ pc[w] = "wait"
  BY <1>1, <1>7 DEF Used
<1>9. StillWaits(w)
  BY <1>1, <1>7, <1>8 DEF StillWaits
<1>10. ASSUME task'[t] # NULL, task'[t].father = task[w].pid, w # 0
       PROVE  "SIGCHLD" \in task'[w].signal
  <2>1. task[t].father = task[w].pid /\ task[t] # NULL
    BY <1>1, <1>3, <1>4, <1>6, <1>10 DEF SignalSent, Used
  <2>2. task[w].pid # 0 /\ w \in Used
    BY <1>8, <1>10, SlotFacts DEF InitLives, UniquePid, Used
  <2>3. w \in Father(t)
    <3>1. \A j \in Used : task[j].pid = task[w].pid => j = w
      BY <2>2 DEF UniquePid
    <3>2. w <= w
      BY <1>8 DEF Slot
    <3> QED BY <2>1, <2>2, <3>1, <3>2 DEF Father
  <2> QED BY <1>7, <1>8, <2>3
<1>11. w # 0
  BY <1>8 DEF ZeroPauses
<1>12. ASSUME NEW z \in Slot \ {0, w}, task'[z] # NULL, task'[z].state = "ZOMBIE",
              task'[z].father = task[w].pid
       PROVE  "SIGCHLD" \in task'[w].signal \/ WasZombie(z)
  BY <1>7, <1>10, <1>11, <1>12 DEF WasZombie
<1> QED BY <1>8, <1>9, <1>12, StillTold

\* A process that goes to sleep in waitpid() has just looked.
LEMMA WaitTells ==
  ASSUME IInv, WaiterIsTold, NEW t \in Used \ {0}, NEW p \in (-MaxPid)..MaxPid,
         NEW tk, Like(tk), \A i \in Slot \ {t} : tk[i] = task[i], WaitRound(t, p, tk)
  PROVE  WaiterIsTold'
<1> USE DEF IInv
<1>1. /\ tk \in Tasks /\ t \in Slot /\ task[t] # NULL /\ tk[t] # NULL /\ tk[t] \in TaskStruct
      /\ tk[t].pid = task[t].pid /\ tk[t].father = task[t].father
  BY DEF Like, Tasks, Used
<1>2. ASSUME NEW st \in {"RUNNING", "INTERRUPTIBLE"}, task' = [tk EXCEPT ![t].state = st]
      PROVE  /\ task'[t] # NULL /\ task'[t].pid = tk[t].pid /\ task'[t].state = st
             /\ \A i \in Slot \ {t} : task'[i] = task[i]
             /\ \A z \in Slot : task'[z] # NULL /\ task'[z].state = "ZOMBIE" => WasZombie(z)
  <2> DEFINE changed == [tk[t] EXCEPT !.state = st]
  <2>1. changed \in TaskStruct /\ changed.state = st /\ changed.pid = tk[t].pid
    BY <1>1 DEF TaskStruct
  <2>2. task' = [tk EXCEPT ![t] = changed]
    BY <1>2
  <2> HIDE DEF changed
  <2>3. task'[t] = changed /\ \A i \in Slot \ {t} : task'[i] = task[i]
    BY <1>1, <2>2 DEF Tasks
  <2> QED BY <2>1, <2>3, ProcessLifeAssumption DEF WasZombie
<1>3. CASE Reap(t, p, tk)
  <2>1. PICK z \in Zombies(tk, t, p) :
          /\ task' = [tk EXCEPT ![z] = NULL, ![t].state = "RUNNING"]
          /\ pc' = [pc EXCEPT ![z] = "user",
                              ![t] = IF t = 1 /\ tk[z].pid = shell THEN "fork" ELSE "user"]
          /\ arg' = [arg EXCEPT ![t] = 0]
    BY <1>3 DEF Reap
  <2>2. z \in Slot \ {0, t}
    BY <2>1 DEF Zombies, WaitsFor, ChildrenOf
  <2> DEFINE awake == [tk[t] EXCEPT !.state = "RUNNING"]
  <2>3. awake \in TaskStruct /\ awake.state = "RUNNING"
    BY <1>1 DEF TaskStruct
  <2>4. task' = [[tk EXCEPT ![z] = NULL] EXCEPT ![t] = awake]
    BY <2>1, <2>2
  <2> HIDE DEF awake
  <2>5. /\ task'[z] = NULL /\ task'[t] = awake
        /\ \A i \in Slot \ {t, z} : task'[i] = task[i]
    BY <1>1, <2>2, <2>4 DEF Tasks
  <2>6. /\ pc'[t] # "wait" /\ pc'[z] # "wait"
        /\ \A i \in Slot \ {t, z} : pc'[i] = pc[i] /\ arg'[i] = arg[i]
    BY <1>1, <2>1, <2>2 DEF TypeOK
  <2>7. \A i \in Slot : task'[i] # NULL /\ pc'[i] = "wait" => StillWaits(i)
    BY <2>5, <2>6 DEF StillWaits
  <2>8. \A i \in Slot : task'[i] # NULL /\ task'[i].state = "ZOMBIE" => WasZombie(i)
    BY <2>3, <2>5 DEF WasZombie
  <2> QED BY <2>7, <2>8, ToldKept DEF NoNewZombies
<1>4. CASE SleepForChild(t, p, tk)
  <2>1. /\ Zombies(tk, t, p) = {} /\ task' = [tk EXCEPT ![t].state = "INTERRUPTIBLE"]
        /\ pc' = [pc EXCEPT ![t] = "wait"] /\ arg' = [arg EXCEPT ![t] = p]
    BY <1>4 DEF SleepForChild
  <2>2. /\ task'[t] # NULL /\ task'[t].pid = tk[t].pid
        /\ \A i \in Slot \ {t} : task'[i] = task[i]
        /\ \A z \in Slot : task'[z] # NULL /\ task'[z].state = "ZOMBIE" => WasZombie(z)
    BY <1>2, <2>1
  <2>3. arg'[t] = p /\ \A i \in Slot \ {t} : pc'[i] = pc[i] /\ arg'[i] = arg[i]
    BY <1>1, <2>1 DEF TypeOK
  <2>4. ASSUME p = -1 \/ p > 0
        PROVE  Zombies(task, t, arg[t])' = {}
    <3> SUFFICES ASSUME NEW z \in Zombies(task, t, arg[t])' PROVE z \in Zombies(tk, t, p)
      BY <2>1
    <3>1. /\ z \in Slot \ {0, t} /\ task'[z] # NULL /\ task'[z].state = "ZOMBIE"
          /\ task'[z].father = tk[t].pid /\ (p > 0 => task'[z].pid = p)
      BY <2>2, <2>3 DEF Zombies, WaitsFor, ChildrenOf
    <3>2. tk[z] = task'[z]
      BY <2>2, <3>1
    <3> QED BY <2>4, <3>1, <3>2 DEF Zombies, WaitsFor, ChildrenOf
  <2>5. Told(t)'
    BY <2>3, <2>4 DEF Told
  <2>6. \A i \in Slot \ {t} : task'[i] # NULL /\ pc'[i] = "wait" => StillWaits(i)
    BY <2>2, <2>3 DEF StillWaits
  <2> QED BY <1>1, <2>2, <2>5, <2>6, ToldBut DEF OldWaiters, NoNewZombies
<1>5. CASE NoChild(t, p, tk)
  <2>1. /\ task' = [tk EXCEPT ![t].state = "RUNNING"]
        /\ pc' = [pc EXCEPT ![t] = "user"] /\ arg' = [arg EXCEPT ![t] = 0]
    BY <1>5 DEF NoChild
  <2>2. /\ \A i \in Slot \ {t} : task'[i] = task[i]
        /\ \A z \in Slot : task'[z] # NULL /\ task'[z].state = "ZOMBIE" => WasZombie(z)
    BY <1>2, <2>1
  <2>3. pc'[t] = "user" /\ \A i \in Slot \ {t} : pc'[i] = pc[i] /\ arg'[i] = arg[i]
    BY <1>1, <2>1 DEF TypeOK
  <2>4. \A i \in Slot : task'[i] # NULL /\ pc'[i] = "wait" => StillWaits(i)
    BY <2>2, <2>3 DEF StillWaits
  <2> QED BY <2>2, <2>4, ToldKept DEF NoNewZombies
<1> QED BY <1>3, <1>4, <1>5 DEF WaitRound

\* A change of one task that does not wait, or only of its mask or group.
LEMMA ChangeTells ==
  ASSUME IInv, WaiterIsTold, NEW i \in Used, NEW new \in TaskStruct, task' = [task EXCEPT ![i] = new],
         new.pid = task[i].pid, new.father = task[i].father,
         new.state = "ZOMBIE" => task[i].state = "ZOMBIE",
         \A j \in Slot : pc'[j] = "wait" => pc[j] = "wait" /\ arg'[j] = arg[j],
         pc'[i] = "wait" => task[i].signal \subseteq new.signal
  PROVE  WaiterIsTold'
<1>1. /\ i \in Slot /\ task[i] # NULL
      /\ task'[i] = new /\ \A j \in Slot \ {i} : task'[j] = task[j]
  BY DEF IInv, TypeOK, Used
<1>2. \A j \in Slot : task'[j] # NULL /\ pc'[j] = "wait" => StillWaits(j)
  BY <1>1 DEF StillWaits
<1>3. \A z \in Slot : task'[z] # NULL /\ task'[z].state = "ZOMBIE" => WasZombie(z)
  BY <1>1 DEF WasZombie
<1> QED BY <1>2, <1>3, ToldKept DEF NoNewZombies

\* kill() takes no signal away.
LEMMA KillTells ==
  ASSUME IInv, WaiterIsTold, NEW t \in Slot, Kill(t)
  PROVE  WaiterIsTold'
<1> USE DEF IInv
<1>1. PICK p \in (Pid \ {1}) \union {-1, 0} \union {-g : g \in Groups}, sig \in Kills :
        task' = Sent(task, KillReaches(t, p), sig)
  BY DEF Kill
<1>2. /\ task \in Tasks /\ sig \in Signal
      /\ KillReaches(t, p) \in SUBSET Slot /\ \A i \in KillReaches(t, p) : task[i] # NULL
  BY <1>1, ProcessLifeAssumption DEF TypeOK, Tasks, Signal, KillReaches, Used
<1>3. SignalSent(task, task', KillReaches(t, p), sig)
  <2>1. SignalSent(task, Sent(task, KillReaches(t, p), sig), KillReaches(t, p), sig)
    BY <1>2, SentFacts
  <2> QED BY <1>1, <2>1
<1>4. pc' = pc /\ arg' = arg
  BY DEF Kill
<1>5. \A j \in Slot : task'[j] # NULL /\ pc'[j] = "wait" => StillWaits(j)
  BY <1>3, <1>4 DEF StillWaits, SignalSent
<1>6. \A z \in Slot : task'[z] # NULL /\ task'[z].state = "ZOMBIE" => WasZombie(z)
  BY <1>3 DEF WasZombie, SignalSent
<1> QED BY <1>5, <1>6, ToldKept DEF NoNewZombies

-----------------------------------------------------------------------------
(* The theorems *)

LEMMA InitIInv == Init => IInv
<1> SUFFICES ASSUME Init PROVE IInv
  OBVIOUS
<1>1. /\ 0 \in Slot /\ 1 \in Slot /\ Slot \subseteq Nat /\ 1 \in Pid
      /\ \A i \in Slot : i <= 1 => i \in 0..MaxPid /\ i - 1 \in -1..MaxPid
      /\ 0 \in (-MaxPid)..MaxPid /\ 0 \in 0..MaxPid
  BY ProcessLifeAssumption DEF Slot, Pid
<1>2. \A i \in Slot \ {0, 1} : task[i] = NULL
  BY <1>1 DEF Init
<1>3. ASSUME NEW i \in {0, 1}
      PROVE  /\ task[i] \in TaskStruct /\ task[i] # NULL
             /\ task[i].pid = i /\ task[i].father = i - 1
             /\ task[i].pgrp = 0 /\ task[i].session = 0 /\ task[i].leader = FALSE
             /\ task[i].state = "RUNNING" /\ task[i].signal = {}
  <2> DEFINE first == [pid |-> i, father |-> i - 1, pgrp |-> 0, session |-> 0,
                       leader |-> FALSE, state |-> "RUNNING", signal |-> {}, blocked |-> {}]
  <2>1. i \in Slot /\ ~(i > 1)
    BY <1>1
  <2>2. task[i] = first
    BY <2>1 DEF Init
  <2>3. i \in 0..MaxPid /\ i - 1 \in -1..MaxPid
    BY <1>1, <2>1
  <2>4. first \in TaskStruct
    BY <1>1, <2>3 DEF TaskStruct
  <2>5. /\ first.pid = i /\ first.father = i - 1 /\ first.pgrp = 0 /\ first.session = 0
        /\ first.leader = FALSE /\ first.state = "RUNNING" /\ first.signal = {}
    OBVIOUS
  <2> HIDE DEF first
  <2> QED BY <2>2, <2>4, <2>5, ProcessLifeAssumption
<1>4. Used = {0, 1}
  BY <1>1, <1>2, <1>3 DEF Used
<1>5. TypeOK
  <2>1. \A i \in Slot : task[i] \in TaskStruct \union {NULL}
    BY <1>2, <1>3
  <2>2. task = [i \in Slot |-> task[i]]
    BY DEF Init
  <2>3. task \in [Slot -> TaskStruct \union {NULL}]
    BY <2>1, <2>2
  <2> QED BY <1>1, <2>3 DEF Init, TypeOK
<1>6. UniquePid
  BY <1>3, <1>4 DEF UniquePid
<1>7. FatherIsAlive
  BY <1>4 DEF FatherIsAlive
<1>8. InitLives
  <2>1. pc[0] # "exit" /\ pc[1] # "exit"
    BY <1>1 DEF Init
  <2>2. 0 - 1 = -1 /\ 1 - 1 = 0
    OBVIOUS
  <2> QED BY <1>3, <2>1, <2>2 DEF InitLives
<1>9. LeadersHaveSessions
  BY <1>3, <1>4 DEF LeadersHaveSessions
<1>10. ZombiesHaveExited
  BY <1>3, <1>4 DEF ZombiesHaveExited
<1> QED BY <1>5, <1>6, <1>7, <1>8, <1>9, <1>10 DEF IInv

LEMMA StepIInv == IInv /\ [Next]_vars => IInv'
<1> SUFFICES ASSUME IInv, [Next]_vars PROVE IInv'
  OBVIOUS
<1> USE DEF IInv
<1>1. ASSUME NEW t \in Slot, NEW label, At(t, label)
      PROVE  /\ t \in Used \ {0} /\ pc[t] = label
             /\ task[t] \in TaskStruct /\ task[t].state # "ZOMBIE"
  BY <1>1 DEF At, Runnable, Used, TypeOK
<1>2. Like(task)
  BY DEF Like, TypeOK, Tasks
<1>3. ASSUME NEW t \in Used, NEW S \in SUBSET Signal
      PROVE  Like([task EXCEPT ![t].signal = @ \ S])
  <2> DEFINE new == [task[t] EXCEPT !.signal = @ \ S]
             tk == [task EXCEPT ![t].signal = @ \ S]
  <2>1. t \in Slot /\ task[t] \in TaskStruct
    BY DEF Used, TypeOK
  <2>2. /\ new \in TaskStruct /\ new.signal \subseteq task[t].signal
        /\ new.pid = task[t].pid /\ new.father = task[t].father
        /\ new.pgrp = task[t].pgrp /\ new.session = task[t].session
        /\ new.leader = task[t].leader /\ new.state = task[t].state
    BY <2>1 DEF TaskStruct
  <2>3. tk = [task EXCEPT ![t] = new]
    OBVIOUS
  <2> HIDE DEF new, tk
  <2>4. tk \in Tasks /\ tk[t] = new /\ \A i \in Slot \ {t} : tk[i] = task[i]
    BY <2>1, <2>2, <2>3 DEF TypeOK, Tasks
  <2>5. Like(tk)
    BY <2>1, <2>2, <2>4, ProcessLifeAssumption DEF Like
  <2> QED BY <2>5 DEF tk
<1>4. ASSUME TypeOK, task' \in Tasks, last_pid' \in Pid, arg' = arg,
             pc' \in [Slot -> {"user", "wait", "exit", "fork"}], shell' \in 0..MaxPid
      PROVE  TypeOK'
  BY <1>4 DEF TypeOK, Tasks
<1>5. CASE InitForks
  <2>1. 1 \in Used \ {0} /\ pc[1] # "exit"
    BY <1>5, SlotFacts DEF InitLives, Used
  <2>2. \A i \in Slot : pc'[i] = "exit" <=> pc[i] = "exit"
    BY <1>5, <2>1 DEF InitForks, At, TypeOK
  <2>3. /\ task' \in Tasks /\ last_pid' \in Pid
        /\ UniquePid' /\ FatherIsAlive' /\ InitLives'
        /\ LeadersHaveSessions' /\ ZombiesHaveExited'
    BY <1>5, <2>1, <2>2, ForkKeeps DEF InitForks
  <2>4. /\ pc' \in [Slot -> {"user", "wait", "exit", "fork"}]
        /\ shell' \in 0..MaxPid /\ arg' = arg
    <3>1. pc' = [pc EXCEPT ![1] = "user"] /\ shell' = last_pid' /\ arg' = arg
      BY <1>5 DEF InitForks
    <3>2. last_pid' \in 0..MaxPid
      BY <2>3, ProcessLifeAssumption DEF Pid
    <3> QED BY <3>1, <3>2 DEF TypeOK
  <2> QED BY <1>4, <2>3, <2>4
<1>6. ASSUME NEW t \in Slot, ForkFails(t), UNCHANGED <<pc, arg, shell>>
      PROVE  IInv'
  <2>1. last_pid' \in Pid
    BY <1>6, PidAfterType DEF ForkFails, TakePid, TypeOK
  <2>2. task' = task /\ UNCHANGED <<pc, arg, shell>>
    BY <1>6 DEF ForkFails
  <2> QED BY <2>1, <2>2 DEF TypeOK, UniquePid, FatherIsAlive, InitLives, LeadersHaveSessions,
                         ZombiesHaveExited, Used
<1>7. CASE InitForkFails
  BY <1>6, <1>7, SlotFacts DEF InitForkFails
<1>8. ASSUME NEW t \in Slot, Fork(t)
      PROVE  IInv'
  <2>1. t \in Used \ {0} /\ pc[t] # "exit" /\ UNCHANGED <<pc, arg, shell>>
    BY <1>1, <1>8 DEF Fork
  <2>2. CASE fork(t)
    <3>1. /\ task' \in Tasks /\ last_pid' \in Pid
          /\ UniquePid' /\ FatherIsAlive' /\ InitLives'
          /\ LeadersHaveSessions' /\ ZombiesHaveExited'
      BY <2>1, <2>2, ForkKeeps
    <3> QED BY <1>4, <2>1, <3>1 DEF TypeOK
  <2>3. CASE ForkFails(t)
    BY <1>6, <2>1, <2>3
  <2> QED BY <1>8, <2>2, <2>3 DEF Fork
<1>9. ASSUME NEW t \in Used \ {0, 1}, NEW tk, Like(tk), BeginsToExit(t, tk),
             UNCHANGED <<last_pid, arg, shell>>
      PROVE  IInv'
  <2>1. pc' \in [Slot -> {"user", "wait", "exit", "fork"}]
    BY <1>9 DEF BeginsToExit, TypeOK
  <2> QED BY <1>4, <1>9, <2>1, ExitKeeps DEF TypeOK
<1>10. ASSUME NEW t \in Slot, Exit(t)
       PROVE  IInv'
  BY <1>1, <1>2, <1>9, <1>10 DEF Exit
<1>11. ASSUME NEW t \in Slot, sys_waitpid(t)
       PROVE  IInv'
  <2>1. WaitArguments \subseteq (-MaxPid)..MaxPid /\ -1 \in (-MaxPid)..MaxPid
    BY ProcessLifeAssumption DEF WaitArguments, Pid
  <2>2. PICK p \in (-MaxPid)..MaxPid : WaitRound(t, p, task)
    BY <1>11, <2>1 DEF sys_waitpid
  <2>3. t \in Used \ {0} /\ pc[t] # "exit" /\ UNCHANGED <<last_pid, shell>>
    BY <1>1, <1>11 DEF sys_waitpid
  <2> QED BY <1>2, <2>2, <2>3, WaitKeeps
<1>12. ASSUME NEW t \in Slot, Kill(t)
       PROVE  IInv'
  BY <1>12, KillKeeps
<1>13. ASSUME NEW t \in Slot, sys_ssetmask(t)
       PROVE  IInv'
  <2>1. t \in Used \ {0, 1} /\ task[t] \in TaskStruct /\ UNCHANGED <<last_pid, pc, arg, shell>>
    BY <1>1, <1>13 DEF sys_ssetmask
  <2>2. PICK mask \in SUBSET MayBlock : task' = [task EXCEPT ![t].blocked = mask]
    BY <1>13 DEF sys_ssetmask
  <2> DEFINE new == [task[t] EXCEPT !.blocked = mask]
  <2>3. /\ new \in TaskStruct /\ new.pid = task[t].pid /\ new.father = task[t].father
        /\ new.state = task[t].state /\ new.leader = task[t].leader
        /\ new.session = task[t].session
    BY <2>1, ProcessLifeAssumption DEF TaskStruct, Signal
  <2>4. task' = [task EXCEPT ![t] = new]
    BY <2>2
  <2> HIDE DEF new
  <2> QED BY <2>1, <2>3, <2>4, ChangeKeeps DEF TypeOK, LeadersHaveSessions
<1>14. ASSUME NEW t \in Slot, sys_setpgid(t)
       PROVE  IInv'
  <2>1. t \in Used \ {0, 1} /\ UNCHANGED <<last_pid, pc, arg, shell>>
    BY <1>1, <1>14 DEF sys_setpgid
  <2>2. PICK i \in {t} \union ChildrenOf(task, t), g \in Groups :
          ~task[i].leader /\ task' = [task EXCEPT ![i].pgrp = g]
    BY <1>14 DEF sys_setpgid
  <2>3. i \in Used \ {0, 1} /\ task[i] \in TaskStruct
    <3>1. task[t].pid \notin {0, 1}
      BY <2>1, SlotFacts DEF InitLives, UniquePid, Used
    <3>2. i \in Used /\ task[i] \in TaskStruct
      BY <2>1, <2>2 DEF ChildrenOf, Used, TypeOK
    <3>3. task[t].pid \in 0..MaxPid
      BY <2>1 DEF Used, TypeOK, TaskStruct
    <3>4. 0 \notin ChildrenOf(task, t) /\ 1 \notin ChildrenOf(task, t)
      BY <3>1, <3>3 DEF ChildrenOf, InitLives
    <3> QED BY <2>1, <2>2, <3>2, <3>4
  <2> DEFINE new == [task[i] EXCEPT !.pgrp = g]
  <2>4. /\ new \in TaskStruct /\ new.pid = task[i].pid /\ new.father = task[i].father
        /\ new.state = task[i].state /\ new.leader = task[i].leader
        /\ new.session = task[i].session
    <3>1. g \in 0..MaxPid
      BY ProcessLifeAssumption DEF Pid
    <3> QED BY <2>3, <3>1 DEF TaskStruct
  <2>5. task' = [task EXCEPT ![i] = new]
    BY <2>2
  <2> HIDE DEF new
  <2> QED BY <2>1, <2>3, <2>4, <2>5, ChangeKeeps DEF TypeOK, LeadersHaveSessions
<1>15. ASSUME NEW t \in Slot, sys_setsid(t)
       PROVE  IInv'
  <2>1. t \in Used \ {0, 1} /\ task[t] \in TaskStruct /\ UNCHANGED <<last_pid, pc, arg, shell>>
    BY <1>1, <1>15 DEF sys_setsid
  <2>2. task[t].pid # 0 /\ task[t].pid \in 0..MaxPid
    BY <2>1, SlotFacts DEF InitLives, UniquePid, Used, TaskStruct
  <2> DEFINE new == [task[t] EXCEPT !.leader = TRUE, !.session = task[t].pid,
                                    !.pgrp = task[t].pid]
  <2>3. /\ new \in TaskStruct /\ new.pid = task[t].pid /\ new.father = task[t].father
        /\ new.state = task[t].state /\ new.session = task[t].pid
    BY <2>1, <2>2 DEF TaskStruct
  <2>4. task' = [task EXCEPT ![t] = new]
    BY <1>15 DEF sys_setsid
  <2> HIDE DEF new
  <2> QED BY <2>1, <2>2, <2>3, <2>4, ChangeKeeps DEF TypeOK
<1>16. ASSUME NEW t \in Slot, ExitEnds(t)
       PROVE  IInv'
  BY <1>16, ExitEndsKeeps
<1>17. ASSUME NEW t \in Slot, WakesUp(t)
       PROVE  IInv'
  <2> DEFINE heard == [task EXCEPT ![t].signal = @ \ {"SIGCHLD"}]
  <2>1. t \in Used \ {0} /\ pc[t] # "exit" /\ UNCHANGED <<last_pid, shell>>
    BY <1>1, <1>17 DEF WakesUp
  <2>2. Like(heard)
    BY <1>3, <2>1 DEF Signal
  <2>3. arg[t] \in (-MaxPid)..MaxPid
    BY DEF TypeOK
  <2>4. CASE WaitRound(t, arg[t], heard)
    BY <2>1, <2>2, <2>3, <2>4, WaitKeeps
  <2>5. CASE /\ task' = [heard EXCEPT ![t].state = "RUNNING"]
             /\ pc' = [pc EXCEPT ![t] = "user"]
             /\ arg' = [arg EXCEPT ![t] = 0]
    \* The end of the call changes what NoChild() changes.
    <3> DEFINE new == [heard[t] EXCEPT !.state = "RUNNING"]
    <3>1. heard[t] \in TaskStruct /\ heard[t] = [task[t] EXCEPT !.signal = @ \ {"SIGCHLD"}]
      BY <2>1, <2>2 DEF Like, Tasks, TypeOK, Used
    <3>2. /\ new \in TaskStruct /\ new.pid = task[t].pid /\ new.father = task[t].father
          /\ new.state = "RUNNING" /\ new.leader = task[t].leader
          /\ new.session = task[t].session /\ new.pgrp = task[t].pgrp
          /\ new.signal \subseteq task[t].signal
      <4>1. task[t] \in TaskStruct
        BY <2>1 DEF TypeOK, Used
      <4> QED BY <3>1, <4>1 DEF TaskStruct
    <3>3. task' = [task EXCEPT ![t] = new]
      BY <2>5
    <3> HIDE DEF new
    <3>4. /\ pc' \in [Slot -> {"user", "wait", "exit", "fork"}]
          /\ \A j \in Slot : pc'[j] = "exit" <=> pc[j] = "exit"
      BY <2>1, <2>5 DEF TypeOK
    <3>5. arg' \in [Slot -> (-MaxPid)..MaxPid]
      <4>1. 0 \in (-MaxPid)..MaxPid
        BY ProcessLifeAssumption
      <4> QED BY <2>5, <4>1 DEF TypeOK
    <3>6. /\ new.leader => new.session # 0
          /\ t = 1 => new.pgrp = 0 /\ new.session = 0 /\ new.signal \subseteq {"SIGCHLD"}
      BY <2>1, <3>2 DEF LeadersHaveSessions, InitLives
    <3> QED BY <2>1, <3>2, <3>3, <3>4, <3>5, <3>6, ChangeKeeps
  <2> QED BY <1>17, <2>4, <2>5 DEF WakesUp
<1>18. ASSUME NEW t \in Slot, DoSignal(t)
       PROVE  IInv'
  <2> DEFINE pending == task[t].signal \ task[t].blocked
             taken == IF "SIGHUP" \in pending THEN "SIGHUP"
                      ELSE IF "SIGKILL" \in pending THEN "SIGKILL" ELSE "SIGCHLD"
             rest == [task EXCEPT ![t].signal = @ \ {taken}]
  <2>1. /\ t \in Used \ {0} /\ task[t] \in TaskStruct /\ pc[t] # "exit"
        /\ pending # {} /\ UNCHANGED <<last_pid, arg, shell>>
    BY <1>1, <1>18 DEF DoSignal
  <2>2. Like(rest)
    BY <1>3, <2>1 DEF Signal
  <2>3. CASE taken # "SIGCHLD" /\ BeginsToExit(t, rest)
    <3>1. t # 1
      BY <2>1, <2>3 DEF InitLives
    <3> QED BY <1>9, <2>1, <2>2, <2>3, <3>1
  <2>4. CASE task' = rest /\ UNCHANGED pc
    <3> DEFINE new == [task[t] EXCEPT !.signal = @ \ {taken}]
    <3>1. /\ new \in TaskStruct /\ new.pid = task[t].pid /\ new.father = task[t].father
          /\ new.state = task[t].state /\ new.leader = task[t].leader
          /\ new.session = task[t].session /\ new.pgrp = task[t].pgrp
          /\ new.signal \subseteq task[t].signal
      BY <2>1 DEF TaskStruct
    <3>2. task' = [task EXCEPT ![t] = new]
      BY <2>4
    <3> HIDE DEF new
    <3>3. /\ new.leader => new.session # 0
          /\ t = 1 => new.pgrp = 0 /\ new.session = 0 /\ new.signal \subseteq {"SIGCHLD"}
      BY <2>1, <3>1 DEF LeadersHaveSessions, InitLives
    <3>4. /\ pc' \in [Slot -> {"user", "wait", "exit", "fork"}]
          /\ \A j \in Slot : pc'[j] = "exit" <=> pc[j] = "exit"
          /\ arg' \in [Slot -> (-MaxPid)..MaxPid]
      BY <2>1, <2>4 DEF TypeOK
    <3> HIDE DEF pending, taken, rest
    <3> QED BY <2>1, <3>1, <3>2, <3>3, <3>4, ChangeKeeps
  <2> QED BY <1>18, <2>3, <2>4 DEF DoSignal
<1>19. CASE UNCHANGED vars
  BY <1>19 DEF vars, TypeOK, UniquePid, FatherIsAlive, InitLives, LeadersHaveSessions,
               ZombiesHaveExited, Used
<1> QED BY <1>5, <1>7, <1>8, <1>10, <1>11, <1>12, <1>13, <1>14, <1>15, <1>16, <1>17, <1>18, <1>19
        DEF Next, Call, InKernel

\* The tables of fork.c and exit.c stay within their types: pids, fathers,
\* groups and sessions are between 0 and the highest pid.
THEOREM TypeCorrect == Spec => []TypeOK
<1>1. IInv => TypeOK
  BY DEF IInv
<1> QED BY InitIInv, StepIInv, <1>1, PTL DEF Spec

\* find_empty_process() gives no pid out twice, however often last_pid has
\* begun again.
THEOREM PidsAreUnique == Spec => []UniquePid
<1>1. IInv => UniquePid
  BY DEF IInv
<1> QED BY InitIInv, StepIInv, <1>1, PTL DEF Spec

\* do_exit() leaves no child without a father that will hear of it.
THEOREM FathersAreAlive == Spec => []FatherIsAlive
<1>1. IInv => FatherIsAlive
  BY DEF IInv
<1> QED BY InitIInv, StepIInv, <1>1, PTL DEF Spec
\* Task 0 stays where it is.
LEMMA StepPauses == ZeroPauses /\ IInv /\ [Next]_vars => ZeroPauses'
<1> SUFFICES ASSUME ZeroPauses, IInv, [Next]_vars PROVE pc'[0] = pc[0]
  BY DEF ZeroPauses
<1>1. pc \in [Slot -> {"user", "wait", "exit", "fork"}] /\ 0 \in Slot
  BY SlotFacts DEF IInv, TypeOK
<1>2. ASSUME NEW t \in Slot, NEW p, NEW tk, t # 0, WaitRound(t, p, tk)
      PROVE  pc'[0] = pc[0]
  <2>1. CASE Reap(t, p, tk)
    BY <1>1, <1>2, <2>1 DEF Reap, Zombies, WaitsFor
  <2>2. CASE SleepForChild(t, p, tk) \/ NoChild(t, p, tk)
    BY <1>1, <1>2, <2>2 DEF SleepForChild, NoChild
  <2> QED BY <1>2, <2>1, <2>2 DEF WaitRound
<1>3. ASSUME NEW t \in Slot, sys_waitpid(t) PROVE pc'[0] = pc[0]
  BY <1>2, <1>3 DEF sys_waitpid, At
<1>4. ASSUME NEW t \in Slot, WakesUp(t) PROVE pc'[0] = pc[0]
  BY <1>1, <1>2, <1>4, Zenon DEF WakesUp, At
<1>5. ASSUME NEW t \in Slot, Exit(t) \/ DoSignal(t) PROVE pc'[0] = pc[0]
  BY <1>1, <1>5 DEF Exit, DoSignal, BeginsToExit, At
<1>6. ASSUME NEW t \in Slot,
             \/ Fork(t) \/ Kill(t) \/ sys_ssetmask(t) \/ sys_setpgid(t) \/ sys_setsid(t)
             \/ ExitEnds(t)
      PROVE  pc'[0] = pc[0]
  BY <1>6 DEF Fork, Kill, sys_ssetmask, sys_setpgid, sys_setsid, ExitEnds
<1>7. CASE InitForks \/ InitForkFails \/ UNCHANGED vars
  BY <1>1, <1>7 DEF InitForks, InitForkFails, vars
<1> QED BY <1>3, <1>4, <1>5, <1>6, <1>7 DEF Next, Call, InKernel

\* Every step keeps WaiterIsTold.
LEMMA StepTells == IInv /\ ZeroPauses /\ WaiterIsTold /\ [Next]_vars => WaiterIsTold'
<1> SUFFICES ASSUME IInv, ZeroPauses, WaiterIsTold, [Next]_vars PROVE WaiterIsTold'
  OBVIOUS
<1>1. ASSUME NEW t \in Slot, NEW label, At(t, label)
      PROVE  /\ t \in Used \ {0} /\ pc[t] = label
             /\ task[t] \in TaskStruct /\ task[t].state # "ZOMBIE"
  BY <1>1 DEF At, Runnable, Used, IInv, TypeOK
<1>2. Like(task)
  BY DEF Like, IInv, TypeOK, Tasks
<1>3. ASSUME NEW t \in Used, NEW S \in SUBSET Signal
      PROVE  Like([task EXCEPT ![t].signal = @ \ S])
  <2> DEFINE new == [task[t] EXCEPT !.signal = @ \ S]
             tk == [task EXCEPT ![t].signal = @ \ S]
  <2>1. t \in Slot /\ task[t] \in TaskStruct
    BY DEF Used, IInv, TypeOK
  <2>2. /\ new \in TaskStruct /\ new.signal \subseteq task[t].signal
        /\ new.pid = task[t].pid /\ new.father = task[t].father
        /\ new.pgrp = task[t].pgrp /\ new.session = task[t].session
        /\ new.leader = task[t].leader /\ new.state = task[t].state
    BY <2>1 DEF TaskStruct
  <2>3. tk = [task EXCEPT ![t] = new]
    OBVIOUS
  <2> HIDE DEF new, tk
  <2>4. tk \in Tasks /\ tk[t] = new /\ \A i \in Slot \ {t} : tk[i] = task[i]
    BY <2>1, <2>2, <2>3 DEF IInv, TypeOK, Tasks
  <2>5. Like(tk)
    BY <2>1, <2>2, <2>4, ProcessLifeAssumption DEF Like
  <2> QED BY <2>5 DEF tk
<1>4. CASE InitForks
  <2>1. 1 \in Used \ {0}
    BY SlotFacts DEF IInv, InitLives, Used
  <2>2. /\ \A i \in Slot : pc'[i] = "wait" => pc[i] = "wait"
        /\ arg' = arg
    BY <1>4 DEF InitForks, IInv, TypeOK
  <2> QED BY <1>4, <2>1, <2>2, ForkTells DEF InitForks
<1>5. ASSUME task' = task, pc' = pc, arg' = arg
      PROVE  WaiterIsTold'
  BY <1>5, ToldKept DEF StillWaits, WasZombie, NoNewZombies
<1>6. CASE InitForkFails
  BY <1>5, <1>6 DEF InitForkFails, ForkFails
<1>7. ASSUME NEW t \in Slot, Fork(t)
      PROVE  WaiterIsTold'
  <2>1. t \in Used \ {0} /\ pc' = pc /\ arg' = arg
    BY <1>1, <1>7 DEF Fork
  <2>2. CASE fork(t)
    BY <2>1, <2>2, ForkTells
  <2>3. CASE ForkFails(t)
    BY <1>5, <2>1, <2>3 DEF ForkFails
  <2> QED BY <1>7, <2>2, <2>3 DEF Fork
<1>8. ASSUME NEW t \in Slot, Exit(t)
      PROVE  WaiterIsTold'
  BY <1>1, <1>2, <1>8, ExitTells DEF Exit
<1>9. ASSUME NEW t \in Slot, sys_waitpid(t)
      PROVE  WaiterIsTold'
  <2>1. WaitArguments \subseteq (-MaxPid)..MaxPid /\ -1 \in (-MaxPid)..MaxPid
    BY ProcessLifeAssumption DEF WaitArguments, Pid
  <2>2. PICK p \in (-MaxPid)..MaxPid : WaitRound(t, p, task)
    BY <1>9, <2>1 DEF sys_waitpid
  <2>3. t \in Used \ {0}
    BY <1>1, <1>9 DEF sys_waitpid
  <2> QED BY <1>2, <2>2, <2>3, WaitTells
<1>10. ASSUME NEW t \in Slot, Kill(t)
       PROVE  WaiterIsTold'
  BY <1>10, KillTells
<1>11. ASSUME NEW t \in Slot, sys_ssetmask(t)
       PROVE  WaiterIsTold'
  <2>1. t \in Used /\ task[t] \in TaskStruct /\ UNCHANGED <<last_pid, pc, arg, shell>>
    BY <1>1, <1>11 DEF sys_ssetmask
  <2>2. PICK mask \in SUBSET MayBlock : task' = [task EXCEPT ![t].blocked = mask]
    BY <1>11 DEF sys_ssetmask
  <2> DEFINE new == [task[t] EXCEPT !.blocked = mask]
  <2>3. /\ new \in TaskStruct /\ new.pid = task[t].pid /\ new.father = task[t].father
        /\ new.state = task[t].state /\ new.signal = task[t].signal
    BY <2>1, ProcessLifeAssumption DEF TaskStruct, Signal
  <2>4. task' = [task EXCEPT ![t] = new]
    BY <2>2
  <2> HIDE DEF new
  <2> QED BY <2>1, <2>3, <2>4, ChangeTells
<1>12. ASSUME NEW t \in Slot, sys_setpgid(t)
       PROVE  WaiterIsTold'
  <2>1. t \in Used /\ UNCHANGED <<last_pid, pc, arg, shell>>
    BY <1>1, <1>12 DEF sys_setpgid
  <2>2. PICK i \in {t} \union ChildrenOf(task, t), g \in Groups :
          task' = [task EXCEPT ![i].pgrp = g]
    BY <1>12 DEF sys_setpgid
  <2>3. i \in Used /\ task[i] \in TaskStruct
    BY <2>1, <2>2 DEF ChildrenOf, Used, IInv, TypeOK
  <2> DEFINE new == [task[i] EXCEPT !.pgrp = g]
  <2>4. /\ new \in TaskStruct /\ new.pid = task[i].pid /\ new.father = task[i].father
        /\ new.state = task[i].state /\ new.signal = task[i].signal
    <3>1. g \in 0..MaxPid
      BY ProcessLifeAssumption DEF Pid
    <3> QED BY <2>3, <3>1 DEF TaskStruct
  <2>5. task' = [task EXCEPT ![i] = new]
    BY <2>2
  <2> HIDE DEF new
  <2> QED BY <2>1, <2>3, <2>4, <2>5, ChangeTells
<1>13. ASSUME NEW t \in Slot, sys_setsid(t)
       PROVE  WaiterIsTold'
  <2>1. t \in Used \ {0} /\ task[t] \in TaskStruct /\ UNCHANGED <<last_pid, pc, arg, shell>>
    BY <1>1, <1>13 DEF sys_setsid
  <2>2. task[t].pid \in 0..MaxPid
    BY <2>1, SlotFacts DEF IInv, InitLives, UniquePid, Used, TaskStruct
  <2> DEFINE new == [task[t] EXCEPT !.leader = TRUE, !.session = task[t].pid,
                                    !.pgrp = task[t].pid]
  <2>3. /\ new \in TaskStruct /\ new.pid = task[t].pid /\ new.father = task[t].father
        /\ new.state = task[t].state /\ new.signal = task[t].signal
    BY <2>1, <2>2 DEF TaskStruct
  <2>4. task' = [task EXCEPT ![t] = new]
    BY <1>13 DEF sys_setsid
  <2> HIDE DEF new
  <2> QED BY <2>1, <2>3, <2>4, ChangeTells
<1>14. ASSUME NEW t \in Slot, ExitEnds(t)
       PROVE  WaiterIsTold'
  BY <1>14, ExitEndsTells
<1>15. ASSUME NEW t \in Slot, WakesUp(t)
       PROVE  WaiterIsTold'
  <2> DEFINE heard == [task EXCEPT ![t].signal = @ \ {"SIGCHLD"}]
  <2>1. t \in Used \ {0} /\ task[t] \in TaskStruct /\ task[t].state # "ZOMBIE"
    BY <1>1, <1>15 DEF WakesUp
  <2>2. Like(heard)
    BY <1>3, <2>1 DEF Signal
  <2>3. \A i \in Slot \ {t} : heard[i] = task[i]
    BY DEF IInv, TypeOK
  <2>4. arg[t] \in (-MaxPid)..MaxPid
    BY <2>1 DEF IInv, TypeOK, Used
  <2>5. CASE WaitRound(t, arg[t], heard)
    <3> HIDE DEF heard
    <3> QED BY <2>1, <2>2, <2>4, <2>5, <2>3, WaitTells
  <2>6. CASE /\ task' = [heard EXCEPT ![t].state = "RUNNING"]
             /\ pc' = [pc EXCEPT ![t] = "user"]
             /\ arg' = [arg EXCEPT ![t] = 0]
    <3> DEFINE changed == [task[t] EXCEPT !.signal = @ \ {"SIGCHLD"}]
               new == [changed EXCEPT !.state = "RUNNING"]
    <3>1. /\ new \in TaskStruct /\ new.pid = task[t].pid /\ new.father = task[t].father
          /\ new.state = "RUNNING"
      BY <2>1 DEF TaskStruct
    <3>2. task' = [task EXCEPT ![t] = new]
      BY <2>1, <2>6 DEF Used
    <3> HIDE DEF new
    <3>3. pc'[t] # "wait" /\ \A j \in Slot \ {t} : pc'[j] = pc[j] /\ arg'[j] = arg[j]
      BY <2>1, <2>6 DEF IInv, TypeOK, Used
    <3> QED BY <2>1, <3>1, <3>2, <3>3, ChangeTells
  <2> QED BY <1>15, <2>5, <2>6 DEF WakesUp
<1>16. ASSUME NEW t \in Slot, DoSignal(t)
       PROVE  WaiterIsTold'
  <2> DEFINE pending == task[t].signal \ task[t].blocked
             taken == IF "SIGHUP" \in pending THEN "SIGHUP"
                      ELSE IF "SIGKILL" \in pending THEN "SIGKILL" ELSE "SIGCHLD"
             rest == [task EXCEPT ![t].signal = @ \ {taken}]
  <2>1. /\ t \in Used \ {0} /\ task[t] \in TaskStruct /\ pc[t] = "user"
        /\ pending # {} /\ arg' = arg
    BY <1>1, <1>16 DEF DoSignal
  <2>2. Like(rest)
    BY <1>3, <2>1 DEF Signal
  <2>3. \A i \in Slot \ {t} : rest[i] = task[i]
    BY DEF IInv, TypeOK
  <2>4. CASE taken # "SIGCHLD" /\ BeginsToExit(t, rest)
    <3>1. t # 1
      BY <2>1, <2>4 DEF IInv, InitLives
    <3> HIDE DEF rest
    <3> QED BY <2>1, <2>2, <2>4, <2>3, <3>1, ExitTells
  <2>5. CASE task' = rest /\ UNCHANGED pc
    <3> DEFINE new == [task[t] EXCEPT !.signal = @ \ {taken}]
    <3>1. /\ new \in TaskStruct /\ new.pid = task[t].pid /\ new.father = task[t].father
          /\ new.state = task[t].state
      BY <2>1 DEF TaskStruct
    <3>2. task' = [task EXCEPT ![t] = new]
      BY <2>5
    <3> HIDE DEF new, pending, taken, rest
    <3> QED BY <2>1, <2>5, <3>1, <3>2, ChangeTells
  <2> QED BY <1>16, <2>4, <2>5 DEF DoSignal
<1>17. CASE UNCHANGED vars
  BY <1>5, <1>17 DEF vars
<1> QED BY <1>4, <1>6, <1>7, <1>8, <1>9, <1>10, <1>11, <1>12, <1>13, <1>14, <1>15, <1>16, <1>17
        DEF Next, Call, InKernel

\* The SIGCHLD for a zombie is not lost before its father, or process 1, has
\* looked for it: sys_waitpid() drops the signal only before it looks.
THEOREM WaitersAreTold == Spec => []WaiterIsTold
<1>1. Init => WaiterIsTold /\ ZeroPauses
  BY SlotFacts DEF Init, WaiterIsTold, ZeroPauses, Used
<1> QED BY InitIInv, StepIInv, <1>1, StepPauses, StepTells, PTL DEF Spec
==============================================================================
