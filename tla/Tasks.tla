-------------------------------- MODULE Tasks --------------------------------
(***************************************************************************)
(* What the two models of kernel/sched.c, WaitQueue.tla and Sched.tla,     *)
(* share: the fields of struct task_struct that both sleeping and the      *)
(* choice of the next task are about.                                      *)
(***************************************************************************)
VARIABLES
  state,   \* task_struct.state
  signal,  \* the pending signals (WaitQueue: is there one that is not blocked?)
  current  \* the running task
==============================================================================
