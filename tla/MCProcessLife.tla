---------------------------- MODULE MCProcessLife ----------------------------
(* Process 1 and two more slots: a father with a child, or two orphans; four *)
(* pids, so that they are given out again; one process group.                *)
EXTENDS ProcessLife

MCHangup == {"SIGHUP"}
MCChild == {"SIGCHLD"}
MCAll == {"waitgroup", "setpgid", "setsid"}
MCNothing == {}
MCGroup == {2}
==============================================================================
