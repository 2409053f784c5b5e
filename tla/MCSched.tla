------------------------------- MODULE MCSched -------------------------------
(* Two tasks beside the idle one with at most two ticks each, so that        *)
(* counters run out in every order.  Only the second, which is forked and    *)
(* exits, changes its priority and sets alarms and masks.                    *)
EXTENDS Sched

MCCalls == <<{"kill", "fork"}, {"nice", "alarm", "mask", "exit"}>>
==============================================================================
