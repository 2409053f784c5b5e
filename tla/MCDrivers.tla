------------------------------ MODULE MCDrivers ------------------------------
(* Two requests, two drives with two tracks, one process in floppy_change(). *)
EXTENDS Drivers

CONSTANT p

MCId == {1, 2}
MCDrive == {0, 1}
MCTrack == {0, 1}
\* The first request is for drive 0, perhaps behind its end; the second for
\* the same place, or for the other drive, which the process has to do with.
MCAsked ==
  [i \in MCId |-> IF i = 1 THEN {<<0, 1>>, <<0, TooFar>>} ELSE {<<0, 1>>, <<1, 0>>}]

MCProcess == {p}
MCnr == [q \in MCProcess |-> 1]
MCAllMajors == {1, 2, 3}
MCFloppy == {2}
==============================================================================
