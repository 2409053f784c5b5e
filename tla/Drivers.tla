------------------------------- MODULE Drivers -------------------------------
(***************************************************************************)
(* The block drivers behind blk_dev[]: the hard disk, the floppy and the   *)
(* ramdisk, each alone.  They promise the same to those who make requests. *)
(***************************************************************************)
EXTENDS HardDisk, FloppyDriver

CONSTANT Major  \* the majors that blk_dev[] has: 1 ramdisk, 2 floppy, 3 hard disk

ASSUME DriversAssumption == Major \subseteq 1..3

VARIABLE major  \* the device that requests are for

vars == <<driverVars, hdVars, fdVars, major>>

TypeOK == DriverTypeOK /\ HdTypeOK /\ FdTypeOK /\ major \in Major

\* Of the three drivers only hd.c begins with a reset.
Init ==
  /\ major \in Major
  /\ queue = <<>>
  /\ result = [r \in Id |-> "none"]
  /\ reset = (major = 3)
  /\ recalibrate = (major = 3)
  /\ running = "idle"
  /\ HdInit
  /\ FdInit

\* One round of do_rd_request(): the data are copied at once.
do_rd_request ==
  /\ running \in {"request", "repeat"}
  /\ \/ queue = <<>> /\ running' = "idle" /\ UNCHANGED <<queue, result>>
     \/ /\ queue # <<>>
        /\ end_request(CURRENT.block # TooFar, Sector)
        /\ running' = "repeat"
  /\ UNCHANGED <<reset, recalibrate>>

RdNext == do_rd_request \/ \E r \in NewRequest : r.block \in {0, TooFar} /\ AddRequest(r)

Next ==
  /\ \/ major = 1 /\ RdNext /\ UNCHANGED <<hdVars, fdVars>>
     \/ major = 2 /\ FdNext /\ UNCHANGED hdVars
     \/ major = 3 /\ HdNext /\ UNCHANGED fdVars
  /\ UNCHANGED major

Spec == Init /\ [][Next]_vars

\* The driver's code runs on, the clock ticks, and the controller ends every
\* command it has taken: there is no timeout in any of the drivers.
Fairness ==
  /\ WF_vars(major = 1 /\ do_rd_request /\ UNCHANGED <<hdVars, fdVars, major>>)
  /\ WF_vars(major = 2 /\ (FdRuns \/ FdClock) /\ UNCHANGED <<hdVars, major>>)
  /\ WF_vars(major = 2 /\ FdHandler /\ UNCHANGED <<hdVars, major>>)
  /\ WF_vars(major = 3 /\ (do_hd_request \/ HdInterrupt) /\ UNCHANGED <<fdVars, major>>)

FairSpec == Spec /\ Fairness

-----------------------------------------------------------------------------
(* Properties *)

\* What a driver says it has transferred it has transferred: every sector,
\* between its place on the right drive and its place in the buffer, also
\* when errors, resets and other requests came in between.
NeverLies == \A r \in Id : result[r] # "wrong"

\* While there are requests the driver is waiting for exactly one thing, an
\* interrupt or a timer: with none it would be silent for ever, as there is
\* no timeout, and with two it would work on one request twice.
Waits ==
  (IF major = 2 THEN Cardinality(fdc) ELSE IF device.op # "none" THEN 1 ELSE 0)
  + Len(next_timer)

WaitsForOneThing ==
  /\ TypeOK
  /\ running = "idle" /\ ~ticking => Waits <= 1 /\ (queue # <<>> => Waits = 1)

\* Commands are given to a drive whose motor is on and which is selected:
\* "This routine is called when everything should be correctly set up for the
\* transfer (ie floppy motor is on and the correct floppy is selected)".  The
\* motor has spun up: what may be left are the two ticks that a selection
\* takes, when processes have taken the drive away and given it back while the
\* request waited.  And a drive that is selected, for which others wait, is
\* selected for a transfer: it does not stay so when the work is done or given up.
SetUpForTransfer ==
  /\ running = "transfer" => /\ current_DOR.drive = current_drive
                             /\ current_drive \in current_DOR.motors
                             /\ mon_timer[current_drive] <= 2
                             /\ queue # <<>> => CURRENT.drive = current_drive
  /\ selected => queue # <<>>

\* Every request is ended, well or with an error, although every error starts
\* it again and there is no timeout.  The floppy driver counts the errors of
\* transfers and seeks only: resets and recalibrations that fail follow each
\* other for as long as they do, so this is said of a controller that has
\* calmed down.  hd.c panics when its controller is not ready.
EveryRequestEnds ==
  \A r \in Id :
    result[r] = "queued" /\ (major = 2 => quiet)
      ~> result[r] \in {"ok", "error"} \/ running = "panic"
==============================================================================
