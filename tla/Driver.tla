-------------------------------- MODULE Driver --------------------------------
(***************************************************************************)
(* kernel/blk_drv/blk.h: what the three block drivers have in common.      *)
(* Each has a chain of requests, of which the first, CURRENT, is being     *)
(* worked on, and a request function that starts the next transfer.        *)
(*                                                                         *)
(* Driver code runs from label to label (running) without being disturbed; *)
(* between two runs a driver waits for an interrupt or a timer.            *)
(***************************************************************************)
EXTENDS Integers, Sequences

CONSTANTS
  Id,          \* numbers of the requests, in the order in which they are made
  Drive,       \* the drives of a controller
  Track,       \* where on a drive a block is; track 0 exists
  TooFar,      \* a block behind the end of the drive
  Asked        \* what is asked for: the drives and blocks of each request

ASSUME DriverAssumption ==
  /\ Id \subseteq Nat \ {0}
  /\ 0 \in Drive
  /\ 0 \in Track /\ TooFar \notin Track
  /\ Asked \in [Id -> SUBSET (Drive \X (Track \union {TooFar}))]

VARIABLES
  queue,        \* current_request and its next chain
  result,       \* how each request has ended
  reset,        \* the controller is to be reset
  recalibrate,  \* the heads are to be moved to track 0
  running       \* the label the driver is at; "idle": it has returned; "panic":
                \* panic() has been called, and nothing runs any more

driverVars == <<queue, result, reset, recalibrate, running>>

\* A block is two sectors; moved are those that have been transferred between
\* the right place of the drive and the right half of the buffer.
Sector == {0, 1}
Request == [id : Id, cmd : {"READ", "WRITE"}, drive : Drive, block : Track \union {TooFar},
            errors : Nat, sector : 0..2, nr_sectors : 0..2, moved : SUBSET Sector]

DriverTypeOK ==
  /\ queue       \in Seq(Request)
  /\ result      \in [Id -> {"none", "queued", "ok", "error", "wrong"}]
  /\ reset       \in BOOLEAN
  /\ recalibrate \in BOOLEAN
  /\ running     \in {"idle", "request", "repeat", "floppy_on_interrupt", "transfer", "panic"}

CURRENT == Head(queue)

\* The queue with CURRENT changed to r.
WithCurrent(r) == <<r>> \o Tail(queue)

\* end_request(uptodate): CURRENT moves on.  A request that is ended well has
\* been transferred, or the driver has lied to those who wait for it.
end_request(uptodate, moved) ==
  /\ queue' = Tail(queue)
  /\ result' = [result EXCEPT ![CURRENT.id] =
                  IF ~uptodate THEN "error" ELSE IF moved = Sector THEN "ok" ELSE "wrong"]

\* Mutation: the request function is called for every request.
AddRequestCalls(r) ==
  /\ running = "idle"
  /\ \A i \in Id : result[i] = "none" <=> i >= r.id
  /\ result' = [result EXCEPT ![r.id] = "queued"]
  /\ queue' = Append(queue, r)
  /\ running' = "request"
  /\ UNCHANGED <<reset, recalibrate>>

\* add_request(): behind CURRENT, where the elevator says; the request
\* function is called when the driver had nothing to do.
AddRequest(r) ==
  /\ running = "idle"
  /\ \A i \in Id : result[i] = "none" <=> i >= r.id
  /\ result' = [result EXCEPT ![r.id] = "queued"]
  /\ \/ queue = <<>> /\ queue' = <<r>> /\ running' = "request"
     \/ /\ queue # <<>>
        /\ \E i \in 1..Len(queue) :
             queue' = SubSeq(queue, 1, i) \o <<r>> \o SubSeq(queue, i + 1, Len(queue))
        /\ UNCHANGED running
  /\ UNCHANGED <<reset, recalibrate>>

NewRequest ==
  {r \in [id : Id, cmd : {"READ", "WRITE"}, drive : Drive, block : Track \union {TooFar},
          errors : {0}, sector : {0}, nr_sectors : {2}, moved : {{}}] :
     <<r.drive, r.block>> \in Asked[r.id]}
==============================================================================
