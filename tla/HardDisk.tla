------------------------------- MODULE HardDisk -------------------------------
(***************************************************************************)
(* kernel/blk_drv/hd.c: the hard disk.  do_hd_request() sends a command    *)
(* and says in do_hd who is to take the interrupt; a transfer takes one    *)
(* interrupt per sector.  After an error the rest of the request is tried  *)
(* again, after several the controller is reset and the drive recalibrated *)
(* first.  There is no timeout.                                            *)
(***************************************************************************)
EXTENDS Driver

CONSTANTS
  HD_MAX_ERRORS,  \* MAX_ERRORS of hd.c: a request with as many errors is given up
  LastBlock       \* the last block of a partition

ASSUME HdAssumption ==
  /\ HD_MAX_ERRORS \in Nat \ {0}
  /\ LastBlock \in Track

VARIABLES
  do_hd,  \* the handler of the next interrupt
  device  \* what the controller is doing

hdVars == <<do_hd, device>>

NoCommand == [op |-> "none", drive |-> 0, sector |-> 0, left |-> 0, data |-> 0]
Command == [op : {"none", "specify", "restore", "read", "write"},
            drive : Drive, sector : 0..1, left : 0..2, data : 0..1]

HdTypeOK ==
  /\ do_hd  \in {"none", "recal_intr", "read_intr", "write_intr"}
  /\ device \in Command

\* The driver begins with a reset.
HdInit ==
  /\ do_hd = "none"
  /\ device = NoCommand

\* hd_out(), when it does not panic.
hd_out(op, handler) ==
  /\ do_hd' = handler
  /\ device' = [NoCommand EXCEPT !.op = op, !.drive = CURRENT.drive,
                                 !.sector = CURRENT.sector % 2, !.left = CURRENT.nr_sectors]

-----------------------------------------------------------------------------
(* Errors *)

\* Mutation: errors are not counted.
bad_rw_intr_uncounted ==
  LET errors == CURRENT.errors + 1
  IN  /\ errors < HD_MAX_ERRORS
      /\ reset' = (reset \/ errors > HD_MAX_ERRORS \div 2)
      /\ UNCHANGED <<queue, result>>

\* bad_rw_intr().  After end_request(0) it looks at the errors of the next
\* request, of which there are none yet, or at what is at address 8.
bad_rw_intr ==
  LET errors == CURRENT.errors + 1
  IN  \/ /\ errors >= HD_MAX_ERRORS
         /\ end_request(FALSE, {})
         /\ IF Tail(queue) = <<>> THEN reset' \in {reset, TRUE} ELSE UNCHANGED reset
      \/ /\ errors < HD_MAX_ERRORS
         /\ queue' = WithCurrent([CURRENT EXCEPT !.errors = errors])
         /\ reset' = (reset \/ errors > HD_MAX_ERRORS \div 2)
         /\ UNCHANGED result

-----------------------------------------------------------------------------
(* do_hd_request() *)

AtHdRequest == running \in {"request", "repeat"} /\ queue # <<>>

HdNoRequest ==
  /\ running \in {"request", "repeat"}
  /\ queue = <<>>
  /\ running' = "idle"
  /\ UNCHANGED <<queue, result, reset, recalibrate, hdVars>>

\* CURRENT->sector + 2 is behind the end of the partition.  A request for the
\* last block is so too once its first sector has been transferred: when it
\* is tried again after an error, it fails.
BehindEnd ==
  \/ CURRENT.block = TooFar
  \/ CURRENT.block = LastBlock /\ CURRENT.sector > 0

HdTooFar ==
  /\ AtHdRequest
  /\ BehindEnd
  /\ end_request(FALSE, {})
  /\ running' = "repeat"
  /\ UNCHANGED <<reset, recalibrate, hdVars>>

\* Every command goes through hd_out(), which panics if the controller is
\* not ready.  (What else it checks is the geometry.)
HdPanics ==
  /\ AtHdRequest
  /\ ~BehindEnd
  /\ running' = "panic"
  /\ reset' = FALSE
  /\ recalibrate' = reset
  /\ UNCHANGED <<queue, result, hdVars>>

HdReset ==
  /\ AtHdRequest
  /\ ~BehindEnd
  /\ reset
  /\ reset' = FALSE
  /\ recalibrate' = TRUE
  /\ hd_out("specify", "recal_intr")
  /\ running' = "idle"
  /\ UNCHANGED <<queue, result>>

HdRecalibrate ==
  /\ AtHdRequest
  /\ ~BehindEnd
  /\ ~reset /\ recalibrate
  /\ recalibrate' = FALSE
  /\ hd_out("restore", "recal_intr")
  /\ running' = "idle"
  /\ UNCHANGED <<queue, result, reset>>

Ready == AtHdRequest /\ ~BehindEnd /\ ~reset /\ ~recalibrate

HdRead ==
  /\ Ready /\ CURRENT.cmd = "READ"
  /\ hd_out("read", "read_intr")
  /\ running' = "idle"
  /\ UNCHANGED <<queue, result, reset, recalibrate>>

\* WIN_WRITE and the data of the first sector.
HdWrite ==
  /\ Ready /\ CURRENT.cmd = "WRITE"
  /\ do_hd' = "write_intr"
  /\ device' = [op |-> "write", drive |-> CURRENT.drive, sector |-> CURRENT.sector,
                left |-> CURRENT.nr_sectors, data |-> CURRENT.sector]
  /\ running' = "idle"
  /\ UNCHANGED <<queue, result, reset, recalibrate>>

\* The controller does not ask for the data, and sends no interrupt.  do_hd
\* stays what it is.
HdWriteRefused ==
  /\ Ready /\ CURRENT.cmd = "WRITE"
  /\ bad_rw_intr
  /\ do_hd' = "write_intr"
  /\ device' = NoCommand
  /\ running' = "repeat"
  /\ UNCHANGED recalibrate

do_hd_request ==
  \/ HdNoRequest \/ HdTooFar \/ HdReset \/ HdRecalibrate
  \/ HdRead \/ HdWrite \/ HdWriteRefused \/ HdPanics

-----------------------------------------------------------------------------
(* Interrupts *)

\* hd_interrupt takes the handler out of do_hd and calls it.
Interrupt(handler) == running = "idle" /\ device.op # "none" /\ do_hd = handler

\* win_result() tells of an error: the command is over.
HdFails ==
  /\ \E h \in {"read_intr", "write_intr", "recal_intr"} : Interrupt(h)
  /\ queue # <<>>
  /\ bad_rw_intr
  /\ do_hd' = "none"
  /\ device' = NoCommand
  /\ running' = "request"
  /\ UNCHANGED recalibrate

\* The sectors moved, when the next one is the one that CURRENT means.
Moved(good) == CURRENT.moved \union (IF good THEN {CURRENT.sector} ELSE {})

\* Mutation: CURRENT->sector is not moved on.
NextSectorStays(moved, errors) ==
  queue' = WithCurrent([CURRENT EXCEPT !.nr_sectors = @ - 1, !.moved = moved,
                                       !.errors = errors])

\* One sector less: CURRENT goes on to the next, in read_intr() and write_intr().
NextSector(moved, errors) ==
  queue' = WithCurrent([CURRENT EXCEPT !.sector = @ + 1, !.nr_sectors = @ - 1,
                                       !.moved = moved, !.errors = errors])

read_intr ==
  LET moved == Moved(device.drive = CURRENT.drive /\ device.sector = CURRENT.sector)
  IN  /\ Interrupt("read_intr") /\ device.op = "read"
      /\ queue # <<>>
      /\ \/ /\ CURRENT.nr_sectors > 1
            /\ NextSector(moved, 0)
            /\ do_hd' = "read_intr"
            /\ device' = [device EXCEPT !.sector = @ + 1, !.left = @ - 1]
            /\ UNCHANGED <<result, running>>
         \/ /\ CURRENT.nr_sectors = 1
            /\ end_request(TRUE, moved)
            /\ do_hd' = "none"
            /\ device' = NoCommand
            /\ running' = "request"
      /\ UNCHANGED <<reset, recalibrate>>

write_intr ==
  LET moved == Moved(device.drive = CURRENT.drive /\ device.sector = device.data)
  IN  /\ Interrupt("write_intr") /\ device.op = "write"
      /\ queue # <<>>
      /\ \/ /\ CURRENT.nr_sectors > 1
            /\ NextSector(moved, CURRENT.errors)
            /\ do_hd' = "write_intr"
            /\ device' = [device EXCEPT !.sector = @ + 1, !.left = @ - 1,
                                        !.data = (CURRENT.sector + 1) % 2]
            /\ UNCHANGED <<result, running>>
         \/ /\ CURRENT.nr_sectors = 1
            /\ end_request(TRUE, moved)
            /\ do_hd' = "none"
            /\ device' = NoCommand
            /\ running' = "request"
      /\ UNCHANGED <<reset, recalibrate>>

recal_intr ==
  /\ Interrupt("recal_intr")
  /\ do_hd' = "none"
  /\ device' = NoCommand
  /\ running' = "request"
  /\ UNCHANGED <<queue, result, reset, recalibrate>>

HdInterrupt == HdFails \/ read_intr \/ write_intr \/ recal_intr

HdNext ==
  \/ \E r \in NewRequest : r.block \in {0, LastBlock, TooFar} /\ AddRequest(r) /\ UNCHANGED hdVars
  \/ do_hd_request
  \/ HdInterrupt
==============================================================================
