----------------------------- MODULE FloppyDriver -----------------------------
(***************************************************************************)
(* kernel/blk_drv/floppy.c, and from kernel/sched.c the timers and motors  *)
(* that it needs.  A request waits for its motor on a timer, then the      *)
(* drive is selected by force, the heads are moved, the block transferred, *)
(* each of these by a command that ends with an interrupt.  Controllers    *)
(* that do not answer are reset, drives that fail recalibrated.            *)
(*                                                                         *)
(* Processes come here too: floppy_change() turns a motor on, waits for    *)
(* its drive to be selected and asks whether the disk has been changed.    *)
(***************************************************************************)
EXTENDS Driver, FiniteSets

CONSTANTS
  FD_MAX_ERRORS,  \* MAX_ERRORS of floppy.c: a request with more errors is given up
  Process,      \* processes that call floppy_change(), each once
  nr,           \* the drive each of them asks for
  SpinUp,       \* ticks until a motor turns: HZ/2
  SpinDown,     \* ticks until floppy_off() has an effect: 3*HZ
  Forever,      \* ticks a motor stays on for a request: 10000
  NewInRecovery \* may requests come while the controller is recovering?

ASSUME FloppyAssumption ==
  /\ FD_MAX_ERRORS \in Nat
  /\ nr \in [Process -> Drive]
  /\ SpinUp \in Nat /\ SpinUp >= 2
  /\ SpinDown \in Nat /\ SpinDown >= SpinUp
  /\ Forever \in Nat /\ Forever > SpinDown
  /\ NewInRecovery \in BOOLEAN

VARIABLES
  current_DOR,    \* the drive that is selected, and the motors that are on
  selected,       \* a transfer needs that drive
  mon_timer,      \* ticks until a motor has spun up
  moff_timer,     \* ticks until it is turned off
  next_timer,     \* the timers, each with the ticks after the one before
  do_floppy,      \* the handler of the next interrupt
  seek,           \* must the heads be moved?
  current_drive,  \* the drive of the request
  current_track,  \* where its heads are thought to be
  fdc,            \* the commands the controller is working on
  position,       \* where the heads are
  ticking,        \* a function that do_timer() has called is at work
  pc,             \* where a process is in floppy_change()
  quiet           \* the controller answers, its drives recalibrate, and no drive
                  \* interrupts of its own accord, from now on

dorVars == <<current_DOR, selected>>
timerVars == <<mon_timer, moff_timer, next_timer>>
driveVars == <<do_floppy, seek, current_drive, current_track>>
deviceVars == <<fdc, position, quiet>>
fdVars == <<dorVars, timerVars, driveVars, deviceVars, pc, ticking>>

Timer == [jiffies : Int, fn : {"floppy_on_interrupt", "transfer"}]
FdcCommand == [op : {"reset", "recalibrate", "seek", "rw"}, drive : Drive,
               track : Track, id : Id \union {0}]
Handlers == {"rw_interrupt", "seek_interrupt", "recal_interrupt", "reset_interrupt"}

FdTypeOK ==
  /\ current_DOR   \in [drive : Drive, motors : SUBSET Drive]
  /\ selected      \in BOOLEAN
  /\ mon_timer     \in [Drive -> 0..SpinUp]
  /\ moff_timer    \in [Drive -> 0..Forever]
  /\ next_timer    \in Seq(Timer)
  /\ do_floppy     \in Handlers \union {"none"}
  /\ seek          \in BOOLEAN
  /\ current_drive \in Drive
  /\ current_track \in Track \union {255}
  /\ fdc           \subseteq FdcCommand
  /\ position      \in [Drive -> Track]
  /\ ticking       \in BOOLEAN
  /\ pc            \in [Process -> {"user", "floppy_on", "sleep_motor", "wait_motor",
                                    "select", "sleep_select", "wait_select", "done"}]
  /\ nr            \in [Process -> Drive]
  /\ quiet         \in BOOLEAN

FdInit ==
  /\ current_DOR = [drive |-> 0, motors |-> {}]
  /\ selected = FALSE
  /\ mon_timer = [d \in Drive |-> 0]
  /\ moff_timer = [d \in Drive |-> 0]
  /\ next_timer = <<>>
  /\ do_floppy = "none"
  /\ seek = FALSE
  /\ current_drive = 0
  /\ current_track = 255
  /\ fdc = {}
  /\ position \in [Drive -> Track]
  /\ ticking = FALSE
  /\ pc = [p \in Process |-> "user"]
  /\ quiet = FALSE

-----------------------------------------------------------------------------
(* Timers and motors: kernel/sched.c *)

\* add_timer(): a new timer comes first and changes places with those that
\* are due before it, of which it takes the ticks off its own.
AddTimer(ticks, f) ==
  LET sum[i \in 0..Len(next_timer)] ==
        IF i = 0 THEN 0 ELSE sum[i - 1] + next_timer[i].jiffies
      before == {i \in 1..Len(next_timer) :
                   \A j \in 1..i : next_timer[j].jiffies < ticks - sum[j - 1]}
      k == Cardinality(before)
  IN  next_timer' = SubSeq(next_timer, 1, k)
                    \o <<[jiffies |-> ticks - sum[k], fn |-> f]>>
                    \o SubSeq(next_timer, k + 1, Len(next_timer))

\* ticks_to_floppy_on(d): the motor is turned on, and the drive selected if
\* nobody needs another; the result is mon_timer'[d].
TicksToFloppyOn(d) ==
  LET dor == [drive |-> IF selected THEN current_DOR.drive ELSE d,
              motors |-> current_DOR.motors \union {d}]
  IN  /\ moff_timer' = [moff_timer EXCEPT ![d] = Forever]
      /\ mon_timer' = [mon_timer EXCEPT ![d] =
           IF dor = current_DOR THEN @
           ELSE IF d \notin current_DOR.motors THEN SpinUp
           ELSE IF @ < 2 THEN 2 ELSE @]
      /\ current_DOR' = dor

floppy_off(d) == moff_timer' = [moff_timer EXCEPT ![d] = SpinDown]

\* floppy_deselect(), with whoever waits for it.
floppy_deselect ==
  /\ selected' = FALSE
  /\ pc' = [p \in Process |-> IF pc[p] = "wait_select" THEN "select" ELSE pc[p]]

\* The motors that have just spun up, and those that are to be turned off.
SpunUp == {d \in current_DOR.motors : mon_timer[d] = 1}
TurnedOff == {d \in current_DOR.motors : mon_timer[d] = 0 /\ moff_timer[d] = 0}

\* do_floppy_timer(): the end of the tick, as far as the driver goes.
do_floppy_timer ==
  /\ mon_timer' = [d \in Drive |-> IF d \in current_DOR.motors /\ mon_timer[d] > 0
                                   THEN mon_timer[d] - 1 ELSE mon_timer[d]]
  /\ moff_timer' = [d \in Drive |->
       IF d \in current_DOR.motors /\ mon_timer[d] = 0 /\ moff_timer[d] > 0
       THEN moff_timer[d] - 1 ELSE moff_timer[d]]
  /\ current_DOR' = [current_DOR EXCEPT !.motors = @ \ TurnedOff]
  /\ pc' = [p \in Process |-> IF pc[p] = "wait_motor" /\ nr[p] \in SpunUp
                              THEN "floppy_on" ELSE pc[p]]
  /\ UNCHANGED selected

\* do_timer(): the first timer counts down; no timer is due.
Tick ==
  /\ running = "idle" /\ ~ticking
  /\ \/ next_timer = <<>> /\ UNCHANGED next_timer
     \/ /\ next_timer # <<>> /\ Head(next_timer).jiffies > 1
        /\ next_timer' = <<[Head(next_timer) EXCEPT !.jiffies = @ - 1]>> \o Tail(next_timer)
  /\ do_floppy_timer
  /\ UNCHANGED <<driverVars, driveVars, deviceVars, ticking>>

\* do_timer(): the first timer is due.  It is taken off the list and its
\* function called; those that are due with it follow.
RunTimer ==
  /\ running = "idle" /\ next_timer # <<>>
  /\ Head(next_timer).jiffies <= IF ticking THEN 0 ELSE 1
  /\ next_timer' = Tail(next_timer)
  /\ running' = Head(next_timer).fn
  /\ ticking' = TRUE
  /\ UNCHANGED <<queue, result, reset, recalibrate,
                 dorVars, mon_timer, moff_timer, driveVars, deviceVars, pc>>

\* do_timer() goes on when the functions have returned.
EndTick ==
  /\ running = "idle" /\ ticking
  /\ next_timer # <<>> => Head(next_timer).jiffies > 0
  /\ ticking' = FALSE
  /\ do_floppy_timer
  /\ UNCHANGED <<driverVars, next_timer, driveVars, deviceVars>>

-----------------------------------------------------------------------------
(* Commands *)

\* output_byte() has sent a whole command, and h is to take its interrupt.
Issue(op, track, id, h) ==
  /\ do_floppy' = h
  /\ fdc' = fdc \union {[op |-> op, drive |-> current_DOR.drive, track |-> track, id |-> id]}
  /\ running' = "idle"
  /\ UNCHANGED <<reset, position, quiet>>

\* The controller takes no bytes: it is to be reset, at once.
TimesOut(h) ==
  /\ ~quiet
  /\ reset' = TRUE
  /\ do_floppy' = h
  /\ running' = "request"
  /\ UNCHANGED <<fdc, position, quiet>>

\* setup_rw_floppy(), also the end of seek_interrupt()
setup_rw_floppy ==
  Issue("rw", CURRENT.block, CURRENT.id, "rw_interrupt") \/ TimesOut("rw_interrupt")

\* Mutation: the drive that is selected is not looked at.
floppy_on_any_drive ==
  /\ running = "floppy_on_interrupt"
  /\ selected' = TRUE
  /\ running' = "transfer"
  /\ UNCHANGED <<queue, result, reset, recalibrate, current_DOR, timerVars,
                 driveVars, deviceVars, pc, ticking>>

\* The driver's own function, called with the motor on.
floppy_on_interrupt ==
  /\ running = "floppy_on_interrupt"
  /\ selected' = TRUE
  /\ IF current_drive # current_DOR.drive
     THEN /\ current_DOR' = [current_DOR EXCEPT !.drive = current_drive]
          /\ AddTimer(2, "transfer")
          /\ running' = "idle"
     ELSE running' = "transfer" /\ UNCHANGED <<current_DOR, next_timer>>
  /\ UNCHANGED <<queue, result, reset, recalibrate, mon_timer, moff_timer,
                 driveVars, deviceVars, pc, ticking>>

transfer ==
  /\ running = "transfer" /\ queue # <<>>
  /\ \/ /\ reset \/ ~quiet  \* FD_SPECIFY may not get through
        /\ reset' = TRUE
        /\ running' = "request"
        /\ UNCHANGED <<do_floppy, deviceVars>>
     \/ ~reset /\ ~seek /\ setup_rw_floppy
     \/ /\ ~reset /\ seek
        /\ \/ Issue(IF CURRENT.block = 0 THEN "recalibrate" ELSE "seek", CURRENT.block,
                    CURRENT.id, "seek_interrupt")
           \/ TimesOut("seek_interrupt")
  /\ UNCHANGED <<queue, result, recalibrate, dorVars, timerVars, pc, ticking,
                 seek, current_drive, current_track>>

-----------------------------------------------------------------------------
(* do_fd_request() *)

reset_floppy ==
  /\ running = "request" /\ reset
  /\ reset' = FALSE
  /\ recalibrate' = TRUE
  /\ seek' = FALSE
  /\ do_floppy' = "reset_interrupt"
  /\ fdc' = {[op |-> "reset", drive |-> current_DOR.drive, track |-> 0, id |-> 0]}
  /\ running' = "idle"
  /\ UNCHANGED <<queue, result, dorVars, timerVars, pc, ticking,
                 current_drive, current_track, position, quiet>>

recalibrate_floppy ==
  /\ running = "request" /\ ~reset /\ recalibrate
  /\ recalibrate' = FALSE
  /\ seek' = FALSE
  /\ current_track' = 0
  /\ Issue("recalibrate", 0, 0, "recal_interrupt") \/ TimesOut("recal_interrupt")
  /\ UNCHANGED <<queue, result, dorVars, timerVars, pc, ticking, current_drive>>

\* On to INIT_REQUEST.
FdRepeat ==
  /\ running = "request" /\ ~reset /\ ~recalibrate
  /\ seek' = FALSE
  /\ running' = "repeat"
  /\ UNCHANGED <<queue, result, reset, recalibrate, dorVars, timerVars, pc, ticking,
                 do_floppy, current_drive, current_track, deviceVars>>

FdNoRequest ==
  /\ running = "repeat" /\ queue = <<>>
  /\ running' = "idle"
  /\ UNCHANGED <<queue, result, reset, recalibrate, fdVars>>

\* The block is behind the end of the disk.
FdTooFar ==
  /\ running = "repeat" /\ queue # <<>>
  /\ CURRENT.block = TooFar
  /\ seek' = (seek \/ current_drive # CURRENT.drive)
  /\ current_drive' = CURRENT.drive
  /\ end_request(FALSE, {})
  /\ floppy_off(CURRENT.drive)
  /\ UNCHANGED <<running, reset, recalibrate, dorVars, mon_timer, next_timer, pc,
                 ticking, do_floppy, current_track, deviceVars>>

\* The transfer is begun when the motor is on.
FdStart ==
  /\ running = "repeat" /\ queue # <<>>
  /\ CURRENT.block # TooFar
  /\ current_drive' = CURRENT.drive
  /\ seek' = (seek \/ current_drive # CURRENT.drive \/ CURRENT.block # current_track)
  /\ TicksToFloppyOn(CURRENT.drive)
  /\ IF mon_timer'[CURRENT.drive] > 0
     THEN AddTimer(mon_timer'[CURRENT.drive], "floppy_on_interrupt") /\ running' = "idle"
     ELSE running' = "floppy_on_interrupt" /\ UNCHANGED next_timer
  /\ UNCHANGED <<queue, result, reset, recalibrate, selected, pc, ticking,
                 do_floppy, current_track, deviceVars>>

do_fd_request ==
  reset_floppy \/ recalibrate_floppy \/ FdRepeat \/ FdNoRequest \/ FdTooFar \/ FdStart

-----------------------------------------------------------------------------
(* Interrupts *)

\* bad_flp_intr(), when reset is `was` by now.  When a request is given up, it
\* looks at the errors of the next, of which there are none yet, or at what
\* is at address 8.
bad_flp_intr(was) ==
  LET errors == CURRENT.errors + 1
  IN  \/ /\ errors <= FD_MAX_ERRORS
         /\ queue' = WithCurrent([CURRENT EXCEPT !.errors = errors])
         /\ reset' = (was \/ errors > FD_MAX_ERRORS \div 2)
         /\ recalibrate' = (recalibrate \/ errors <= FD_MAX_ERRORS \div 2)
         /\ UNCHANGED <<result, selected, moff_timer, pc>>
      \/ /\ errors > FD_MAX_ERRORS
         /\ floppy_deselect
         /\ end_request(FALSE, {})
         /\ floppy_off(CURRENT.drive)
         /\ \/ recalibrate' = TRUE /\ reset' = was
            \/ Len(queue) = 1 /\ reset' = TRUE /\ UNCHANGED recalibrate

\* floppy_interrupt takes the handler out of do_floppy; c is the command that
\* has ended.  c is good if it did what it was asked to.
FdInterrupt(h, c) == running = "idle" /\ ~ticking /\ do_floppy = h /\ c \in fdc

CanTransfer(c) == position[c.drive] = c.track /\ c.drive \in current_DOR.motors

\* Where a command leaves the heads of its drive.
Moves(c, good) ==
  IF c.op \in {"seek", "recalibrate"}
  THEN IF good THEN position' = [position EXCEPT ![c.drive] = c.track]
       ELSE \E t \in Track : position' = [position EXCEPT ![c.drive] = t]
  ELSE UNCHANGED position

FdTransferred(c) ==
  /\ FdInterrupt("rw_interrupt", c)
  /\ ~reset
  /\ c.op = "rw" /\ CanTransfer(c)
  /\ floppy_deselect
  /\ end_request(TRUE, IF c.id = CURRENT.id /\ c.drive = CURRENT.drive THEN Sector ELSE {})
  /\ floppy_off(CURRENT.drive)
  /\ fdc' = fdc \ {c}
  /\ do_floppy' = "none"
  /\ running' = "request"
  /\ UNCHANGED <<reset, recalibrate, current_DOR, mon_timer, next_timer, ticking,
                 seek, current_drive, current_track, position, quiet>>

\* result(), and the output_byte() before it: reset becomes TRUE, unless it is
\* already, when the controller does not answer.
NoAnswer == (reset \/ ~quiet) /\ reset' = TRUE

\* rw_interrupt() with ST1 & 2.  When result() gets no answer, the test looks
\* at what was left there before.
WriteProtected(c) ==
  /\ FdInterrupt("rw_interrupt", c)
  /\ queue # <<>>
  /\ UNCHANGED reset \/ NoAnswer
  /\ floppy_deselect
  /\ end_request(FALSE, {})
  /\ floppy_off(CURRENT.drive)
  /\ fdc' = fdc \ {c}
  /\ do_floppy' = "none"
  /\ running' = "request"
  /\ UNCHANGED <<recalibrate, current_DOR, mon_timer, next_timer, ticking,
                 seek, current_drive, current_track, position, quiet>>

\* rw_interrupt() and seek_interrupt() with any other error, among them that
\* result() gets no answer.
FdFails(c) ==
  /\ \E h \in {"rw_interrupt", "seek_interrupt"} : FdInterrupt(h, c)
  /\ queue # <<>>
  /\ bad_flp_intr(reset) \/ (~quiet /\ bad_flp_intr(TRUE))
  /\ Moves(c, FALSE)
  /\ fdc' = fdc \ {c}
  /\ do_floppy' = "none"
  /\ running' = "request"
  /\ UNCHANGED <<current_DOR, mon_timer, next_timer, ticking,
                 seek, current_drive, current_track, quiet>>

\* seek_interrupt(): the heads are there, and the transfer is begun.
seek_interrupt(c) ==
  /\ FdInterrupt("seek_interrupt", c)
  /\ ~reset
  /\ c.op \in {"seek", "recalibrate"}
  /\ queue # <<>>
  /\ Moves(c, TRUE)
  /\ current_track' = c.track
  /\ \/ /\ do_floppy' = "rw_interrupt"
        /\ fdc' = (fdc \ {c}) \union {[op |-> "rw", drive |-> current_DOR.drive,
                                       track |-> CURRENT.block, id |-> CURRENT.id]}
        /\ running' = "idle"
        /\ UNCHANGED reset
     \/ /\ ~quiet
        /\ reset' = TRUE
        /\ do_floppy' = "rw_interrupt"
        /\ fdc' = fdc \ {c}
        /\ running' = "request"
  /\ UNCHANGED <<queue, result, recalibrate, dorVars, timerVars, pc, ticking,
                 seek, current_drive, quiet>>

\* The end of a recalibration.  A failure, or no answer, counts as no error of
\* the request: it is followed by a reset, and that by a recalibration again.
recal_interrupt(c) ==
  /\ FdInterrupt("recal_interrupt", c)
  /\ \/ ~reset /\ Moves(c, TRUE) /\ recalibrate' = FALSE /\ UNCHANGED reset
     \/ NoAnswer /\ Moves(c, FALSE) /\ UNCHANGED recalibrate
  /\ fdc' = fdc \ {c}
  /\ do_floppy' = "none"
  /\ running' = "request"
  /\ UNCHANGED <<queue, result, dorVars, timerVars, pc, ticking,
                 seek, current_drive, current_track, quiet>>

\* The end of a reset: what it sends and reads may time out again.
reset_interrupt(c) ==
  /\ FdInterrupt("reset_interrupt", c)
  /\ UNCHANGED reset \/ NoAnswer
  /\ fdc' = fdc \ {c}
  /\ do_floppy' = "none"
  /\ running' = "request"
  /\ UNCHANGED <<queue, result, recalibrate, dorVars, timerVars, pc, ticking,
                 seek, current_drive, current_track, position, quiet>>

\* An interrupt nobody waits for: the drive has become ready, or not ready.
unexpected_floppy_interrupt ==
  /\ running = "idle" /\ ~ticking /\ do_floppy = "none"
  /\ ~quiet
  /\ \/ reset' = TRUE /\ UNCHANGED recalibrate
     \/ recalibrate' = TRUE /\ UNCHANGED reset
  /\ UNCHANGED <<queue, result, running, dorVars, timerVars, driveVars, pc, ticking,
                 deviceVars>>

\* From here on the controller does what it is asked to.
CalmsDown ==
  /\ running = "idle" /\ ~quiet
  /\ quiet' = TRUE
  /\ UNCHANGED <<driverVars, dorVars, timerVars, driveVars, pc, ticking, fdc, position>>

-----------------------------------------------------------------------------
(* floppy_change() *)

Calls(p, label) == running = "idle" /\ ~ticking /\ pc[p] = label
GoTo(p, label) == pc' = [pc EXCEPT ![p] = label]
OnlyProcess == UNCHANGED <<driverVars, dorVars, timerVars, driveVars, deviceVars, ticking>>

floppy_change(p) ==
  /\ Calls(p, "user")
  /\ GoTo(p, "floppy_on")
  /\ OnlyProcess

\* One round of floppy_on(): ticks_to_floppy_on() ends with sti(), and
\* interrupts come before the sleep.
floppy_on(p) ==
  /\ Calls(p, "floppy_on")
  /\ TicksToFloppyOn(nr[p])
  /\ GoTo(p, IF mon_timer'[nr[p]] > 0 THEN "sleep_motor" ELSE "select")
  /\ UNCHANGED <<driverVars, selected, next_timer, driveVars, deviceVars, ticking>>

\* sleep_on() or interruptible_sleep_on()
Sleeps(p) ==
  /\ \/ Calls(p, "sleep_motor") /\ GoTo(p, "wait_motor")
     \/ Calls(p, "sleep_select") /\ GoTo(p, "wait_select")
  /\ OnlyProcess

\* The loop that waits for the drive to be selected, and what follows it.
Select(p) ==
  /\ Calls(p, "select")
  /\ \/ /\ current_DOR.drive # nr[p] /\ selected
        /\ GoTo(p, "sleep_select")
        /\ UNCHANGED moff_timer
     \/ /\ current_DOR.drive # nr[p] /\ ~selected
        /\ GoTo(p, "floppy_on")
        /\ UNCHANGED moff_timer
     \/ /\ current_DOR.drive = nr[p]
        /\ floppy_off(nr[p])
        /\ GoTo(p, "done")
  /\ UNCHANGED <<driverVars, dorVars, mon_timer, next_timer, driveVars, deviceVars,
                 ticking>>

\* A signal ends interruptible_sleep_on().
Signal(p) ==
  /\ Calls(p, "wait_select")
  /\ GoTo(p, "select")
  /\ OnlyProcess

-----------------------------------------------------------------------------
\* Is the controller busy with itself, and no request?
Recovering == queue = <<>> /\ fdc # {}

FdNewRequest ==
  /\ ~ticking
  /\ ~Recovering \/ NewInRecovery
  /\ \E r \in NewRequest : r.cmd = "READ" /\ AddRequest(r)
  /\ UNCHANGED fdVars

FdHandler ==
  \E c \in fdc : \/ FdTransferred(c) \/ WriteProtected(c) \/ FdFails(c)
                 \/ seek_interrupt(c) \/ recal_interrupt(c) \/ reset_interrupt(c)

FdRuns == floppy_on_interrupt \/ transfer \/ do_fd_request

FdClock == Tick \/ RunTimer \/ EndTick

FdProcess(p) ==
  floppy_change(p) \/ floppy_on(p) \/ Sleeps(p) \/ Select(p) \/ Signal(p)

FdNext ==
  \/ FdNewRequest \/ FdRuns \/ FdClock \/ FdHandler
  \/ unexpected_floppy_interrupt \/ CalmsDown
  \/ \E p \in Process : FdProcess(p)
==============================================================================
