------------------------------ MODULE ReadWrite ------------------------------
(***************************************************************************)
(* The streams behind sys_read() and sys_write(): a pipe, or a terminal.   *)
(* Each promises to keep the order of the bytes and to let nobody wait for *)
(* what has come.                                                          *)
(***************************************************************************)
EXTENDS Pipe, Tty

CONSTANT Kind  \* which streams there are: "pipe", "tty"

ASSUME ReadWriteAssumption == Kind \subseteq {"pipe", "tty"}

VARIABLE kind  \* what the file is

vars == <<streamVars, ownVars, ttyVars, kind>>

TypeOK ==
  /\ kind \in Kind
  /\ kind = "pipe" => PipeTypeOK
  /\ kind = "tty" => TtyTypeOK

Init ==
  /\ kind \in Kind
  /\ StreamInit /\ PipeInit /\ TtyInit
  /\ kind = "pipe" => use = CHOOSE name \in DOMAIN Uses : TRUE
  /\ kind = "tty" => ~faults

PipeStep == kind = "pipe" /\ PipeNext /\ UNCHANGED <<ttyVars, kind>>
TtyStep == kind = "tty" /\ TtyNext /\ UNCHANGED <<ownVars, kind>>

Next == PipeStep \/ TtyStep

\* What a process does in the kernel, when it is not asleep.
KernelStep(p) ==
  \/ kind = "pipe" /\ InKernel(p) /\ UNCHANGED <<ttyVars, kind>>
  \/ kind = "tty" /\ TtyInKernel(p) /\ UNCHANGED <<ownVars, kind>>

Spec == Init /\ [][Next]_vars

\* Nobody must call, close or type.  Who is in the kernel and awake goes on,
\* and the line takes what is sent.
FairSpec ==
  /\ Spec
  /\ \A p \in Process : SF_vars(KernelStep(p))
  /\ WF_vars(kind = "tty" /\ write_char /\ UNCHANGED <<ownVars, kind>>)

-----------------------------------------------------------------------------
(* Properties *)

\* Nobody sleeps for what is there already, or for what nobody will tell it:
\* see PipeSleepers and TtySleepers.
SleepersHaveReason ==
  /\ TypeOK
  /\ kind = "pipe" => PipeSleepers
  /\ kind = "tty" => TtySleepers

\* The ends of lines are counted on the way in and marked on the way out: see
\* LinesAreCounted and NewlinesReturn.
LineEndsAreRight == kind = "tty" => LinesAreCounted /\ NewlinesReturn

PipeFifo == INSTANCE Fifo WITH
  Capacity <- PAGE_SIZE - 1,
  bytes <- IF kind = "pipe" /\ ~faults THEN PipeBytes ELSE <<>>,
  delivered <- IF kind = "pipe" THEN delivered ELSE <<>>

InFifo == INSTANCE Fifo WITH
  Byte <- Char,
  Capacity <- 2 * Size,
  bytes <- IF kind = "tty" /\ Plain THEN secondary \o read_q ELSE <<>>,
  delivered <- IF kind = "tty" THEN delivered ELSE <<>>

OutFifo == INSTANCE Fifo WITH
  Byte <- Char,
  Capacity <- Size,
  bytes <- IF kind = "tty" /\ Plain THEN write_q ELSE <<>>,
  delivered <- IF kind = "tty" /\ Plain THEN sent ELSE <<>>

\* Without faults bytes come out of a pipe in the order in which they went in,
\* none twice, none left out, however the ring wraps round and whoever reads
\* and writes.
ImplementsFifo == PipeFifo!Spec

\* So do the characters of a terminal whose lines are not edited, also when
\* secondary is full and the rest waits in read_q, and on the way out.
TerminalsImplementFifo == InFifo!Spec /\ OutFifo!Spec

\* The call of an only reader returns once there is a whole line, or enough
\* characters, or a signal.
ReadersReturn ==
  (kind = "tty" /\ \E p \in Process : Answered(p)) ~> ~\E p \in Process : Answered(p)

\* Without an echo and canonical readers the call of an only writer returns.
WritersReturn ==
  (kind = "tty" /\ \E p \in Process : WritesAlone(p)) ~> ~\E p \in Process : WritesAlone(p)

\* Calls on a terminal return, an only reader's and an only writer's.
CallsReturn == ReadersReturn /\ WritersReturn
==============================================================================
