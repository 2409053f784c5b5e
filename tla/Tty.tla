--------------------------------- MODULE Tty ---------------------------------
(***************************************************************************)
(* A terminal on a serial line: tty_read() and tty_write() of tty_io.c     *)
(* against the interrupts of rs_io.s.  What is typed goes into read_q and  *)
(* from there, edited by copy_to_cooked(), into secondary; what is written *)
(* goes through write_q to the line.                                       *)
(*                                                                         *)
(* The rings of tty_queue are sequences; PUTCH does not look whether there *)
(* is room, and into a full ring it leaves head = tail: an empty one.      *)
(* Interrupts come between the macros of tty.h, not inside them, and the   *)
(* pages of user memory are there.                                         *)
(*                                                                         *)
(* Who waits lies in interruptible_sleep_on(), which keeps a chain: the    *)
(* queue names the last to lie down, and each of them the one before.      *)
(***************************************************************************)
EXTENDS Stream, SequencesExt

CONSTANTS
  TTY_BUF_SIZE,  \* one character less fits into a queue
  RESERVE,       \* 128: a writer that found the queue full waits for this room
  STARTUP,       \* 256: the interrupt wakes writers when no more are left
  LINE_RESERVE,  \* 20: a line without end is read when no more room is left
  Uses,          \* ways to use the terminal, by name
  EraseAnywhere  \* may a line be erased between EMPTY and GETCH of its reader?

\* Each has the flags (opost is OPOST and ONLCR), VMIN, what is typed, the calls
\* that each process makes, how much it reads, and what it writes.
Flag == {"ICANON", "ECHO", "ISIG"}
Key == {"a", "b", "nl", "eof", "erase", "kill", "intr"}
Char == Key \cup {"cr", "del", "^"}
TtyCalls == {"read", "write", "flush", "mode"}

ASSUME TtyAssumption ==
  /\ TTY_BUF_SIZE \in Nat /\ TTY_BUF_SIZE >= 2
  /\ RESERVE \in 1..TTY_BUF_SIZE - 1
  /\ STARTUP \in Nat
  /\ LINE_RESERVE \in Nat
  /\ EraseAnywhere \in BOOLEAN
  /\ \A u \in {Uses[name] : name \in DOMAIN Uses} :
       /\ u.lflag \subseteq Flag /\ u.opost \in BOOLEAN /\ u.vmin \in Nat
       /\ u.keys \subseteq Key /\ u.counts \subseteq 1..MaxCount
       /\ u.calls \in [Process -> SUBSET TtyCalls]
       /\ \A t \in u.texts : t \in Seq({"a", "b", "nl"}) /\ t # <<>>

VARIABLES
  use,        \* how the terminal is used in this behaviour
  lflag,      \* termios.c_lflag
  read_q,     \* what has been typed and waits for copy_to_cooked()
  secondary,  \* what readers may read
  data,       \* secondary.data: the ends of lines in secondary
  write_q,    \* what has been written and not sent
  cr_flag,    \* the carriage return before a newline has been written
  ier,        \* the line interrupts when it can take a character
  sent,       \* the character last sent
  need,       \* the bytes each reader must still get
  text,       \* the bytes each writer has still to write
  signal,     \* is there a signal for the process?
  proc_list,  \* of secondary and of write_q: {p} for a pointer to p, {} for NULL
  tmp         \* of each process in interruptible_sleep_on()

sleepVars == <<proc_list, tmp>>
queueVars == <<read_q, secondary, data, write_q, cr_flag, ier, sent>>
ttyVars == <<queueVars, use, lflag, need, text, signal, sleepVars>>

\* Where those who read, and those who write, sleep; where they are when their
\* state has been set to 0; and where interruptible_sleep_on() returns to.
Queue == {"read", "write"}
Asleep == [read |-> "read_sleep", write |-> "write_sleep"]
Woken == [read_sleep |-> "read_woken", write_sleep |-> "write_woken"]
Again == [read |-> "read_again", write |-> "write_again"]

TtyLabel == {"user", "read", "read_again", "read_spin", "read_getch", "read_sleep", "read_woken",
             "write", "write_putch", "write_start", "write_sleep", "write_woken", "write_again"}

Use == Uses[use]

Size == TTY_BUF_SIZE - 1

\* Nothing is edited, flushed or shared with an echo.
Plain == /\ Use.lflag = {}
         /\ \A p \in Process : Use.calls[p] \subseteq {"read", "write"}

TtyTypeOK ==
  /\ use \in DOMAIN Uses /\ lflag \subseteq Flag
  /\ \A q \in {read_q, secondary, write_q} : q \in Seq(Char) /\ Len(q) <= Size
  /\ data \in Int
  /\ cr_flag \in BOOLEAN /\ ier \in BOOLEAN
  /\ sent \in Seq(Char) /\ Len(sent) <= 1
  /\ pc \in [Process -> TtyLabel]
  /\ need \in [Process -> Nat]
  /\ \A p \in Process : text[p] \in Seq(Char)
  /\ signal \in [Process -> BOOLEAN]
  /\ proc_list \in [Queue -> SUBSET Process]
  /\ tmp \in [Process -> SUBSET Process]

\* rs_init() and tty_table[]; then TCSETS.
TtyInit ==
  /\ use \in DOMAIN Uses
  /\ lflag = Use.lflag
  /\ read_q = <<>> /\ secondary = <<>> /\ data = 0
  /\ write_q = <<>> /\ cr_flag = FALSE
  /\ ier = FALSE /\ sent = <<>>
  /\ need = [p \in Process |-> 0]
  /\ text = [p \in Process |-> <<>>]
  /\ signal = [p \in Process |-> FALSE]
  /\ proc_list = [q \in Queue |-> {}]
  /\ tmp = [p \in Process |-> {}]

Left(queue) == Size - Len(queue)
Full(queue) == Left(queue) = 0

PUTCH(c, queue) == IF Full(queue) THEN <<>> ELSE Append(queue, c)

EndsLine(c) == c \in {"nl", "eof"}

-----------------------------------------------------------------------------
(* Interrupts *)

\* The queues while copy_to_cooked() works on them; rest is what stays in
\* read_q, and interrupted says that tty_intr() has been called.
Queues == [rest |-> <<>>, secondary |-> secondary, data |-> data,
           write_q |-> write_q, ier |-> ier, interrupted |-> FALSE]

\* PUTCH(c, write_q) for each of cs, and rs_write(), when there is an echo.
Echo(q, cs) ==
  IF "ECHO" \notin lflag THEN q
  ELSE LET out == FoldLeft(LAMBDA queue, c : PUTCH(c, queue), q.write_q, cs)
       IN  [q EXCEPT !.write_q = out, !.ier = @ \/ out # <<>>]

\* What the echo of a character looks like, with ECHOCTL.
Shown(c) == CASE c = "nl" -> <<"nl", "cr">>
              [] c \in {"eof", "erase", "kill", "intr"} -> <<"^", c>>
              [] OTHER -> <<c>>

\* The last character of secondary is taken back.
Back(q) ==
  LET c == Last(q.secondary)
  IN  [Echo(q, IF Len(Shown(c)) = 2 THEN <<"del", "del">> ELSE <<"del">>)
         EXCEPT !.secondary = Front(@)]

\* Nothing is left of the line that is being typed.
AtStart(q) == q.secondary = <<>> \/ EndsLine(Last(q.secondary))

\* Mutation: the end of a line can be erased.
ErasedAny(q) == IF q.secondary = <<>> THEN q ELSE Back(q)

Erased(q) == IF AtStart(q) THEN q ELSE Back(q)

Killed(q) == FoldLeft(LAMBDA k, i : IF AtStart(k) THEN k ELSE Back(k), q, q.secondary)

\* c goes into secondary.
Cooked(q, c) ==
  LET e == Echo(q, Shown(c))
  IN  [e EXCEPT !.data = IF EndsLine(c) THEN @ + 1 ELSE @,
                !.secondary = PUTCH(c, @)]

\* Mutation: secondary is not looked at before a character is put into it.
CookUnchecked(q, c) ==
  IF c = "kill"  /\ "ICANON" \in lflag THEN Killed(q)
  ELSE IF c = "erase" /\ "ICANON" \in lflag THEN Erased(q)
  ELSE IF c = "intr"  /\ "ISIG" \in lflag   THEN [q EXCEPT !.interrupted = TRUE]
  ELSE Cooked(q, c)

\* One round of copy_to_cooked(), which ends at the first character that finds
\* secondary full.
Cook(q, c) ==
  IF q.rest # <<>> \/ Full(q.secondary) THEN [q EXCEPT !.rest = Append(@, c)]
  ELSE IF c = "kill"  /\ "ICANON" \in lflag THEN Killed(q)
  ELSE IF c = "erase" /\ "ICANON" \in lflag THEN Erased(q)
  ELSE IF c = "intr"  /\ "ISIG" \in lflag   THEN [q EXCEPT !.interrupted = TRUE]
  ELSE Cooked(q, c)

\* Who sleeps of those in who is made runnable.
MadeRunning(who) ==
  [p \in Process |-> IF p \in who /\ pc[p] \in DOMAIN Woken THEN Woken[pc[p]] ELSE pc[p]]

\* A line is not erased while its reader is between EMPTY and GETCH.
MayBeErased(keys) ==
  \/ EraseAnywhere \/ "ICANON" \notin lflag
  \/ {"erase", "kill"} \cap ToSet(keys) = {}
  \/ \A p \in Process : pc[p] # "read_getch"

\* read_char: c is typed, do_tty_interrupt() copies and calls wake_up().
\* The signal is for all of tty->pgrp; who is in user mode takes it at once.
read_char(c) ==
  LET keys == IF Full(read_q) THEN read_q ELSE Append(read_q, c)
      q    == FoldLeft(Cook, Queues, keys)
  IN  /\ MayBeErased(keys)
      /\ read_q' = q.rest
      /\ secondary' = q.secondary /\ data' = q.data
      /\ write_q' = q.write_q /\ ier' = q.ier
      /\ signal' = [p \in Process |-> signal[p] \/ (q.interrupted /\ pc[p] # "user")]
      /\ pc' = MadeRunning(proc_list["read"])
      /\ proc_list' = [proc_list EXCEPT !["read"] = {}]
      /\ UNCHANGED <<count, delivered, use, lflag, cr_flag, sent, need, text, tmp>>

\* Mutation: the line stops without waking the writers.
write_char_silent ==
  /\ ier
  /\ write_q' = IF write_q = <<>> THEN <<>> ELSE Tail(write_q)
  /\ sent' = IF write_q = <<>> THEN sent ELSE <<Head(write_q)>>
  /\ ier' = (write_q' # <<>>)
  /\ IF write_q # <<>> /\ Len(write_q) <= STARTUP
     THEN pc' = MadeRunning(proc_list["write"]) ELSE UNCHANGED pc
  /\ UNCHANGED <<count, delivered, read_q, secondary, data, cr_flag, use, lflag, need, text, signal,
                 sleepVars>>

\* write_char: the line can take a character.  The state of the task that
\* proc_list names is set to 0; proc_list stays.
write_char ==
  /\ ier
  /\ write_q' = IF write_q = <<>> THEN <<>> ELSE Tail(write_q)
  /\ sent' = IF write_q = <<>> THEN sent ELSE <<Head(write_q)>>
  /\ ier' = (write_q' # <<>>)
  /\ IF Len(write_q) <= STARTUP \/ write_q' = <<>>
     THEN pc' = MadeRunning(proc_list["write"]) ELSE UNCHANGED pc
  /\ UNCHANGED <<count, delivered, read_q, secondary, data, cr_flag, use, lflag, need, text, signal,
                 sleepVars>>

-----------------------------------------------------------------------------
(* Processes *)

\* p is at label, and nobody else is in the middle of a call, awake.
InCall == {"read_again", "read_spin", "read_getch", "write_again", "write_putch", "write_start"}
TtyAt(p, label) == pc[p] = label /\ \A q \in Process \ {p} : pc[q] \notin InCall

\* The call returns, and do_signal() takes the signal.
TtyReturns(p) ==
  /\ GoTo(p, "user")
  /\ count' = [count EXCEPT ![p] = 0]
  /\ need' = [need EXCEPT ![p] = 0]
  /\ text' = [text EXCEPT ![p] = <<>>]
  /\ signal' = [signal EXCEPT ![p] = FALSE]
  /\ UNCHANGED <<delivered, queueVars, use, lflag, sleepVars>>

TtyGoesTo(p, label) ==
  GoTo(p, label) /\ UNCHANGED <<count, delivered, ttyVars>>

\* interruptible_sleep_on(): p lies down, in front of whoever lies there.
LiesDown(p, queue) ==
  /\ tmp' = [tmp EXCEPT ![p] = proc_list[queue]]
  /\ proc_list' = [proc_list EXCEPT ![queue] = {p}]
  /\ GoTo(p, Asleep[queue])
  /\ UNCHANGED <<count, delivered, queueVars, use, lflag, need, text, signal>>

\* interruptible_sleep_on() when schedule() has come back: if somebody has lain
\* down meanwhile p wakes him and sleeps again, else p wakes the one before it.
WakesUp(p, queue) ==
  /\ TtyAt(p, Woken[Asleep[queue]])
  /\ \/ /\ ~(proc_list[queue] \subseteq {p})
        /\ pc' = [MadeRunning(proc_list[queue]) EXCEPT ![p] = Asleep[queue]]
        /\ UNCHANGED sleepVars
     \/ /\ proc_list[queue] \subseteq {p}
        /\ pc' = [MadeRunning(tmp[p]) EXCEPT ![p] = Again[queue]]
        /\ proc_list' = [proc_list EXCEPT ![queue] = {}]
        /\ tmp' = [tmp EXCEPT ![p] = {}]
  /\ UNCHANGED <<count, delivered, queueVars, use, lflag, need, text, signal>>

\* schedule() makes a task with a signal running.
Interrupted(p, queue) ==
  TtyAt(p, Asleep[queue]) /\ signal[p] /\ TtyGoesTo(p, Woken[Asleep[queue]])

TtyRead(p) ==
  /\ TtyAt(p, "user") /\ "read" \in Use.calls[p]
  /\ \E n \in Use.counts :
       /\ count' = [count EXCEPT ![p] = n]
       /\ need' = [need EXCEPT ![p] = IF Use.vmin < n THEN Use.vmin ELSE n]
  /\ GoTo(p, "read")
  /\ UNCHANGED <<delivered, queueVars, use, lflag, text, signal, sleepVars>>

\* Mutation: a whole line is not told from a part of one.
OnlyPartUncounted == "ICANON" \in lflag /\ Left(secondary) > LINE_RESERVE

\* Only a part of a line is there.
OnlyPart == "ICANON" \in lflag /\ data = 0 /\ Left(secondary) > LINE_RESERVE

\* The outer loop of tty_read().  sleep_if_empty() looks with interrupts off
\* before it sleeps.  It does not sleep on part of a line: then the loop goes
\* round until an interrupt changes something.
tty_read(p) ==
  /\ \E label \in {"read", "read_again", "read_spin"} : TtyAt(p, label)
  /\ \/ signal[p] /\ TtyReturns(p)
     \/ ~signal[p] /\ secondary = <<>> /\ LiesDown(p, "read")
     \/ ~signal[p] /\ secondary # <<>> /\ OnlyPart /\ TtyGoesTo(p, "read_spin")
     \/ ~signal[p] /\ secondary # <<>> /\ ~OnlyPart /\ TtyGoesTo(p, "read_getch")

\* GETCH(secondary, c): the character and what is left.  From an empty ring it
\* takes what was there before, and leaves a full one.
GETCH ==
  IF secondary # <<>> THEN {<<Head(secondary), Tail(secondary)>>}
  ELSE Use.keys \X [1..Size -> Use.keys]

\* The round of the inner loop of tty_read() that takes c and leaves rest, and
\* what follows when it is the last.
tty_read_getch(p, c, rest) ==
  /\ TtyAt(p, "read_getch")
  /\ secondary' = rest
  /\ data' = IF EndsLine(c) THEN data - 1 ELSE data
  /\ LET end  == c = "eof" /\ "ICANON" \in lflag
         n    == count[p] - 1
         more == IF need[p] > 0 THEN need[p] - 1 ELSE 0
     IN  IF end \/ n = 0 \/ (rest = <<>> /\ ("ICANON" \in lflag \/ more = 0))
         THEN /\ GoTo(p, "user")
              /\ count' = [count EXCEPT ![p] = 0] /\ need' = [need EXCEPT ![p] = 0]
              /\ signal' = [signal EXCEPT ![p] = FALSE]
         ELSE /\ GoTo(p, IF rest = <<>> THEN "read" ELSE "read_getch")
              /\ count' = [count EXCEPT ![p] = n] /\ need' = [need EXCEPT ![p] = more]
              /\ UNCHANGED signal
  /\ delivered' = IF Plain THEN <<c>> ELSE <<>>
  /\ UNCHANGED <<read_q, write_q, cr_flag, ier, sent, use, lflag, text, sleepVars>>

TtyWrite(p) ==
  /\ TtyAt(p, "user") /\ "write" \in Use.calls[p]
  /\ \E t \in Use.texts : text' = [text EXCEPT ![p] = t]
  /\ GoTo(p, "write")
  /\ UNCHANGED <<count, delivered, queueVars, use, lflag, need, signal, sleepVars>>

\* sleep_if_full(), and what tty_write() does when it comes back.  The queue is
\* full, or there was a wait: the loop looks with interrupts off before it sleeps.
tty_write(p) ==
  \/ TtyAt(p, "write") /\ Full(write_q) /\ TtyGoesTo(p, "write_again")
  \/ TtyAt(p, "write") /\ ~Full(write_q) /\ signal[p] /\ TtyReturns(p)
  \/ TtyAt(p, "write") /\ ~Full(write_q) /\ ~signal[p] /\ TtyGoesTo(p, "write_putch")
  \/ TtyAt(p, "write_again") /\ signal[p] /\ TtyReturns(p)
  \/ TtyAt(p, "write_again") /\ ~signal[p] /\ Left(write_q) < RESERVE /\ LiesDown(p, "write")
  \/ TtyAt(p, "write_again") /\ ~signal[p] /\ Left(write_q) >= RESERVE
       /\ TtyGoesTo(p, "write_putch")

\* A round of the inner loop of tty_write(): the next byte, or the carriage
\* return before it.  The loop ends when all is written or the queue is full.
tty_write_putch(p) ==
  /\ TtyAt(p, "write_putch")
  /\ LET c      == Head(text[p])
         return == Use.opost /\ c = "nl" /\ ~cr_flag
         out    == PUTCH(IF return THEN "cr" ELSE c, write_q)
     IN  /\ write_q' = out
         /\ cr_flag' = return
         /\ text' = [text EXCEPT ![p] = IF return THEN @ ELSE Tail(@)]
         /\ IF text'[p] = <<>> \/ Full(out) THEN GoTo(p, "write_start") ELSE UNCHANGED pc
  /\ UNCHANGED <<count, delivered, read_q, secondary, data, ier, sent, use, lflag, need, signal,
                 sleepVars>>

\* rs_write(); then the call returns, or schedule() lets others run.
rs_write(p) ==
  /\ TtyAt(p, "write_start")
  /\ ier' = (ier \/ write_q # <<>>)
  /\ GoTo(p, IF text[p] = <<>> THEN "user" ELSE "write")
  /\ signal' = [signal EXCEPT ![p] = @ /\ text[p] # <<>>]
  /\ UNCHANGED <<count, delivered, read_q, secondary, data, write_q, cr_flag, sent, use, lflag, need, text,
                 sleepVars>>

\* tty_ioctl(): TCFLSH.
TCFLSH(p) ==
  /\ TtyAt(p, "user") /\ "flush" \in Use.calls[p]
  /\ \E arg \in 0..2 : /\ read_q' = IF arg # 1 THEN <<>> ELSE read_q
                       /\ write_q' = IF arg # 0 THEN <<>> ELSE write_q
  /\ UNCHANGED <<streamVars, secondary, data, cr_flag, ier, sent, use, lflag, need, text, signal,
                 sleepVars>>

\* tty_ioctl(): TCSETS turns canonical mode on or off.
TCSETS(p) ==
  /\ TtyAt(p, "user") /\ "mode" \in Use.calls[p]
  /\ lflag' \in {lflag \cup {"ICANON"}, lflag \ {"ICANON"}}
  /\ UNCHANGED <<streamVars, queueVars, use, need, text, signal, sleepVars>>

TtyInKernel(p) ==
  \/ tty_read(p)
  \/ \E got \in GETCH : tty_read_getch(p, got[1], got[2])
  \/ tty_write(p) \/ tty_write_putch(p) \/ rs_write(p)
  \/ \E queue \in Queue : WakesUp(p, queue) \/ Interrupted(p, queue)

TtyNext ==
  \/ \E c \in Use.keys : read_char(c)
  \/ write_char
  \/ \E p \in Process : \/ TtyInKernel(p)
                        \/ TtyRead(p) \/ TtyWrite(p) \/ TCFLSH(p) \/ TCSETS(p)

-----------------------------------------------------------------------------
(* Properties *)

\* secondary.data is the number of line ends in secondary, whatever is typed,
\* erased and read meanwhile and in whatever mode: a reader that finds none
\* there waits, with the machine, for the next one.
LinesAreCounted ==
  ~EraseAnywhere => data = Cardinality({i \in DOMAIN secondary : EndsLine(secondary[i])})

\* "change outgoing NL to CRNL": on the line a carriage return comes directly
\* before each newline, also when the queue was full between the two and
\* another process wrote meanwhile.
NewlinesReturn ==
  LET line == sent \o write_q
  IN  Use.opost /\ Plain =>
        \A i \in DOMAIN line : i > 1 /\ line[i] = "nl" => line[i - 1] = "cr"

\* Nobody but p makes such calls.
Alone(p, call) == \A q \in Process \ {p} : call \notin Use.calls[q]

\* Of the readers the one that the queue names sleeps only when there is nothing
\* to read.  The writer that write_q names sleeps only when the line will
\* interrupt, whether the queue is then full, flushed or filled again by the
\* echo: the interrupt is what wakes it.  Who is alone is named.  Of several
\* who sleep on one queue those who are not named may be lost for ever: two of
\* them can wake each other, and both then sleep again, but one is forgotten.
TtySleepers ==
  /\ \A p \in proc_list["read"] : pc[p] = "read_sleep" => secondary = <<>>
  /\ \A p \in proc_list["write"] : pc[p] = "write_sleep" => ier
  /\ \A p \in Process, queue \in Queue :
       Alone(p, queue) /\ pc[p] = Asleep[queue] => p \in proc_list[queue]

Reading(p) == pc[p] \in {"read", "read_again", "read_spin", "read_getch", "read_sleep", "read_woken"}
Writing(p) == pc[p] \in {"write", "write_putch", "write_start", "write_sleep", "write_woken",
                         "write_again"}

\* What a reader waits for is there.
Answered(p) ==
  /\ Reading(p) /\ Alone(p, "read") /\ \A q \in Process : "mode" \notin Use.calls[q]
  /\ \/ signal[p]
     \/ "ICANON" \in lflag /\ data > 0
     \/ "ICANON" \notin lflag /\ secondary # <<>> /\ Len(secondary) >= need[p]

\* An only writer, whose line does not fill by an echo, and whose machine is not
\* taken by a reader of part of a line.
WritesAlone(p) ==
  Writing(p) /\ Alone(p, "write") /\ {"ICANON", "ECHO"} \cap lflag = {}
==============================================================================
