--------------------------------- MODULE Pipe ---------------------------------
(***************************************************************************)
(* fs/pipe.c, with the parts of sys_close(), iput() and fork that a pipe   *)
(* sees.  A page is used as a ring: read_pipe() and write_pipe() take a    *)
(* stretch of it, move PIPE_TAIL or PIPE_HEAD, and then copy the bytes.    *)
(* Readers and writers sleep on the same queue.                            *)
(*                                                                         *)
(* A copy between the page and user memory may meet a page that is not     *)
(* there; the fault sleeps, and others run before the copy goes on.  What  *)
(* then becomes of the bytes is not followed.                              *)
(***************************************************************************)
EXTENDS Stream

CONSTANTS
  Holders,    \* the ends that each process has when the model begins
  Byte,
  PAGE_SIZE   \* one byte less fits into the pipe

ASSUME PipeAssumption ==
  /\ Holders \in [Process -> SUBSET {"read", "write"}]
  /\ Byte # {}
  /\ PAGE_SIZE \in Nat /\ PAGE_SIZE >= 2

VARIABLES
  head, tail, \* PIPE_HEAD and PIPE_TAIL
  page,       \* the bytes of the page
  ends,       \* the ends of the pipe that each process has open
  from, left, \* the stretch of the page a process is copying
  faults      \* may a copy sleep?

ringVars == <<head, tail, page>>
callVars == <<count, from, left>>
ownVars == <<ringVars, from, left, ends, faults>>
pipeVars == <<streamVars, ownVars>>

End == {"read", "write"}
PipeLabel == {"user", "read", "read_copy", "read_sleep", "write", "write_copy", "write_sleep"}
Offset == 0..PAGE_SIZE - 1

PipeTypeOK ==
  /\ head \in Offset /\ tail \in Offset
  /\ page \in [Offset -> Byte]
  /\ ends \in [Process -> SUBSET End]
  /\ pc \in [Process -> PipeLabel]
  /\ count \in [Process -> 0..MaxCount]
  /\ from \in [Process -> Offset]
  /\ left \in [Process -> 0..PAGE_SIZE]
  /\ delivered \in Seq(Byte)
  /\ faults \in BOOLEAN

\* get_pipe_inode(), and then forks and closes until each process has what it
\* is to use.
PipeInit ==
  /\ head = 0 /\ tail = 0
  /\ page = [i \in Offset |-> CHOOSE b \in Byte : TRUE]
  /\ ends = Holders
  /\ from = [p \in Process |-> 0]
  /\ left = [p \in Process |-> 0]
  /\ faults \in BOOLEAN

\* & (PAGE_SIZE-1)
Wrap(offset) == offset % PAGE_SIZE

PIPE_SIZE == Wrap(head - tail)

Room == (PAGE_SIZE - 1) - PIPE_SIZE

\* i_count: each end that is open anywhere is one struct file.
i_count == Cardinality(UNION {ends[p] : p \in Process})

Smallest(a, b, c) == LET m == IF a < b THEN a ELSE b IN IF m < c THEN m ELSE c

-----------------------------------------------------------------------------
\* A process in the middle of a copy goes on unless the copy sleeps.
Copying(p) == pc[p] \in {"read_copy", "write_copy"}
Runs(p) == faults \/ \A q \in Process \ {p} : ~Copying(q)

At(p, label) == pc[p] = label /\ Runs(p)

\* wake_up(&inode->i_wait), and p is at label.
WakeUp(p, label) == WakeAll(p, label, [read_sleep |-> "read", write_sleep |-> "write"])

\* A call of read() or write().
Call(p, end) ==
  /\ At(p, "user") /\ end \in ends[p]
  /\ \E n \in 1..MaxCount : count' = [count EXCEPT ![p] = n]
  /\ GoTo(p, end)
  /\ UNCHANGED <<ringVars, from, left, ends, delivered, faults>>

\* p takes a stretch of n bytes from start and goes to copy it.
TakeStretch(p, n, start, label) ==
  /\ count' = [count EXCEPT ![p] = @ - n]
  /\ from' = [from EXCEPT ![p] = start]
  /\ left' = [left EXCEPT ![p] = n]
  /\ GoTo(p, label)
  /\ UNCHANGED <<page, ends, delivered, faults>>

\* The call returns.
Returns(p) ==
  /\ WakeUp(p, "user")
  /\ count' = [count EXCEPT ![p] = 0]
  /\ UNCHANGED <<ringVars, from, left, ends, delivered, faults>>

\* wake_up() and sleep_on(): p wakes the others and sleeps.
SleepsIn(p, label) ==
  /\ WakeUp(p, label)
  /\ UNCHANGED <<ringVars, callVars, ends, delivered, faults>>

\* One round of read_pipe().
read_pipe(p) ==
  /\ At(p, "read")
  /\ \/ count[p] = 0 /\ Returns(p)
     \/ count[p] > 0 /\ PIPE_SIZE = 0 /\ i_count # 2 /\ Returns(p)
     \/ count[p] > 0 /\ PIPE_SIZE = 0 /\ i_count = 2 /\ SleepsIn(p, "read_sleep")
     \/ /\ count[p] > 0 /\ PIPE_SIZE > 0
        /\ LET chars == Smallest(PAGE_SIZE - tail, count[p], PIPE_SIZE)
           IN  /\ tail' = Wrap(tail + chars)
               /\ TakeStretch(p, chars, tail, "read_copy")
        /\ UNCHANGED head

\* Mutation: a full pipe looks empty.
write_pipe_full(p) ==
  /\ At(p, "write")
  /\ \/ count[p] = 0 /\ Returns(p)
     \/ /\ count[p] > 0
        /\ LET chars == Smallest(PAGE_SIZE - head, count[p], PAGE_SIZE - PIPE_SIZE)
           IN  /\ head' = Wrap(head + chars)
               /\ TakeStretch(p, chars, head, "write_copy")
        /\ UNCHANGED tail

\* Mutation: who has written all wakes nobody.
write_pipe_silent(p) ==
  /\ At(p, "write")
  /\ \/ /\ count[p] = 0 /\ GoTo(p, "user")
        /\ UNCHANGED <<ringVars, callVars, ends, delivered, faults>>
     \/ count[p] > 0 /\ Room = 0 /\ i_count # 2 /\ Returns(p)
     \/ count[p] > 0 /\ Room = 0 /\ i_count = 2 /\ SleepsIn(p, "write_sleep")
     \/ /\ count[p] > 0 /\ Room > 0
        /\ LET chars == Smallest(PAGE_SIZE - head, count[p], Room)
           IN  /\ head' = Wrap(head + chars)
               /\ TakeStretch(p, chars, head, "write_copy")
        /\ UNCHANGED tail

\* One round of write_pipe(), with SIGPIPE left out.
write_pipe(p) ==
  /\ At(p, "write")
  /\ \/ count[p] = 0 /\ Returns(p)
     \/ count[p] > 0 /\ Room = 0 /\ i_count # 2 /\ Returns(p)
     \/ count[p] > 0 /\ Room = 0 /\ i_count = 2 /\ SleepsIn(p, "write_sleep")
     \/ /\ count[p] > 0 /\ Room > 0
        /\ LET chars == Smallest(PAGE_SIZE - head, count[p], Room)
           IN  /\ head' = Wrap(head + chars)
               /\ TakeStretch(p, chars, head, "write_copy")
        /\ UNCHANGED tail

\* How many bytes are copied before the copy sleeps, or ends.
Copied(p) == IF faults THEN 1..left[p] ELSE {left[p]}

\* n bytes of the stretch have been copied; then the call goes on at label.
CopyGoesOn(p, n, label) ==
  /\ left' = [left EXCEPT ![p] = @ - n]
  /\ from' = [from EXCEPT ![p] = IF n = left[p] THEN 0 ELSE @ + n]
  /\ IF n = left[p] THEN GoTo(p, label) ELSE UNCHANGED pc
  /\ UNCHANGED <<head, tail, count, ends, faults>>

\* The loop of put_fs_byte().
ReadCopy(p, n) ==
  /\ At(p, "read_copy")
  /\ delivered' = IF faults THEN <<>> ELSE [i \in 1..n |-> page[from[p] + i - 1]]
  /\ CopyGoesOn(p, n, "read")
  /\ UNCHANGED page

\* The loop of get_fs_byte(), whatever the user has there.
WriteCopy(p, n) ==
  /\ At(p, "write_copy")
  /\ IF faults THEN UNCHANGED page
     ELSE \E new \in [0..n - 1 -> Byte] :
            page' = [i \in Offset |-> IF i \in from[p]..from[p] + n - 1
                                      THEN new[i - from[p]] ELSE page[i]]
  /\ CopyGoesOn(p, n, "write")
  /\ UNCHANGED delivered

\* Mutation: iput() does not wake those who wait for the pipe.
sys_close_silent(p, end) ==
  /\ At(p, "user") /\ end \in ends[p]
  /\ ends' = [ends EXCEPT ![p] = @ \ {end}]
  /\ UNCHANGED <<ringVars, callVars, pc, delivered, faults>>

\* sys_close(), or an exit: the last process to close an end calls iput(),
\* which wakes everybody who waits for the pipe.
sys_close(p, end) ==
  /\ At(p, "user") /\ end \in ends[p]
  /\ ends' = [ends EXCEPT ![p] = @ \ {end}]
  /\ IF \A q \in Process \ {p} : end \notin ends[q]
     THEN WakeUp(p, "user") ELSE UNCHANGED pc
  /\ UNCHANGED <<ringVars, callVars, delivered, faults>>

InKernel(p) ==
  \/ read_pipe(p) \/ write_pipe(p)
  \/ \E n \in Copied(p) : ReadCopy(p, n) \/ WriteCopy(p, n)

PipeNext ==
  \E p \in Process : \/ InKernel(p)
                     \/ \E end \in End : Call(p, end) \/ sys_close(p, end)

-----------------------------------------------------------------------------
(* Properties *)

\* What is in the pipe: a byte is there from the copy in to the copy out.
InTransit(label) == UNION {{left[p]} : p \in {q \in Process : pc[q] = label}}
Ahead(label) == IF InTransit(label) = {} THEN 0 ELSE CHOOSE n \in InTransit(label) : TRUE

PipeBytes ==
  LET first == tail - Ahead("read_copy")
      size  == PIPE_SIZE + Ahead("read_copy") - Ahead("write_copy")
  IN  [i \in 1..size |-> page[(first + i - 1) % PAGE_SIZE]]

\* A reader sleeps only when the pipe is empty, a writer only when it is full,
\* and both only while the other end is open: whoever changes that wakes them,
\* at the latest when its call ends.
PipeSleepers ==
  (\A p \in Process : pc[p] \in {"user", "read_sleep", "write_sleep"}) =>
    \A p \in Process : /\ pc[p] = "read_sleep"  => PIPE_SIZE = 0 /\ i_count = 2
                       /\ pc[p] = "write_sleep" => Room = 0 /\ i_count = 2

\* When the other end has been closed for good every call returns: a reader
\* gets what is left and then the end of the file, a writer an error.
LastOnesReturn ==
  \A p \in Process : (i_count # 2 /\ pc[p] # "user") ~> pc[p] = "user"
==============================================================================
