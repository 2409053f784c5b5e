---------------------------- MODULE BlockRequests ----------------------------
(***************************************************************************)
(* kernel/blk_drv/ll_rw_blk.c and the end_request() of blk.h: how a        *)
(* process asks for a buffer to be read or written, and how the interrupt  *)
(* handler of a driver answers.  One device is modelled.                   *)
(*                                                                         *)
(* A process inside the kernel is at a label pc[p]; it keeps the processor *)
(* (cpu) from label to label until it sleeps or returns to user mode, as   *)
(* the kernel is not preemptible, while an interrupt may come between any  *)
(* two labels.  Waiting is what WaitSet.tla says it is: wait[p] is the     *)
(* queue p sleeps on, a wake-up releases everybody on the queue, and a     *)
(* released process tests its condition again when it gets the processor.  *)
(* A test made under cli() and the sleep that follows it are one step;     *)
(* make_request() sleeps with interrupts enabled, and an interrupt may     *)
(* come inside its sleep_on() too (see LinkForRequest).                    *)
(***************************************************************************)
EXTENDS Naturals, Sequences

CONSTANTS
  Process,         \* the processes in the kernel
  NR_BUFFERS,      \* the number of buffers
  NR_REQUEST,      \* the number of request slots
  Block,           \* the block numbers of the device
  NoBlock,         \* b_dev = 0: the buffer holds no block
  NoRequest,       \* dev = -1: the slot is free; and no arguments
  WaitForRequest,  \* the wait queue wait_for_request
  BufferWait,      \* the wait queue buffer_wait
  NoQueue,         \* not asleep
  Unnamed,         \* asleep on a queue that does not lead to the sleeper any more
  NoProcess,       \* no process is running
  MayFail          \* the commands the device may end with an error

Buffer == 1..NR_BUFFERS
Slot == 1..NR_REQUEST

ASSUME BlockRequestsAssumption ==
  /\ NR_BUFFERS \in Nat \ {0}
  /\ NR_REQUEST \in Nat \ {0}
  /\ Block \subseteq Nat
  /\ NoBlock \notin Block
  /\ NoProcess \notin Process
  /\ MayFail \subseteq {"READ", "WRITE"}
  /\ WaitForRequest \notin Buffer /\ BufferWait \notin Buffer /\ NoQueue \notin Buffer
  /\ WaitForRequest # BufferWait /\ WaitForRequest # NoQueue /\ BufferWait # NoQueue
  /\ Unnamed \notin Buffer \union {WaitForRequest, BufferWait, NoQueue}

\* Of the data in a buffer or on the device only one thing is kept: are they
\* what was last written to the block?  A write makes every other copy stale.
Data == {"current", "stale"}

VARIABLES
  buf,      \* the buffer heads and what b_data holds
  request,  \* the request slots
  queue,    \* blk_dev[].current_request and its next chain
  disk,     \* what is on the device
  pc,       \* the label a process is at
  arg,      \* the arguments of its make_request(), and where that returns to
  wait,     \* the queue it sleeps on
  cpu       \* the process that has the processor

requestVars == <<buf, request, queue, disk, pc, arg, wait, cpu>>

Queue == Buffer \union {WaitForRequest, BufferWait, NoQueue, Unnamed}

BufferHead == [block : Block \union {NoBlock}, count : Nat, lock : BOOLEAN,
               dirt : BOOLEAN, uptodate : BOOLEAN, data : Data]
Request == [cmd : {"READ", "WRITE"}, bh : Buffer, sent : Data]
Arguments == [cmd : {"READ", "WRITE"}, bh : Buffer, ahead : BOOLEAN, ret : {"sync", "read_wait", "ahead", "drop"}]

ASSUME NoRequestAssumption == NoRequest \notin Request \union Arguments

\* sent: what was in the buffer when the request was made.  The driver copies
\* the data at some moment between that and the end of the request.

-----------------------------------------------------------------------------
(* Processes, sleeping and waking *)

\* p has the processor, or schedule() may give it to p.
At(p, label) == pc[p] = label /\ wait[p] = NoQueue /\ cpu \in {p, NoProcess}

Goto(p, label) == pc' = [pc EXCEPT ![p] = label] /\ cpu' = p

SleepOn(p, q) == wait' = [wait EXCEPT ![p] = q] /\ cpu' = NoProcess

Awakened(Q) == [p \in Process |-> IF wait[p] \in Q THEN NoQueue ELSE wait[p]]

\* cli(); while (bh->b_lock) sleep_on(&bh->b_wait): asleep while b is locked,
\* and back at the same label to test again.
WaitOnBuffer(p, label, b) ==
  /\ At(p, label)
  /\ buf[b].lock
  /\ SleepOn(p, b)
  /\ UNCHANGED <<buf, request, queue, disk, pc, arg>>

-----------------------------------------------------------------------------
(* ll_rw_block() *)

\* ll_rw_block(cmd, b), to come back at label.  A read-ahead of a locked
\* buffer is forgotten.
LowLevel(p, cmd, b, ahead, label) ==
  IF ahead /\ buf[b].lock
  THEN Goto(p, label) /\ UNCHANGED arg
  ELSE /\ arg' = [arg EXCEPT ![p] = [cmd |-> cmd, bh |-> b, ahead |-> ahead, ret |-> label]]
       /\ Goto(p, "lock")

\* make_request() returns.
Return(p) == Goto(p, arg[p].ret) /\ arg' = [arg EXCEPT ![p] = NoRequest]

\* The buffer needs no transfer any more.
NothingToDo(a) ==
  \/ a.cmd = "WRITE" /\ ~buf[a.bh].dirt
  \/ a.cmd = "READ" /\ buf[a.bh].uptodate

\* lock_buffer(bh), and the test made once the buffer is locked.
LockBuffer(p) ==
  LET b == arg[p].bh
  IN  /\ At(p, "lock")
      /\ ~buf[b].lock
      /\ IF NothingToDo(arg[p])
         THEN wait' = Awakened({b}) /\ Return(p) /\ UNCHANGED buf
         ELSE /\ buf' = [buf EXCEPT ![b].lock = TRUE]
              /\ Goto(p, "find_request")
              /\ UNCHANGED <<wait, arg>>
      /\ UNCHANGED <<request, queue, disk>>

\* Writes may use the lower two thirds of the slots only.
FreeSlots(cmd) ==
  {s \in Slot : request[s] = NoRequest
                /\ (cmd = "WRITE" => s <= (NR_REQUEST * 2) \div 3)}

\* The elevator: reads go before writes, then by sector.
IN_ORDER(r1, r2) ==
  \/ r1.cmd = "READ" /\ r2.cmd = "WRITE"
  \/ r1.cmd = r2.cmd /\ buf[r1.bh].block < buf[r2.bh].block

\* The loop of add_request() stops at the i-th request of the queue.
StopsAt(i, r) ==
  i < Len(queue) =>
    LET this == request[queue[i]]
        next == request[queue[i + 1]]
    IN  (IN_ORDER(this, r) \/ ~IN_ORDER(this, next)) /\ IN_ORDER(r, next)

\* Slot s with request r goes behind the first such request; the first of
\* the queue is in the hands of the driver and is never passed.
AddRequest(s, r) ==
  IF queue = <<>>
  THEN queue' = <<s>>
  ELSE \E i \in 1..Len(queue) :
         /\ StopsAt(i, r)
         /\ \A j \in 1..(i - 1) : ~StopsAt(j, r)
         /\ queue' = [j \in 1..(Len(queue) + 1) |->
                        IF j <= i THEN queue[j] ELSE IF j = i + 1 THEN s ELSE queue[j - 1]]

\* The highest free slot is filled and queued; queueing clears b_dirt.
FillRequest(p) ==
  LET a == arg[p]
      r == [cmd |-> a.cmd, bh |-> a.bh, sent |-> buf[a.bh].data]
  IN  /\ At(p, "find_request")
      /\ \E s \in FreeSlots(a.cmd) :
           /\ \A other \in FreeSlots(a.cmd) : other <= s
           /\ request' = [request EXCEPT ![s] = r]
           /\ AddRequest(s, r)
      /\ buf' = [buf EXCEPT ![a.bh].dirt = FALSE]
      /\ Return(p)
      /\ UNCHANGED <<disk, wait>>

\* No slot for a read-ahead: it is forgotten.
GiveUpAhead(p) ==
  LET b == arg[p].bh
  IN  /\ At(p, "find_request")
      /\ FreeSlots(arg[p].cmd) = {}
      /\ arg[p].ahead
      /\ buf' = [buf EXCEPT ![b].lock = FALSE]
      /\ wait' = Awakened({b})
      /\ Return(p)
      /\ UNCHANGED <<request, queue, disk>>

\* Mutation: the buffer is unlocked while its process waits for a slot.
NoSlotFoundUnlocked(p) ==
  LET b == arg[p].bh
  IN  /\ At(p, "find_request")
      /\ FreeSlots(arg[p].cmd) = {}
      /\ ~arg[p].ahead
      /\ buf' = [buf EXCEPT ![b].lock = FALSE]
      /\ wait' = Awakened({b})
      /\ Goto(p, "sleep_request")
      /\ UNCHANGED <<request, queue, disk, arg>>

\* No slot: on to sleep_on().  Interrupts are enabled all the time.
NoSlotFound(p) ==
  /\ At(p, "find_request")
  /\ FreeSlots(arg[p].cmd) = {}
  /\ ~arg[p].ahead
  /\ Goto(p, "sleep_request")
  /\ UNCHANGED <<buf, request, queue, disk, arg, wait>>

\* sleep_on(&wait_for_request): the queue names p, and behind it those who
\* were on it, before p is asleep ...
LinkForRequest(p) ==
  /\ At(p, "sleep_request")
  /\ wait' = [wait EXCEPT ![p] = WaitForRequest]
  /\ Goto(p, "linked_request")
  /\ UNCHANGED <<buf, request, queue, disk, arg>>

\* ... and then it goes to sleep, whatever an interrupt did in between.
LieDownForRequest(p) ==
  /\ pc[p] = "linked_request" /\ cpu = p
  /\ pc' = [pc EXCEPT ![p] = "find_request"]
  /\ cpu' = NoProcess
  /\ UNCHANGED <<buf, request, queue, disk, arg, wait>>

SleepForRequest(p) == LinkForRequest(p) \/ LieDownForRequest(p)

MakeRequest(p) ==
  \/ WaitOnBuffer(p, "lock", arg[p].bh)
  \/ LockBuffer(p)
  \/ FillRequest(p)
  \/ GiveUpAhead(p)
  \/ NoSlotFound(p)
  \/ SleepForRequest(p)

-----------------------------------------------------------------------------
(* The driver *)

\* wake_up(&wait_for_request).  If it finds a process that is about to lie
\* down, it clears the queue and the state of that process in vain: nobody
\* names the process any more, nor those who only it would have woken.
SlotWaitersAwakened(q) ==
  IF \E p \in Process : pc[p] = "linked_request"
  THEN [p \in Process |-> IF q[p] = WaitForRequest THEN Unnamed ELSE q[p]]
  ELSE [p \in Process |-> IF q[p] = WaitForRequest THEN NoQueue ELSE q[p]]

\* The interrupt that ends the first request of the queue, well or with an
\* error.  After an error the buffer of a read, or the block of a write, may
\* hold the old data or the new.
EndRequest(uptodate) ==
  /\ queue # <<>>
  /\ uptodate \/ request[Head(queue)].cmd \in MayFail
  /\ LET s == Head(queue)
         r == request[s]
         k == buf[r.bh].block
         read == IF r.cmd = "WRITE" THEN {buf[r.bh].data}
                 ELSE IF uptodate THEN {disk[k]} ELSE {disk[k], buf[r.bh].data}
         written == IF r.cmd = "READ" THEN {disk[k]}
                    ELSE IF uptodate THEN {r.sent, buf[r.bh].data}
                    ELSE {disk[k], r.sent, buf[r.bh].data}
     IN  /\ \E d \in read :
              buf' = [buf EXCEPT ![r.bh].uptodate = uptodate,
                                 ![r.bh].lock = FALSE, ![r.bh].data = d]
         /\ \E d \in written : disk' = [disk EXCEPT ![k] = d]
         /\ wait' = SlotWaitersAwakened(Awakened({r.bh}))
         /\ request' = [request EXCEPT ![s] = NoRequest]
  /\ queue' = Tail(queue)
  /\ UNCHANGED <<pc, arg, cpu>>

-----------------------------------------------------------------------------
(* Properties *)

\* The processes that hold the lock of b between lock_buffer() and the
\* filling of a slot.
Lockers(b) ==
  {p \in Process : pc[p] \in {"find_request", "sleep_request", "linked_request"} /\ arg[p].bh = b}

Requested(b) == {s \in Slot : request[s] # NoRequest /\ request[s].bh = b}

\* The chain of the device holds each filled slot exactly once.
QueueHoldsRequests ==
  /\ \A s \in Slot : request[s] # NoRequest <=> \E i \in 1..Len(queue) : queue[i] = s
  /\ \A i, j \in 1..Len(queue) : queue[i] = queue[j] => i = j

\* A buffer is locked exactly while one process is making a request for it
\* or one request for it is in the chain, never both and never two: the drivers
\* panic on "block not locked" (blk.h), and two requests for one buffer would
\* let the second transfer go on in an unlocked buffer.
LockHasOneOwner ==
  /\ QueueHoldsRequests
  /\ \A b \in Buffer :
       /\ buf[b].lock <=> Lockers(b) # {} \/ Requested(b) # {}
       /\ Lockers(b) = {} \/ Requested(b) = {}
       /\ \A p, q \in Lockers(b) : p = q
       /\ \A s, r \in Requested(b) : s = r

\* Whoever sleeps on wait_for_request will be woken: the queue leads to it,
\* and a request is still queued.  buffer.c says that cli-sti sequences are
\* needed to check for sleep-on-calls, as an interrupt can wake up a caller.
RequestSleeperIsWoken ==
  \A p \in Process :
    /\ wait[p] # Unnamed
    /\ wait[p] = WaitForRequest => queue # <<>>
==============================================================================
