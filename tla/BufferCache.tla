----------------------------- MODULE BufferCache -----------------------------
(***************************************************************************)
(* fs/buffer.c: the buffer cache, with the requests of BlockRequests.tla.  *)
(*                                                                         *)
(* Each process runs one operation after another: it gets a buffer for a   *)
(* block, uses it and releases it the way the file system does.            *)
(*   "read"    bread(), look at the data, brelse()                         *)
(*   "modify"  bread(), change the data and set b_dirt, brelse()           *)
(*   "fresh"   new_block(): getblk(), clear the data and set b_uptodate    *)
(*             and b_dirt, brelse()                                        *)
(*   "write"   block_write() of a whole block: getblk(), change the data   *)
(*             and set b_dirt, brelse()                                    *)
(*   "breada"  breada() with one block to read ahead, brelse()             *)
(*   "sync"    sys_sync()                                                  *)
(* The inode table is taken to be clean: sync_inodes() writes nothing.     *)
(***************************************************************************)
EXTENDS BlockRequests, FiniteSets

CONSTANTS
  Ops,       \* the operations each process uses
  NoBuffer   \* NULL

Operation == {"read", "modify", "fresh", "write", "breada", "sync"}

ASSUME BufferCacheAssumption ==
  /\ IsFiniteSet(Process)
  /\ Ops \in [Process -> SUBSET Operation]
  /\ NoBuffer \notin Buffer

VARIABLES
  free_list,  \* all buffers, in the order getblk() looks at them
  op,         \* the operation of a process, or "none"
  want,       \* the block it calls getblk() for
  bh,         \* the buffer it holds
  first,      \* breada(): the buffer of the first block
  victim,     \* the buffer getblk() means to use again
  scan        \* how far its sys_sync() or sync_dev() is

cacheVars == <<free_list, op, want, bh, first, victim, scan>>
vars == <<requestVars, cacheVars>>

Label == {"user", "getblk", "hash_wait", "free_wait", "sync", "lock",
          "find_request", "sleep_request", "linked_request", "read_wait", "ahead", "drop",
          "use", "brelse"}

TypeOK ==
  /\ buf       \in [Buffer -> BufferHead]
  /\ request   \in [Slot -> Request \union {NoRequest}]
  /\ queue     \in Seq(Slot)
  /\ disk      \in [Block -> Data]
  /\ pc        \in [Process -> Label]
  /\ arg       \in [Process -> Arguments \union {NoRequest}]
  /\ wait      \in [Process -> Queue]
  /\ cpu       \in Process \union {NoProcess}
  /\ free_list \in Seq(Buffer)
  /\ op        \in [Process -> Operation \union {"none"}]
  /\ want      \in [Process -> Block \union {NoBlock}]
  /\ bh        \in [Process -> Buffer \union {NoBuffer}]
  /\ first     \in [Process -> Buffer \union {NoBuffer}]
  /\ victim    \in [Process -> Buffer \union {NoBuffer}]
  /\ scan      \in [Process -> 0..(2 * NR_BUFFERS + 1)]

\* buffer_init() and blk_dev_init().
Init ==
  /\ buf = [b \in Buffer |-> [block |-> NoBlock, count |-> 0, lock |-> FALSE,
                              dirt |-> FALSE, uptodate |-> FALSE, data |-> "stale"]]
  /\ request = [s \in Slot |-> NoRequest]
  /\ queue = <<>>
  /\ disk = [k \in Block |-> "current"]
  /\ pc = [p \in Process |-> "user"]
  /\ arg = [p \in Process |-> NoRequest]
  /\ wait = [p \in Process |-> NoQueue]
  /\ cpu = NoProcess
  /\ free_list = [b \in Buffer |-> b]
  /\ op = [p \in Process |-> "none"]
  /\ want = [p \in Process |-> NoBlock]
  /\ bh = [p \in Process |-> NoBuffer]
  /\ first = [p \in Process |-> NoBuffer]
  /\ victim = [p \in Process |-> NoBuffer]
  /\ scan = [p \in Process |-> 0]

-----------------------------------------------------------------------------
(* The beginning and the end of an operation *)

StartSync(p) ==
  /\ At(p, "user")
  /\ "sync" \in Ops[p]
  /\ op' = [op EXCEPT ![p] = "sync"]
  /\ scan' = [scan EXCEPT ![p] = NR_BUFFERS + 1]
  /\ Goto(p, "sync")
  /\ UNCHANGED <<buf, request, queue, disk, arg, wait,
                 free_list, want, bh, first, victim>>

\* new_block() gets a block that was free in the bitmap: no file has it yet,
\* and no other process asks for it.
MayStart(p, o, k) ==
  \A q \in Process \ {p} : o = "fresh" \/ op[q] = "fresh" => want[q] # k

Start(p) ==
  /\ At(p, "user")
  /\ \E o \in Ops[p] \ {"sync"}, k \in Block :
       /\ MayStart(p, o, k)
       /\ op' = [op EXCEPT ![p] = o]
       /\ want' = [want EXCEPT ![p] = k]
  /\ Goto(p, "getblk")
  /\ UNCHANGED <<buf, request, queue, disk, arg, wait,
                 free_list, bh, first, victim, scan>>

\* Back to user mode, where the process may lose the processor.
Finish(p) ==
  /\ op' = [op EXCEPT ![p] = "none"]
  /\ want' = [want EXCEPT ![p] = NoBlock]
  /\ pc' = [pc EXCEPT ![p] = "user"]
  /\ cpu' = NoProcess

-----------------------------------------------------------------------------
(* getblk() *)

\* find_buffer(dev, block), as a set.
find_buffer(k) == {b \in Buffer : buf[b].block = k}

\* getblk() returns b to bread(), breada(), new_block() or block_write().
GetblkReturns(p, b, uptodate) ==
  LET breada == op[p] = "breada"
      next == IF breada THEN (IF first[p] = NoBuffer THEN "ahead" ELSE "drop")
              ELSE "use"
  IN  IF uptodate \/ op[p] \in {"fresh", "write"}
      THEN Goto(p, next) /\ UNCHANGED arg
      ELSE IF breada
      THEN IF first[p] = NoBuffer THEN LowLevel(p, "READ", b, FALSE, next)
                                  ELSE LowLevel(p, "READ", first[p], TRUE, next)
      ELSE LowLevel(p, "READ", b, FALSE, "read_wait")

\* Mutation: get_hash_table() takes no reference.
FindInHashUncounted(p) ==
  /\ At(p, "getblk")
  /\ \E b \in find_buffer(want[p]) : bh' = [bh EXCEPT ![p] = b]
  /\ Goto(p, "hash_wait")
  /\ UNCHANGED <<buf, request, queue, disk, arg, wait,
                 free_list, op, want, first, victim, scan>>

\* get_hash_table() finds a buffer and takes a reference before it waits.
FindInHash(p) ==
  /\ At(p, "getblk")
  /\ \E b \in find_buffer(want[p]) :
       /\ buf' = [buf EXCEPT ![b].count = @ + 1]
       /\ bh' = [bh EXCEPT ![p] = b]
  /\ Goto(p, "hash_wait")
  /\ UNCHANGED <<request, queue, disk, arg, wait,
                 free_list, op, want, first, victim, scan>>

\* After the wait the buffer must still be the one that was asked for.
HashWaited(p) ==
  LET b == bh[p]
  IN  /\ At(p, "hash_wait")
      /\ ~buf[b].lock
      /\ IF buf[b].block = want[p]
         THEN GetblkReturns(p, b, buf[b].uptodate) /\ UNCHANGED <<buf, bh>>
         ELSE /\ buf' = [buf EXCEPT ![b].count = @ - 1]
              /\ bh' = [bh EXCEPT ![p] = NoBuffer]
              /\ Goto(p, "getblk")
              /\ UNCHANGED arg
      /\ UNCHANGED <<request, queue, disk, wait,
                     free_list, op, want, first, victim, scan>>

BADNESS(b) == (IF buf[b].dirt THEN 2 ELSE 0) + (IF buf[b].lock THEN 1 ELSE 0)

Unused == {i \in 1..Len(free_list) : buf[free_list[i]].count = 0}

\* The first unused buffer of the free list among those that are least bad.
ChooseVictim(p) ==
  /\ At(p, "getblk")
  /\ find_buffer(want[p]) = {}
  /\ \E i \in Unused :
       /\ \A j \in Unused : BADNESS(free_list[i]) <= BADNESS(free_list[j])
       /\ \A j \in Unused : j < i => BADNESS(free_list[i]) < BADNESS(free_list[j])
       /\ victim' = [victim EXCEPT ![p] = free_list[i]]
  /\ Goto(p, "free_wait")
  /\ UNCHANGED <<buf, request, queue, disk, arg, wait,
                 free_list, op, want, bh, first, scan>>

\* Every buffer is in use.
SleepForBuffer(p) ==
  /\ At(p, "getblk")
  /\ find_buffer(want[p]) = {}
  /\ Unused = {}
  /\ SleepOn(p, BufferWait)
  /\ UNCHANGED <<buf, request, queue, disk, pc, arg, cacheVars>>

\* goto repeat: somebody else took the victim, or brought in the block.
GetblkRepeats(p, b) ==
  /\ victim' = [victim EXCEPT ![p] = NoBuffer]
  /\ Goto(p, "getblk")
  /\ UNCHANGED <<buf, arg, free_list, bh, scan>>

\* sync_dev(bh->b_dev)
CleanVictim(p) ==
  /\ scan' = [scan EXCEPT ![p] = 1]
  /\ Goto(p, "sync")
  /\ UNCHANGED <<buf, arg, free_list, bh, victim>>

\* remove_from_queues(), insert_into_queues(): b goes to the end of the free
\* list.
ToEnd(b) ==
  \E i \in 1..Len(free_list) :
    /\ free_list[i] = b
    /\ free_list' = SubSeq(free_list, 1, i - 1)
                      \o SubSeq(free_list, i + 1, Len(free_list)) \o <<b>>

\* Mutation: b_uptodate is not cleared.
TakeUptodate(p, b) ==
  /\ buf' = [buf EXCEPT ![b].block = want[p], ![b].count = 1, ![b].dirt = FALSE,
                        ![b].data = "stale"]
  /\ ToEnd(b)
  /\ bh' = [bh EXCEPT ![p] = b]
  /\ victim' = [victim EXCEPT ![p] = NoBuffer]
  /\ GetblkReturns(p, b, buf[b].uptodate)
  /\ UNCHANGED scan

\* The victim gets its new block and is put last.
TakeVictim(p, b) ==
  /\ buf' = [buf EXCEPT ![b].block = want[p], ![b].count = 1, ![b].dirt = FALSE,
                        ![b].uptodate = FALSE, ![b].data = "stale"]
  /\ ToEnd(b)
  /\ bh' = [bh EXCEPT ![p] = b]
  /\ victim' = [victim EXCEPT ![p] = NoBuffer]
  /\ GetblkReturns(p, b, FALSE)
  /\ UNCHANGED scan

\* Mutation: the tests of b_count are left out.
VictimInUse(p) ==
  LET b == victim[p]
  IN  /\ At(p, "free_wait")
      /\ ~buf[b].lock
      /\ \/ buf[b].dirt /\ CleanVictim(p)
         \/ /\ ~buf[b].dirt
            /\ IF find_buffer(want[p]) # {} THEN GetblkRepeats(p, b)
                                            ELSE TakeVictim(p, b)
      /\ UNCHANGED <<request, queue, disk, wait, op, want, first>>

\* Mutation: the victim is not written back.
VictimDirty(p) ==
  LET b == victim[p]
  IN  /\ At(p, "free_wait")
      /\ ~buf[b].lock
      /\ IF buf[b].count # 0 \/ find_buffer(want[p]) # {} THEN GetblkRepeats(p, b)
                                                         ELSE TakeVictim(p, b)
      /\ UNCHANGED <<request, queue, disk, wait, op, want, first>>

\* Mutation: nobody looks whether the block has been brought in meanwhile.
VictimNotUnique(p) ==
  LET b == victim[p]
  IN  /\ At(p, "free_wait")
      /\ ~buf[b].lock
      /\ \/ buf[b].count # 0 /\ GetblkRepeats(p, b)
         \/ buf[b].count = 0 /\ buf[b].dirt /\ CleanVictim(p)
         \/ buf[b].count = 0 /\ ~buf[b].dirt /\ TakeVictim(p, b)
      /\ UNCHANGED <<request, queue, disk, wait, op, want, first>>

\* After the wait for the victim, everything is tested again.
VictimWaited(p) ==
  LET b == victim[p]
  IN  /\ At(p, "free_wait")
      /\ ~buf[b].lock
      /\ \/ buf[b].count # 0 /\ GetblkRepeats(p, b)
         \/ buf[b].count = 0 /\ buf[b].dirt /\ CleanVictim(p)
         \/ /\ buf[b].count = 0 /\ ~buf[b].dirt
            /\ IF find_buffer(want[p]) # {} THEN GetblkRepeats(p, b)
                                            ELSE TakeVictim(p, b)
      /\ UNCHANGED <<request, queue, disk, wait, op, want, first>>

-----------------------------------------------------------------------------
(* sys_sync() and sync_dev() *)

\* sync_dev() goes over the buffers twice, sys_sync() once: scan counts from
\* 1, or from NR_BUFFERS + 1, to the end of the second round.
Scanned(p) == IF scan[p] <= NR_BUFFERS THEN scan[p] ELSE scan[p] - NR_BUFFERS

\* sync_dev() passes over the buffers of other devices, and so over those
\* that hold no block; sys_sync() waits for every buffer.
Skips(p) == op[p] # "sync" /\ buf[Scanned(p)].block = NoBlock

SyncWait(p) ==
  /\ pc[p] = "sync" /\ scan[p] <= 2 * NR_BUFFERS
  /\ ~Skips(p)
  /\ WaitOnBuffer(p, "sync", Scanned(p))
  /\ UNCHANGED cacheVars

\* Mutation: the dirty buffers are not written.
SyncNothing(p) ==
  /\ At(p, "sync")
  /\ scan[p] <= 2 * NR_BUFFERS
  /\ scan' = [scan EXCEPT ![p] = @ + 1]
  /\ Goto(p, "sync")
  /\ UNCHANGED <<buf, request, queue, disk, arg, wait,
                 free_list, op, want, bh, first, victim>>

\* The next buffer, once it is unlocked: written if it is dirty.
SyncBuffer(p) ==
  LET b == Scanned(p)
  IN  /\ At(p, "sync")
      /\ scan[p] <= 2 * NR_BUFFERS
      /\ Skips(p) \/ ~buf[b].lock
      /\ scan' = [scan EXCEPT ![p] = @ + 1]
      /\ IF ~Skips(p) /\ buf[b].dirt
         THEN LowLevel(p, "WRITE", b, FALSE, "sync")
         ELSE Goto(p, "sync") /\ UNCHANGED arg
      /\ UNCHANGED <<buf, request, queue, disk, wait,
                     free_list, op, want, bh, first, victim>>

\* sync_dev() returns to getblk(), which waits for its victim again.
SyncDone(p) ==
  /\ At(p, "sync")
  /\ scan[p] > 2 * NR_BUFFERS
  /\ scan' = [scan EXCEPT ![p] = 0]
  /\ IF op[p] = "sync" THEN Finish(p)
                       ELSE Goto(p, "free_wait") /\ UNCHANGED <<op, want>>
  /\ UNCHANGED <<buf, request, queue, disk, arg, wait,
                 free_list, bh, first, victim>>

-----------------------------------------------------------------------------
(* bread(), breada() and brelse() *)

\* The read is over: the buffer is used, or released as unreadable.
ReadWaited(p) ==
  /\ At(p, "read_wait")
  /\ ~buf[bh[p]].lock
  /\ Goto(p, IF buf[bh[p]].uptodate THEN "use" ELSE "brelse")
  /\ UNCHANGED <<buf, request, queue, disk, arg, wait, cacheVars>>

\* breada() keeps the first buffer and calls getblk() for the next block.
Ahead(p) ==
  /\ At(p, "ahead")
  /\ \E k \in Block \ {want[p]} : want' = [want EXCEPT ![p] = k]
  /\ first' = [first EXCEPT ![p] = bh[p]]
  /\ bh' = [bh EXCEPT ![p] = NoBuffer]
  /\ Goto(p, "getblk")
  /\ UNCHANGED <<buf, request, queue, disk, arg, wait,
                 free_list, op, victim, scan>>

\* breada(): tmp->b_count--, with no wake_up().
Drop(p) ==
  /\ At(p, "drop")
  /\ buf' = [buf EXCEPT ![bh[p]].count = @ - 1]
  /\ bh' = [bh EXCEPT ![p] = first[p]]
  /\ first' = [first EXCEPT ![p] = NoBuffer]
  /\ want' = [want EXCEPT ![p] = buf[first[p]].block]
  /\ Goto(p, "read_wait")
  /\ UNCHANGED <<request, queue, disk, arg, wait, free_list, op, victim, scan>>

\* The caller sleeps for another reason while it holds the buffer: it reads
\* another block, an inode, or a page of its own memory.  new_block() does not.
Nap(p) ==
  /\ pc[p] = "use" /\ cpu = p /\ op[p] # "fresh"
  /\ cpu' = NoProcess
  /\ UNCHANGED <<buf, request, queue, disk, pc, arg, wait, cacheVars>>

\* The data of b become what was written last to its block.
Written(b, u) ==
  /\ buf' = [buf EXCEPT ![b].data = "current", ![b].dirt = TRUE, ![b].uptodate = u]
  /\ disk' = [disk EXCEPT ![buf[b].block] = "stale"]
  /\ request' = [s \in Slot |-> IF s \in Requested(b)
                               THEN [request[s] EXCEPT !.sent = "stale"]
                               ELSE request[s]]

\* What the callers do with the buffer.
Use(p) ==
  /\ At(p, "use")
  /\ IF op[p] \in {"modify", "fresh", "write"}
     THEN Written(bh[p], buf[bh[p]].uptodate \/ op[p] = "fresh")
     ELSE UNCHANGED <<buf, disk, request>>
  /\ Goto(p, "brelse")
  /\ UNCHANGED <<queue, arg, wait, cacheVars>>

\* Mutation: nobody is told that a buffer is free again.
brelse_silent(p) ==
  /\ At(p, "brelse")
  /\ ~buf[bh[p]].lock
  /\ buf' = [buf EXCEPT ![bh[p]].count = @ - 1]
  /\ bh' = [bh EXCEPT ![p] = NoBuffer]
  /\ Finish(p)
  /\ UNCHANGED <<request, queue, disk, arg, wait, free_list, first, victim, scan>>

brelse(p) ==
  /\ At(p, "brelse")
  /\ ~buf[bh[p]].lock
  /\ buf' = [buf EXCEPT ![bh[p]].count = @ - 1]
  /\ bh' = [bh EXCEPT ![p] = NoBuffer]
  /\ wait' = Awakened({BufferWait})
  /\ Finish(p)
  /\ UNCHANGED <<request, queue, disk, arg, free_list, first, victim, scan>>

-----------------------------------------------------------------------------
CacheStep(p) ==
  \/ FindInHash(p) \/ HashWaited(p)
  \/ ChooseVictim(p) \/ SleepForBuffer(p) \/ VictimWaited(p)
  \/ SyncBuffer(p) \/ SyncWait(p) \/ SyncDone(p)
  \/ ReadWaited(p) \/ Ahead(p) \/ Drop(p) \/ Use(p) \/ brelse(p)
  \/ /\ \/ WaitOnBuffer(p, "hash_wait", bh[p])
        \/ WaitOnBuffer(p, "free_wait", victim[p])
        \/ WaitOnBuffer(p, "read_wait", bh[p])
        \/ WaitOnBuffer(p, "brelse", bh[p])
        \/ MakeRequest(p)
     /\ UNCHANGED cacheVars

Next ==
  \/ \E p \in Process : CacheStep(p) \/ Start(p) \/ StartSync(p) \/ Nap(p)
  \/ \E uptodate \in BOOLEAN : EndRequest(uptodate) /\ UNCHANGED cacheVars

Spec == Init /\ [][Next]_vars

\* The scheduler passes no runnable process over for ever (Sched.tla), and the
\* device ends every request.  Nothing makes a process begin an operation.
Fairness ==
  /\ \A p \in Process : SF_vars(CacheStep(p))
  /\ WF_vars(EndRequest(TRUE) /\ UNCHANGED cacheVars)

FairSpec == Spec /\ Fairness

-----------------------------------------------------------------------------
(* Properties *)

\* No two buffers hold the same block: "we know that this buffer is the only
\* one of it's kind" (getblk()), although getblk() may sleep many times
\* between looking for the block and bringing it in.
UniqueBuffer ==
  \A b, c \in Buffer : buf[b].block = buf[c].block /\ buf[b].block # NoBlock => b = c

\* The processes whose pointer f refers to b.
Holders(f, b) == {p \in Process : f[p] = b}

\* b_count is the number of pointers to the buffer that processes hold: no
\* buffer in use is ever taken for another block, and brelse() never frees a
\* free buffer (it would panic).  The loops stay inside their tables.
CountIsReferences ==
  /\ TypeOK
  /\ \A b \in Buffer : buf[b].count = Cardinality(Holders(bh, b)) + Cardinality(Holders(first, b))

\* A process that has got its buffer keeps it: however long it sleeps, the
\* buffer holds the block the process asked for.
HeldBufferKeepsBlock ==
  \A p \in Process : bh[p] # NoBuffer => buf[bh[p]].block = want[p]

\* A block's last contents are on the device, or in the one buffer that
\* holds it, which is dirty or about to be written.
NothingLost ==
  \A k \in Block :
    \/ disk[k] = "current"
    \/ \E b \in find_buffer(k) :
         /\ buf[b].data = "current"
         /\ buf[b].dirt \/ \E s \in Requested(b) : request[s].cmd = "WRITE"

\* Whoever has read a block sees what was written to it last.
ReadsAreCurrent ==
  \A p \in Process :
    pc[p] = "use" /\ op[p] \in {"read", "modify", "breada"} => buf[bh[p]].data = "current"

\* Nobody sleeps for ever: every wake_up() that somebody relies on comes,
\* from the interrupt, from brelse() or from another process's system call;
\* unless make_request() has lost one.
SleepersWoken ==
  []RequestSleeperIsWoken =>
    \A p \in Process : wait[p] # NoQueue ~> wait[p] = NoQueue

\* The processes never keep each other from finishing: getblk() starts again
\* whenever it has slept, and sync_dev() makes others sleep, but somebody gets
\* back to user mode again and again.  (One process may be overtaken for ever.)
SomebodyFinishes ==
  []RequestSleeperIsWoken => []<>(\E p \in Process : pc[p] = "user")
==============================================================================
