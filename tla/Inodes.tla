------------------------------- MODULE Inodes -------------------------------
(***************************************************************************)
(* The table of inodes in memory and the bitmaps behind it: fs/inode.c,    *)
(* fs/bitmap.c and fs/truncate.c.                                          *)
(*                                                                         *)
(* A process in the kernel runs until it sleeps, so a label of a process   *)
(* is a point where it may have to give the processor away, or the entry   *)
(* of a function; cpu names the process that runs.  Each function of the   *)
(* source is called with Call and left with Return, as there: a frame of   *)
(* the stack keeps the caller's label and the caller's inode.              *)
(*                                                                         *)
(* Sleep points are the buffer cache (bread, getblk, a wait for a locked   *)
(* buffer), which may sleep each time, and i_lock.  A process waits for    *)
(* i_lock in a loop around sleep_on(), so it goes on in a state where the  *)
(* inode is not locked; that the wake-up arrives is the subject of         *)
(* WaitQueue.  Blocks of inodes are read and written through the buffer    *)
(* cache, which hands out the current contents: d_inode is what the cache  *)
(* and the disk hold together.                                             *)
(*                                                                         *)
(* An inode has one zone, i_zone[0]; all files are regular and all on one  *)
(* device.  Pipes (Pipe.tla), mounts and block devices are left out.       *)
(***************************************************************************)
EXTENDS Naturals, Sequences, FiniteSetsExt

CONSTANTS Procs,      \* the processes
          Nobody,     \* no process runs
          NR_INODE,   \* slots of inode_table
          NInodes,    \* inodes of the device, s_ninodes
          NZones      \* data blocks of the device

ASSUME InodesAssumption ==
    /\ NR_INODE \in Nat \ {0} /\ NInodes \in Nat \ {0} /\ NZones \in Nat
    /\ IsFiniteSet(Procs) /\ Nobody \notin Procs

VARIABLES inode,        \* slot -> inode in memory
          last_inode,   \* where get_empty_inode() looked last
          d_inode,      \* number -> the part of an inode kept on disk
          imap, zmap,   \* numbers and zones whose bit is set
          proc,         \* process -> where it is, and its local variables
          cpu,          \* the process that runs in the kernel, or Nobody
          panic         \* "" or the message the kernel stopped with

inodeVars == <<inode, last_inode, d_inode, imap, zmap>>
procVars == <<proc, cpu, panic>>

Slots == 1..NR_INODE
Numbers == 1..NInodes
Zones == 1..NZones

(* What memset() leaves of an inode. *)
ZeroInode == [num |-> 0, count |-> 0, nlinks |-> 0, dirt |-> FALSE,
              lock |-> FALSE, zone |-> 0]

(* Outside of a system call. *)
AtUser == [at |-> "user", op |-> "none", name |-> 0, ip |-> 0, empty |-> 0,
           nr |-> 0, blk |-> 0, de |-> 0, stack |-> <<>>]

InodesInit ==
    /\ inode = [s \in Slots |-> ZeroInode]
    /\ last_inode = 1
    /\ proc = [p \in Procs |-> AtUser]
    /\ cpu = Nobody
    /\ panic = ""

-----------------------------------------------------------------------------
(* Running, sleeping, calling and returning *)

(* Labels of a process that may be in a wait for the buffer cache, for the *)
(* directory's inode or for a page of the user.                            *)
Yields == {"user", "read_bread", "write_bread", "free_block", "getblk",
           "bread", "copy", "find_entry", "add_entry", "iput_dir"}

(* Labels that begin with wait_on_inode() or lock_inode(). *)
Waits == {"gei_wait", "iget_wait", "read_inode", "write_inode", "iput",
          "iput_again", "sync_inodes"}

Blocked(f, tab) == f.at \in Waits /\ tab[f.ip].lock

(* p runs from the given label. *)
At(p, label) ==
    /\ panic = ""
    /\ cpu \in {p, Nobody}
    /\ proc[p].at = label
    /\ ~Blocked(proc[p], inode)

(* p goes on as f says, and keeps the processor unless it may sleep there. *)
(* Its local variables are gone when the call ends.                        *)
Goto(p, f) ==
    /\ proc' = [proc EXCEPT ![p] = IF f.at = "user" THEN AtUser ELSE f]
    /\ cpu' = IF f.at \in Yields \/ Blocked(f, inode') THEN Nobody ELSE p
    /\ UNCHANGED panic

Panic(p, msg) == panic' = msg /\ UNCHANGED <<proc, cpu>>

Frame(label, s) == [at |-> label, ip |-> s]

(* proc[p] when it calls a function on slot s and goes on at label ret. *)
Calls(f, label, s, ret) ==
    [f EXCEPT !.at = label, !.ip = s,
              !.stack = <<Frame(ret, f.ip)>> \o f.stack]

Returns(f) == [f EXCEPT !.at = Head(f.stack).at, !.ip = Head(f.stack).ip,
                        !.stack = Tail(f.stack)]
ReturnsInode(f, s) == [Returns(f) EXCEPT !.ip = s]

(* The last call of a function, whose result is inode s. *)
TailCalls(f, label, arg, s) ==
    [f EXCEPT !.at = label, !.ip = arg,
              !.stack = <<Frame(Head(f.stack).at, s)>> \o Tail(f.stack)]

-----------------------------------------------------------------------------
(* fs/inode.c *)

(* get_empty_inode() looks at each slot, beginning behind last_inode; it   *)
(* stops at the first that is unused, clean and unlocked, and otherwise    *)
(* keeps the last unused one it saw.                                       *)
Nth(i) == ((last_inode + i - 1) % NR_INODE) + 1
Unused(i) == inode[Nth(i)].count = 0
Ready(i) == Unused(i) /\ ~inode[Nth(i)].dirt /\ ~inode[Nth(i)].lock

get_empty_inode(p) ==
    /\ At(p, "get_empty_inode")
    /\ LET unused == {i \in Slots : Unused(i)}
           ready == {i \in Slots : Ready(i)}
           i == IF ready # {} THEN Min(ready) ELSE Max(unused)
       IN IF unused = {}
            THEN Panic(p, "No free inodes in mem") /\ UNCHANGED inodeVars
            ELSE /\ last_inode' = IF ready # {} THEN Nth(i) ELSE last_inode
                 /\ UNCHANGED <<inode, d_inode, imap, zmap>>
                 /\ Goto(p, [proc[p] EXCEPT !.at = "gei_wait", !.ip = Nth(i)])

(* The loop of get_empty_inode(): the inode is written while it is dirty;  *)
(* if somebody uses it by then the search starts again.                    *)
get_empty_inode_loop(p) ==
    LET f == proc[p]
        s == f.ip
    IN /\ At(p, "gei_wait")
       /\ UNCHANGED <<last_inode, d_inode, imap, zmap>>
       /\ IF inode[s].dirt
            THEN /\ UNCHANGED inode
                 /\ Goto(p, Calls(f, "write_inode", s, "gei_wait"))
            ELSE IF inode[s].count # 0
            THEN /\ UNCHANGED inode
                 /\ Goto(p, [f EXCEPT !.at = "get_empty_inode", !.ip = 0])
            ELSE /\ inode' = [inode EXCEPT ![s] = [ZeroInode EXCEPT !.count = 1]]
                 /\ Goto(p, [ReturnsInode(f, s) EXCEPT !.empty = s])

(* iget() behind its call of get_empty_inode(). *)
iget_search(p) ==
    LET f == proc[p]
        found == {s \in Slots : inode[s].num = f.nr}
    IN /\ At(p, "iget_search")
       /\ UNCHANGED <<last_inode, d_inode, imap, zmap>>
       /\ IF found # {}
            THEN /\ UNCHANGED inode
                 /\ Goto(p, [f EXCEPT !.at = "iget_wait", !.ip = Min(found)])
            ELSE /\ inode' = [inode EXCEPT ![f.empty].num = f.nr]
                 /\ Goto(p, [f EXCEPT !.at = "read_inode", !.ip = f.empty])

(* Mutant: the inode is not looked at again after the wait. *)
iget_found_unchecked(p) ==
    /\ At(p, "iget_wait")
    /\ UNCHANGED <<last_inode, d_inode, imap, zmap>>
    /\ inode' = [inode EXCEPT ![proc[p].ip].count = @ + 1]
    /\ Goto(p, TailCalls(proc[p], "iput", proc[p].empty, proc[p].ip))

(* Mutant: the empty inode is not given back. *)
iget_found_keeps(p) ==
    /\ At(p, "iget_wait")
    /\ UNCHANGED <<last_inode, d_inode, imap, zmap>>
    /\ IF inode[proc[p].ip].num # proc[p].nr
         THEN UNCHANGED inode /\ Goto(p, [proc[p] EXCEPT !.at = "iget_search"])
         ELSE /\ inode' = [inode EXCEPT ![proc[p].ip].count = @ + 1]
              /\ Goto(p, ReturnsInode(proc[p], proc[p].ip))

(* The inode was found; it is looked at again after the wait for its lock. *)
iget_found(p) ==
    LET f == proc[p]
    IN /\ At(p, "iget_wait")
       /\ UNCHANGED <<last_inode, d_inode, imap, zmap>>
       /\ IF inode[f.ip].num # f.nr
            THEN UNCHANGED inode /\ Goto(p, [f EXCEPT !.at = "iget_search"])
            ELSE /\ inode' = [inode EXCEPT ![f.ip].count = @ + 1]
                 /\ Goto(p, TailCalls(f, "iput", f.empty, f.ip))

(* read_inode(), up to bread() and behind it *)
read_inode(p) ==
    /\ At(p, "read_inode")
    /\ inode' = [inode EXCEPT ![proc[p].ip].lock = TRUE]
    /\ UNCHANGED <<last_inode, d_inode, imap, zmap>>
    /\ Goto(p, [proc[p] EXCEPT !.at = "read_bread"])

read_inode_end(p) ==
    LET s == proc[p].ip
    IN /\ At(p, "read_bread")
       /\ inode' = [inode EXCEPT ![s].lock = FALSE,
                                 ![s].nlinks = d_inode[inode[s].num].nlinks,
                                 ![s].zone = d_inode[inode[s].num].zone]
       /\ UNCHANGED <<last_inode, d_inode, imap, zmap>>
       /\ Goto(p, ReturnsInode(proc[p], s))

(* write_inode(), up to bread() and behind it.  The place in the block is  *)
(* computed after bread(): (i_num-1) % INODES_PER_BLOCK is unsigned, and   *)
(* takes an i_num of 0 to the last inode of the block.                     *)
DiskIndex(n) == IF n = 0 THEN NInodes ELSE n

write_inode(p) ==
    LET s == proc[p].ip
    IN /\ At(p, "write_inode")
       /\ UNCHANGED <<last_inode, d_inode, imap, zmap>>
       /\ IF ~inode[s].dirt \/ inode[s].num = 0
            THEN UNCHANGED inode /\ Goto(p, Returns(proc[p]))
            ELSE /\ inode' = [inode EXCEPT ![s].lock = TRUE]
                 /\ Goto(p, [proc[p] EXCEPT !.at = "write_bread"])

write_inode_end(p) ==
    LET s == proc[p].ip
    IN /\ At(p, "write_bread")
       /\ d_inode' = [d_inode EXCEPT ![DiskIndex(inode[s].num)] =
                        [nlinks |-> inode[s].nlinks, zone |-> inode[s].zone]]
       /\ inode' = [inode EXCEPT ![s].lock = FALSE, ![s].dirt = FALSE]
       /\ UNCHANGED <<last_inode, imap, zmap>>
       /\ Goto(p, Returns(proc[p]))

(* Mutant: an inode without links is freed while others use it. *)
iput_repeat_early(p) ==
    LET f == proc[p]
        s == f.ip
    IN /\ UNCHANGED <<last_inode, d_inode, imap, zmap>>
       /\ IF inode[s].nlinks = 0
            THEN UNCHANGED inode /\ Goto(p, Calls(f, "truncate", s, "free_inode"))
            ELSE IF inode[s].count = 1 /\ inode[s].dirt
            THEN UNCHANGED inode /\ Goto(p, Calls(f, "write_inode", s, "iput_again"))
            ELSE /\ inode' = [inode EXCEPT ![s].count = @ - 1]
                 /\ Goto(p, Returns(f))

(* iput(), from the label "repeat" on *)
iput_repeat(p) ==
    LET f == proc[p]
        s == f.ip
    IN /\ UNCHANGED <<last_inode, d_inode, imap, zmap>>
       /\ \/ /\ inode[s].count > 1
             /\ inode' = [inode EXCEPT ![s].count = @ - 1]
             /\ Goto(p, Returns(f))
          \/ /\ inode[s].count <= 1 /\ inode[s].nlinks = 0
             /\ UNCHANGED inode
             /\ Goto(p, Calls(f, "truncate", s, "free_inode"))
          \/ /\ inode[s].count <= 1 /\ inode[s].nlinks # 0 /\ inode[s].dirt
             /\ UNCHANGED inode
             /\ Goto(p, Calls(f, "write_inode", s, "iput_again"))
          \/ /\ inode[s].count <= 1 /\ inode[s].nlinks # 0 /\ ~inode[s].dirt
             /\ inode' = [inode EXCEPT ![s].count = @ - 1]
             /\ Goto(p, Returns(f))

iput(p) ==
    LET f == proc[p]
        s == f.ip
    IN /\ At(p, "iput") \/ At(p, "iput_again")
       /\ IF f.at = "iput" /\ inode[s].count = 0
            THEN /\ Panic(p, "iput: trying to free free inode")
                 /\ UNCHANGED inodeVars
            ELSE IF f.at = "iput" /\ inode[s].num = 0
            THEN /\ inode' = [inode EXCEPT ![s].count = @ - 1]
                 /\ UNCHANGED <<last_inode, d_inode, imap, zmap>>
                 /\ Goto(p, Returns(f))
            ELSE iput_repeat(p)

(* sync_inodes(): ip goes through the table *)
NextSlot(p) ==
    IF proc[p].ip < NR_INODE
      THEN [proc[p] EXCEPT !.ip = @ + 1]
      ELSE Returns(proc[p])

sync_inodes(p) ==
    LET s == proc[p].ip
    IN /\ At(p, "sync_inodes")
       /\ UNCHANGED inodeVars
       /\ IF inode[s].dirt
            THEN Goto(p, Calls(NextSlot(p), "write_inode", s, NextSlot(p).at))
            ELSE Goto(p, NextSlot(p))

-----------------------------------------------------------------------------
(* fs/truncate.c and fs/bitmap.c *)

(* truncate(); free_block() may wait for the buffer of the block *)
truncate(p) ==
    LET s == proc[p].ip
    IN /\ At(p, "truncate")
       /\ UNCHANGED <<last_inode, d_inode, imap, zmap>>
       /\ IF inode[s].zone # 0
            THEN /\ UNCHANGED inode
                 /\ Goto(p, [proc[p] EXCEPT !.at = "free_block",
                                            !.blk = inode[s].zone])
            ELSE /\ inode' = [inode EXCEPT ![s].dirt = TRUE]
                 /\ Goto(p, Returns(proc[p]))

(* Somebody else holds the buffer of the block: b_count is not 1. *)
BufferInUse(p, b) == \E q \in Procs \ {p} : proc[q].at = "copy" /\ proc[q].blk = b

(* Mutant: the inode keeps its zone. *)
free_block_kept(p) ==
    /\ At(p, "free_block")
    /\ UNCHANGED <<inode, last_inode, d_inode, imap>>
    /\ IF ~BufferInUse(p, proc[p].blk) /\ proc[p].blk \notin zmap
         THEN Panic(p, "free_block: bit already cleared") /\ UNCHANGED zmap
         ELSE /\ zmap' = zmap \ {proc[p].blk}
              /\ Goto(p, [Returns(proc[p]) EXCEPT !.blk = 0])

(* free_block(), and truncate() behind it *)
free_block(p) ==
    LET f == proc[p]
        inUse == BufferInUse(p, f.blk)
    IN /\ At(p, "free_block")
       /\ UNCHANGED <<last_inode, d_inode, imap>>
       /\ IF ~inUse /\ f.blk \notin zmap
            THEN /\ Panic(p, "free_block: bit already cleared")
                 /\ UNCHANGED <<inode, zmap>>
            ELSE /\ zmap' = IF inUse THEN zmap ELSE zmap \ {f.blk}
                 /\ inode' = [inode EXCEPT ![f.ip].zone = 0, ![f.ip].dirt = TRUE]
                 /\ Goto(p, [Returns(f) EXCEPT !.blk = 0])

(* Mutant: the slot is not cleared. *)
free_inode_kept(p) ==
    /\ At(p, "free_inode")
    /\ imap' = imap \ {inode[proc[p].ip].num}
    /\ inode' = [inode EXCEPT ![proc[p].ip].count = 0]
    /\ UNCHANGED <<last_inode, d_inode, zmap>>
    /\ Goto(p, Returns(proc[p]))

(* free_inode(), the end of iput() *)
free_inode(p) ==
    LET s == proc[p].ip
    IN /\ At(p, "free_inode")
       /\ UNCHANGED <<last_inode, d_inode, zmap>>
       /\ IF inode[s].num # 0 /\ (inode[s].count > 1 \/ inode[s].nlinks # 0)
            THEN Panic(p, "free_inode") /\ UNCHANGED <<inode, imap>>
            ELSE /\ imap' = imap \ {inode[s].num}
                 /\ inode' = [inode EXCEPT ![s] = ZeroInode]
                 /\ Goto(p, Returns(proc[p]))

(* new_inode(), behind its call of get_empty_inode(); 0 when none is free *)
new_inode(p) ==
    LET f == proc[p]
        free == Numbers \ imap
    IN /\ At(p, "new_inode")
       /\ UNCHANGED <<last_inode, d_inode, zmap>>
       /\ IF free = {}
            THEN UNCHANGED <<inode, imap>> /\ Goto(p, TailCalls(f, "iput", f.ip, 0))
            ELSE /\ imap' = imap \cup {Min(free)}
                 /\ inode' = [inode EXCEPT ![f.ip].count = 1, ![f.ip].nlinks = 1,
                                           ![f.ip].dirt = TRUE,
                                           ![f.ip].num = Min(free)]
                 /\ Goto(p, ReturnsInode(f, f.ip))

(* create_block(): _bmap() with create set, and new_block() up to getblk() *)
create_block(p) ==
    LET f == proc[p]
        free == Zones \ zmap
    IN /\ At(p, "create_block")
       /\ UNCHANGED <<inode, last_inode, d_inode, imap>>
       /\ IF inode[f.ip].zone # 0 \/ free = {}
            THEN /\ UNCHANGED zmap
                 /\ Goto(p, [Returns(f) EXCEPT !.blk = inode[f.ip].zone])
            ELSE /\ zmap' = zmap \cup {Min(free)}
                 /\ Goto(p, [f EXCEPT !.at = "getblk", !.blk = Min(free)])

(* new_block() behind getblk(); its result becomes the zone of the inode *)
create_block_end(p) ==
    LET f == proc[p]
    IN /\ At(p, "getblk")
       /\ inode' = [inode EXCEPT ![f.ip].zone = f.blk, ![f.ip].dirt = TRUE]
       /\ UNCHANGED <<last_inode, d_inode, imap, zmap>>
       /\ Goto(p, Returns(f))

InodeStep(p) ==
    \/ get_empty_inode(p) \/ get_empty_inode_loop(p)
    \/ iget_search(p) \/ iget_found(p)
    \/ read_inode(p) \/ read_inode_end(p)
    \/ write_inode(p) \/ write_inode_end(p)
    \/ iput(p) \/ sync_inodes(p)
    \/ truncate(p) \/ free_block(p) \/ free_inode(p) \/ new_inode(p)
    \/ create_block(p) \/ create_block_end(p)
=============================================================================
