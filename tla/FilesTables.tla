----------------------------- MODULE FilesTables -----------------------------
(***************************************************************************)
(* Proofs about Files.tla, for any number of processes and inodes, calls   *)
(* of any length and any file system: where no two processes race for a    *)
(* name, inodes, directory, maps and disk agree.                           *)
(*                                                                         *)
(* The invariant TablesInv is that of FilesProofs.tla.  The inode that a   *)
(* process names or holds, and no other process may reach, changes by its  *)
(* own steps only (OwnInv).  So what a call has seen before it slept is    *)
(* still so afterwards (ProcInv, NamesInv, NewInv, FileInv).  The newest   *)
(* copy of an inode, Now, changes where it is edited, freed or created,    *)
(* not where it is read in or written back (NowMoves); its links are the   *)
(* entries that name it but for one that is still to be counted (LinkInv), *)
(* and its block is its own (ZoneInv).                                     *)
(***************************************************************************)
EXTENDS FilesProofs

(* The running process, below its system call *)

\* The facts about who creates, in the next state
CreatorsHold ==
  \A r \in Procs : Created(proc[r]) # 0 =>
    /\ Created(proc[r]) \in Slots /\ Holds(r, Created(proc[r])) /\ inode[Created(proc[r])].num # 0
    /\ proc[r].at \in {"open_new", "add_entry", "open_added"}

\* They hold in this state,
LEMMA CreatorsHoldNow == IInv => CreatorsHold
BY CreatorHolds DEF CreatorsHold

\* and in the next.
LEMMA CreatorsHoldNext == IInv' => CreatorsHold'
BY CreatorsHoldNow, PTL

\* The steps below a system call
LEMMA KernelStep ==
  ASSUME IInv, IInv', TablesInv, NEW p \in Procs, Step(p), proc[p].at \in InodeLabels
  PROVE  LET f == proc[p] g == proc'[p] IN
         /\ InodeStep(p) /\ dir' = dir /\ file' = file /\ calls' = calls
         /\ KeepsCall(f, g) /\ f.at # "user" /\ f.stack # <<>>
         /\ CallAt(f) \in Got \cup {"open_new", "open_done", "user", "write_block"}
         /\ g.at = "user" => CallAt(g) = "user"
         /\ g.at # "user" => CallAt(g) = CallAt(f)
         /\ g.at \in Top => g.at = CallAt(f)
         /\ g.at \in Top \cup {"user"} \cup InodeLabels
<1> DEFINE f == proc[p]
           g == proc'[p]
<1>1. InodeStep(p) /\ dir' = dir /\ file' = file /\ calls' = calls
  BY ActionAt DEF fileVars
<1>2. KeepsCall(f, g)
  BY <1>1, InodeSheet DEF TablesInv
<1>3. f \in Process /\ StackFits(f) /\ g \in Process /\ StackFits(g) /\ Shape(g)
  BY Moment
<1>4. f.stack # <<>> /\ f.at # "user" /\ CallAt(f) \in Got \cup {"open_new", "open_done", "user", "write_block"}
  BY <1>3, CallLabels DEF InodeLabels
<1>5. g.at = "user" => CallAt(g) = "user"
  BY <1>3, CallLabels
<1>6. CASE g.at # "user"
  <2>1. CallAt(g) = CallAt(f)
    BY <1>2, <1>6 DEF KeepsCall
  <2>2. g.at \notin {"find_entry", "add_entry", "iput_dir"}
    BY <1>3, <1>4, <2>1, CallLabels DEF Got
  <2>3. g.at \in Top => g.at = CallAt(f)
    BY <1>3, <2>1, CallLabels
  <2> QED
    BY <1>1, <1>2, <1>3, <1>4, <1>5, <2>1, <2>2, <2>3, CallLabels
<1>7. CASE g.at = "user"
  BY <1>1, <1>2, <1>3, <1>4, <1>5, <1>7 DEF Top
<1> QED
  BY <1>6, <1>7

\* sync_inodes() is left for good, but for the inode that it writes.
LEMMA SyncComesFrom ==
  ASSUME IInv, IInv', TablesInv, NEW p \in Procs, Step(p), proc[p].at \in InodeLabels, proc'[p].at = "sync_inodes"
  PROVE  proc[p].at = "sync_inodes" \/ (proc[p].at \in {"write_inode", "write_bread"} /\ HeadAt(proc[p], "sync_inodes"))
<1> DEFINE f == proc[p]
           a == Head(f.stack).at
<1>0. f \in Process /\ StackFits(f) /\ proc'[p] \in Process /\ StackFits(proc'[p]) /\ Returns(f).at = a
  BY Moment DEF Returns, Process
<1>1. InodeStep(p) /\ CallAt(f) = "user" /\ f.stack # <<>>
  <2>1. InodeStep(p) /\ CallAt(f) = CallAt(proc'[p]) /\ f.stack # <<>>
    BY KernelStep
  <2>2. Head(proc'[p].stack).at = "user" /\ Tail(proc'[p].stack) = <<>> /\ proc'[p].stack # <<>>
    BY <1>0, HeadsAre DEF Top
  <2> QED
    BY <1>0, <2>1, <2>2, HeadsAre
<1>2. ASSUME NEW label, At(p, label), NEW h, Goto(p, h) PROVE h.at = "sync_inodes"
  BY <1>2, WentTo
<1>3. ASSUME NEW label, At(p, label), NEW msg, Panic(p, msg) PROVE f.at = "sync_inodes"
  BY <1>3 DEF Panic
<1>4. f.at \in {"iput", "iput_again", "free_inode", "sync_inodes", "truncate", "free_block", "write_inode", "write_bread"}
  BY <1>0, <1>1, HeadsAre DEF InodeLabels, Searches, Got, Top
<1>5. CASE f.at \in {"iput", "iput_again"}
  <2>1. iput(p)
    BY <1>5, ActionAt
  <2>2. a \in Got \cup {"open_new", "user"}
    BY <1>0, <1>5, HeadsAre
  <2>3. \A label, s, ret : Calls(f, label, s, ret).at = label
    BY <1>0, CallLabel
  <2> QED
    BY <1>0, <1>2, <1>3, <2>1, <2>2, <2>3 DEF iput, iput_repeat, Got
<1>6. CASE f.at = "free_inode"
  <2>1. free_inode(p) /\ a = "user"
    BY <1>0, <1>6, ActionAt, HeadsAre
  <2> QED
    BY <1>0, <1>2, <1>3, <2>1 DEF free_inode
<1>7. CASE f.at = "truncate"
  <2>1. truncate(p) /\ a \in {"open_done", "free_inode"}
    BY <1>0, <1>7, ActionAt, HeadsAre
  <2> QED
    BY <1>0, <1>7, <2>1, SheetTruncate DEF TablesInv
<1>8. CASE f.at = "free_block"
  <2>1. free_block(p) /\ a \in {"open_done", "free_inode"}
    BY <1>0, <1>8, ActionAt, HeadsAre
  <2>2. [Returns(f) EXCEPT !.blk = 0].at = a
    BY DEF Returns
  <2> QED
    BY <1>0, <1>2, <1>3, <2>1, <2>2 DEF free_block
<1>9. CASE f.at = "write_inode"
  <2>1. write_inode(p)
    BY <1>9, ActionAt
  <2>2. At(p, "write_inode") /\ (Goto(p, Returns(f)) \/ Goto(p, [f EXCEPT !.at = "write_bread"]))
    BY <2>1 DEF write_inode
  <2>3. [f EXCEPT !.at = "write_bread"].at = "write_bread"
    BY <1>0 DEF Process
  <2> QED
    BY <1>0, <1>1, <1>2, <1>9, <2>2, <2>3 DEF HeadAt
<1>10. CASE f.at = "write_bread"
  <2>1. write_inode_end(p)
    BY <1>10, ActionAt
  <2> QED
    BY <1>0, <1>1, <1>2, <1>10, <2>1 DEF write_inode_end, HeadAt
<1> QED
  BY <1>4, <1>5, <1>6, <1>7, <1>8, <1>9, <1>10

\* Below a system call, its own facts are kept.
LEMMA KernelAsked ==
  ASSUME IInv, IInv', TablesInv, NEW p \in Procs, Step(p), proc[p].at \in InodeLabels
  PROVE  Asked(p)'
<1> DEFINE f == proc[p]
           g == proc'[p]
<1>1. f.at # "user" /\ calls' = calls /\ (g.at # "user" => CallAt(g) = CallAt(f) /\ g.op = f.op /\ g.name = f.name)
  BY KernelStep DEF KeepsCall
<1>2. Asked(p)
  BY DEF TablesInv
<1> QED
  BY <1>1, <1>2 DEF Asked, CallAt, Caller

\* It is the same operation,
LEMMA KernelOp ==
  ASSUME IInv, IInv', TablesInv, NEW p \in Procs, Step(p), proc[p].at \in InodeLabels
  PROVE  OpInv(p)'
<1> DEFINE f == proc[p]
           g == proc'[p]
<1>1. /\ g.at # "user" => CallAt(g) = CallAt(f) /\ g.op = f.op
      /\ g.at = "user" => CallAt(g) = "user"
  BY KernelStep DEF KeepsCall
<1>2. OpInv(p)
  BY DEF TablesInv
<1>3. g.at = "sync_inodes" \/ (g.at \in {"write_inode", "write_bread"} /\ ~HeadAt(g, "iput_again")) => g.op = "sync"
  <2>1. CASE g.at = "sync_inodes"
    <3>1. f.at = "sync_inodes" \/ (f.at \in {"write_inode", "write_bread"} /\ HeadAt(f, "sync_inodes"))
      BY <2>1, SyncComesFrom
    <3>2. f.op = "sync"
      BY <1>2, <3>1 DEF OpInv, HeadAt
    <3> QED
      BY <1>1, <2>1, <3>2
  <2>2. CASE g.at \in {"write_inode", "write_bread"} /\ ~HeadAt(g, "iput_again")
    <3>1. Enters(p) \/ (proc'[p] = proc[p] /\ inode' = inode /\ d_inode' = d_inode)
      BY EntersOrStuck
    <3>2. CASE g = f
      BY <1>2, <2>2, <3>2 DEF OpInv
    <3>3. CASE Enters(p) /\ g.at = "write_inode"
      <4>1. f.at = "sync_inodes"
        BY <2>2, <3>3 DEF Enters
      <4> QED
        BY <1>1, <1>2, <2>2, <4>1 DEF OpInv
    <3>4. CASE Enters(p) /\ g.at = "write_bread"
      <4>1. f.at = "write_inode" /\ g.stack = f.stack
        BY <3>4 DEF Enters, LocksToWrite
      <4> QED
        BY <1>1, <1>2, <2>2, <4>1 DEF OpInv, HeadAt
    <3> QED
      BY <2>2, <3>1, <3>2, <3>3, <3>4
  <2> QED
    BY <2>1, <2>2
<1>4. CASE g.at = "user"
  <2>1. CallAt(g) = "user"
    BY <1>1, <1>4
  <2>2. CallAt(proc[p])' = "user"
    BY <2>1 DEF CallAt, Caller
  <2> QED
    BY <1>4, <2>2 DEF OpInv, OpenLabels, LinkLabels
<1>5. CASE g.at # "user"
  <2>1. CallAt(proc[p])' = CallAt(f) /\ g.op = f.op
    BY <1>1, <1>5 DEF CallAt, Caller
  <2> QED
    BY <1>2, <1>3, <2>1 DEF OpInv, HeadAt
<1> QED
  BY <1>4, <1>5

\* with the same names and entries,
LEMMA KernelNames ==
  ASSUME IInv, IInv', TablesInv, NEW p \in Procs, Step(p), proc[p].at \in InodeLabels
  PROVE  NamesInv(p)'
<1> DEFINE f == proc[p]
           g == proc'[p]
           a == CallAt(f)
           b == CallAt(g)
<1>1. /\ g.at # "user" => b = a /\ g.op = f.op /\ g.name = f.name /\ g.nr = f.nr /\ g.de = f.de
      /\ g.at = "user" => b = "user"
      /\ g.at \in Top => g.at = a
      /\ a \in Got \cup {"open_new", "open_done", "user", "write_block"}
      /\ dir' = dir /\ calls' = calls
  BY KernelStep DEF KeepsCall
<1>2. NamesInv(p)
  BY DEF TablesInv
<1>3. g.at \notin {"open_found", "unlink_found", "link_found", "link_target", "open_added", "link_added"}
  BY <1>1 DEF Top, Got
<1>4. b \notin {"open_added", "link_added", "link_count", "link_target", "open_inode", "link_inode"}
  BY <1>1 DEF Got
<1>5. b # "user" => /\ b = a /\ g.op = f.op /\ g.name = f.name /\ g.nr = f.nr /\ g.de = f.de
  BY <1>1
<1>6. CallAt(proc[p])' = b
  BY DEF CallAt, Caller
<1>7. b \in Seeks => SeekInv(p)'
  <2> SUFFICES ASSUME b \in Seeks PROVE SeekInv(p)'
    OBVIOUS
  <2>1. b # "user"
    BY DEF Seeks, Got
  <2>2. SeekInv(p)
    BY <1>2, <1>5, <2>1 DEF NamesInv
  <2> QED
    BY <1>1, <1>5, <2>1, <2>2 DEF SeekInv, NamesInode
<1>8. (b = "open_new" => g.name \in Mine(calls, p)) /\ (b = "unlink_got" => Named(f) /\ dir[f.de].ino = f.nr /\ g.de = f.de /\ g.nr = f.nr /\ g.name = f.name)
      /\ (b \in Seeks \cup {"open_done"} /\ g.op = "creat" => g.nr \notin Public(calls))
  BY <1>2, <1>5 DEF NamesInv, Seeks, Got
<1> QED
  BY <1>1, <1>3, <1>4, <1>6, <1>7, <1>8 DEF NamesInv, Named

\* on the same new inode,
LEMMA KernelNew ==
  ASSUME IInv, IInv', TablesInv, NEW p \in Procs, Step(p), proc[p].at \in InodeLabels
  PROVE  NewInv(p)'
<1> DEFINE f == proc[p]
           g == proc'[p]
           s == Created(g)
<1>0. f \in Process /\ StackFits(f) /\ g \in Process /\ StackFits(g) /\ ProcInv(p) /\ inode \in [Slots -> Inode]
  BY Moment DEF TablesInv
<1>1. Created(proc[p])' = s
  BY DEF Created, CallAt, Caller
<1> SUFFICES ASSUME s # 0
             PROVE  /\ \A e \in Entries : dir'[e].ino # inode'[s].num
                    /\ inode'[s].nlinks = 1 /\ inode'[s].zone = 0
  BY <1>1 DEF NewInv
<1>2. g.at \in {"open_new", "add_entry", "open_added"}
  BY <1>1, CreatorsHoldNext DEF CreatorsHold
<1>3. g.at = "open_new" /\ CallAt(f) = "open_new" /\ g.ip = s /\ InodeStep(p) /\ dir' = dir /\ f.stack # <<>>
  <2>1. g.at \in Top \cup {"user"} \cup InodeLabels /\ (g.at # "user" => CallAt(g) = CallAt(f))
        /\ (g.at \in Top => g.at = CallAt(f)) /\ CallAt(f) \in Got \cup {"open_new", "open_done", "user", "write_block"}
        /\ InodeStep(p) /\ dir' = dir /\ f.stack # <<>>
    BY KernelStep
  <2>2. g.at = "open_new" /\ CallAt(f) = "open_new"
    BY <1>2, <2>1 DEF Top, InodeLabels, Got
  <2>3. Caller(g).ip = g.ip
    BY <1>0, <2>2, CallLabels DEF Top
  <2> QED
    BY <2>1, <2>2, <2>3 DEF Created
<1>4. f.at \in {"get_empty_inode", "gei_wait", "new_inode", "iput"}
  <2>1. f.at \notin {"write_inode", "write_bread"}
    BY <1>0, <1>3, HeadsAre DEF ProcInv, HeadAt
  <2>2. f.at \notin {"iget_search", "iget_wait", "read_inode", "read_bread", "iput_again", "free_inode", "sync_inodes", "truncate",
                     "free_block", "create_block", "getblk"}
    BY <1>0, <1>3, HeadsAre DEF Searches, Got
  <2> QED
    BY <2>1, <2>2 DEF InodeLabels
<1>5. f.at # "get_empty_inode"
  <2> SUFFICES ASSUME f.at = "get_empty_inode" PROVE FALSE
    OBVIOUS
  <2>1. get_empty_inode(p)
    BY ActionAt
  <2> DEFINE unused == {i \in Slots : Unused(i)}
             ready == {i \in Slots : Ready(i)}
             i == IF ready # {} THEN Min(ready) ELSE Max(unused)
             h == [f EXCEPT !.at = "gei_wait", !.ip = Nth(i)]
  <2>2. At(p, "get_empty_inode") /\ ((\E msg : Panic(p, msg)) \/ Goto(p, h))
    BY <2>1 DEF get_empty_inode
  <2>3. h.at = "gei_wait"
    BY <1>0 DEF Process
  <2> HIDE DEF h
  <2> QED
    BY <1>3, <2>2, <2>3, WentTo DEF Panic
<1>6. f.at # "gei_wait"
  <2> SUFFICES ASSUME f.at = "gei_wait" PROVE FALSE
    OBVIOUS
  <2>1. f.ip \in Slots /\ get_empty_inode_loop(p)
    BY HereIs, ActionAt DEF HasSlot
  <2>2. g.at = Head(f.stack).at
    BY <2>1, SheetGetEmptyInodeLoop DEF TablesInv
  <2> QED
    BY <1>0, <1>3, <2>2, HeadsAre
<1>7. f.at # "iput"
  <2> SUFFICES ASSUME f.at = "iput" PROVE FALSE
    OBVIOUS
  <2>1. iput(p)
    BY ActionAt
  <2>2. Head(f.stack).at = "open_new" /\ Head(f.stack).ip = 0
    <3>1. Tail(f.stack) = <<>> /\ f.stack # <<>>
      BY <1>0, HeadsAre DEF Top
    <3>2. Head(f.stack).at = "open_new"
      BY <1>0, <1>3, <3>1, HeadsAre
    <3>3. PutStack(f) \/ UserStack(f)
      BY <1>0 DEF StackFits
    <3>4. \A x, y : Head(<<Frame(x, y)>>).at = x /\ Head(<<Frame(x, y)>>).ip = y
      BY Stacking, FrameIs
    <3> QED
      BY <3>2, <3>3, <3>4 DEF PutStack, UserStack, Got
  <2> DEFINE t == Calls(f, "truncate", f.ip, "free_inode")
             w == Calls(f, "write_inode", f.ip, "iput_again")
  <2>3. /\ At(p, "iput")
        /\ Panic(p, "iput: trying to free free inode") \/ Goto(p, Returns(f)) \/ Goto(p, t) \/ Goto(p, w)
    BY <2>1 DEF iput, iput_repeat, At
  <2>4. Returns(f).ip = 0 /\ t.at = "truncate" /\ w.at = "write_inode"
    <3>1. Returns(f).ip = 0
      BY <1>0, <2>2 DEF Returns, Process
    <3> QED
      BY <1>0, <3>1, CallLabel
  <2> HIDE DEF t, w
  <2>5. ~Panic(p, "iput: trying to free free inode")
    BY <1>3 DEF Panic
  <2>6. ~Goto(p, t) /\ ~Goto(p, w)
    BY <1>3, <2>3, <2>4, WentTo
  <2>7. g = Returns(f)
    <3>1. Goto(p, Returns(f))
      BY <2>3, <2>5, <2>6
    <3> QED
      BY <1>3, <2>3, <3>1, WentTo
  <2> QED
    BY <1>3, <2>4, <2>7
<1>8. new_inode(p) /\ f.at = "new_inode"
  BY <1>4, <1>5, <1>6, <1>7, ActionAt
<1> DEFINE n == Min(Numbers \ imap)
           h == ReturnsInode(f, f.ip)
           k == TailCalls(f, "iput", f.ip, 0)
<1>9. \/ Numbers \ imap = {} /\ Goto(p, k)
      \/ /\ Numbers \ imap # {} /\ Goto(p, h)
         /\ inode' = [inode EXCEPT ![f.ip].count = 1, ![f.ip].nlinks = 1, ![f.ip].dirt = TRUE, ![f.ip].num = n]
  BY <1>8 DEF new_inode
<1>10. At(p, "new_inode") /\ k.at = "iput" /\ h.ip = f.ip /\ f.ip \in Slots
  BY <1>0, <1>8, HereIs DEF new_inode, TailCalls, ReturnsInode, Returns, Process, HasSlot, Counted
<1> HIDE DEF h, k, n
<1>a. ~Goto(p, k)
  BY <1>3, <1>10, WentTo
<1>b. Goto(p, h) => g = h
  BY <1>3, <1>10, WentTo
<1>11. /\ Numbers \ imap # {} /\ g.ip = f.ip
       /\ inode' = [inode EXCEPT ![f.ip].count = 1, ![f.ip].nlinks = 1, ![f.ip].dirt = TRUE, ![f.ip].num = n]
  BY <1>9, <1>10, <1>a, <1>b
<1>12. n \in Numbers \ imap
  <2>1. IsFiniteSet(Numbers \ imap) /\ Numbers \ imap \in SUBSET Nat
    <3>1. IsFiniteSet(Numbers) /\ Numbers \subseteq Nat
      BY FS_Interval, InodesAssumption DEF Numbers
    <3> QED
      BY <3>1, FS_Subset
  <2> QED
    BY <1>11, <2>1, MinIn DEF n
<1>13. inode'[s].num = n /\ inode'[s].nlinks = 1 /\ inode'[s].zone = inode[s].zone
  BY <1>0, <1>3, <1>10, <1>11 DEF Inode
<1>14. inode[s].num = 0
  <2>1. Empty(f) = s
    BY <1>3, <1>8, <1>11 DEF Empty, Searches
  <2>2. Holding(f)
    BY DEF IInv, Held
  <2> QED
    BY <2>1, <2>2 DEF Holding
<1>15. inode[s].zone = 0
  BY <1>3, <1>10, <1>11, <1>14 DEF TablesInv, SlotInv
<1>16. ASSUME NEW e \in Entries PROVE dir[e].ino # n
  BY <1>12 DEF TablesInv, DirInv, Numbers
<1> QED
  BY <1>3, <1>13, <1>15, <1>16

\* and on the same open file.
LEMMA KernelFile ==
  ASSUME IInv, IInv', TablesInv, NEW p \in Procs, Step(p), proc[p].at \in InodeLabels
  PROVE  FileInv(p)'
<1> DEFINE f == proc[p]
           g == proc'[p]
<1>0. f \in Process /\ StackFits(f) /\ g \in Process /\ StackFits(g) /\ FileInv(p) /\ inode \in [Slots -> Inode]
  BY Moment DEF TablesInv
<1>1. /\ InodeStep(p) /\ file' = file /\ (g.at # "user" => CallAt(g) = CallAt(f)) /\ (g.at = "user" => CallAt(g) = "user")
      /\ (g.at \in Top => g.at = CallAt(f))
      /\ g.at \in Top \cup {"user"} \cup InodeLabels
      /\ CallAt(f) \in Got \cup {"open_new", "open_done", "user", "write_block"}
  BY KernelStep
<1>2. CallAt(proc[p])' = CallAt(g) /\ Caller(proc[p])' = Caller(g)
  BY DEF CallAt, Caller
<1>3. CASE CallAt(f) # "write_block"
  <2>1. CallAt(g) # "write_block" /\ g.at \notin {"create_block", "getblk", "write_block", "bread", "copy"}
    <3>1. CallAt(g) # "write_block"
      BY <1>1, <1>3
    <3>2. g.at \notin {"create_block", "getblk"}
      BY <1>0, <3>1, HeadsAre DEF Top
    <3> QED
      BY <1>1, <1>3, <3>1, <3>2 DEF Top, Got
  <2>2. g.at = "free_block" => g.blk # 0 /\ g.blk = inode'[g.ip].zone
    <3> SUFFICES ASSUME g.at = "free_block" PROVE g.blk # 0 /\ g.blk = inode'[g.ip].zone
      OBVIOUS
    <3>1. CASE Enters(p)
      BY <3>1 DEF Enters
    <3>2. CASE g = f /\ inode' = inode
      BY <1>0, <3>2 DEF FileInv
    <3> QED
      BY <3>1, <3>2, EntersOrStuck
  <2> QED
    BY <1>0, <1>1, <1>2, <2>1, <2>2 DEF FileInv
<1>4. CASE CallAt(f) = "write_block"
  <2>1. f.at \in {"create_block", "getblk"} /\ f.stack # <<>> /\ Tail(f.stack) = <<>> /\ Head(f.stack).at = "write_block"
    BY <1>0, <1>4, CallLabels, HeadsAre DEF InodeLabels, Top
  <2>2. Head(f.stack).ip = file[p].slot /\ file[p].slot = f.ip /\ f.ip # 0
    <3>1. Caller(f).ip = file[p].slot /\ file[p].slot = f.ip /\ f.ip # 0
      BY <1>0, <1>4, <2>1 DEF FileInv
    <3>2. BlockStack(f)
      BY <1>0, <2>1 DEF StackFits
    <3>3. PICK x \in Slots : f.stack = <<Frame("write_block", x)>>
      BY <3>2 DEF BlockStack
    <3>4. Caller(f) = Frame("write_block", x) /\ Head(f.stack) = Frame("write_block", x)
      BY <2>1, <3>3, Stacking DEF Caller
    <3> QED
      BY <3>1, <3>4
  <2>3. f.ip \in Slots
    BY <2>1, HereIs DEF HasSlot
  <2> DEFINE r == Returns(f)
  <2>4. r \in Process /\ r.at = "write_block" /\ r.ip = f.ip /\ r.stack = <<>> /\ r.blk = f.blk
    <3>1. f.stack = <<Frame("write_block", f.ip)>>
      <4>1. BlockStack(f)
        BY <1>0, <2>1 DEF StackFits
      <4> QED
        BY <2>2, <4>1, Stacking, FrameIs DEF BlockStack
    <3>2. "write_block" \in Labels /\ f.ip \in SlotOr0
      BY <2>3, SlotsAre DEF Labels
    <3>3. Returned(r, f, "write_block", f.ip, <<>>)
      BY <1>0, <3>1, <3>2, ReturnFrom
    <3> QED
      BY <3>3 DEF Returned
  <2> HIDE DEF r
  <2>5. CASE f.at = "create_block"
    <3>1. create_block(p)
      BY <2>5, ActionAt
    <3> DEFINE free == Zones \ zmap
               h == [r EXCEPT !.blk = inode[f.ip].zone]
               k == [f EXCEPT !.at = "getblk", !.blk = Min(free)]
    <3>2. /\ At(p, "create_block") /\ inode' = inode
          /\ Goto(p, h) \/ (inode[f.ip].zone = 0 /\ free # {} /\ Goto(p, k))
      BY <3>1 DEF create_block, r
    <3>3. h.at = "write_block" /\ h.ip = f.ip /\ h.blk = inode[f.ip].zone /\ h.stack = <<>>
      BY <2>4 DEF Process
    <3>4. k.at = "getblk" /\ k.ip = f.ip /\ k.blk = Min(free) /\ k.stack = f.stack
      BY <1>0 DEF Process
    <3>5. free # {} => Min(free) # 0
      <4>1. IsFiniteSet(Zones) /\ Zones \subseteq Nat /\ 0 \notin Zones
        BY FS_Interval, InodesAssumption DEF Zones
      <4>2. IsFiniteSet(free) /\ free \in SUBSET Nat
        BY <4>1, FS_Subset
      <4> QED
        BY <4>1, <4>2, MinIn
    <3> HIDE DEF h, k, free
    <3>6. CASE g = h
      <4>1. Caller(g).ip = f.ip
        BY <1>0, <3>3, <3>6, CallLabels DEF Top
      <4> QED
        BY <1>0, <1>1, <1>2, <2>2, <3>2, <3>3, <3>6, <4>1 DEF FileInv
    <3>7. CASE g = k /\ inode[f.ip].zone = 0 /\ free # {}
      <4>1. Caller(g).ip = Caller(f).ip
        BY <2>1, <3>4, <3>7 DEF Caller
      <4> QED
        BY <1>0, <1>1, <1>2, <1>4, <2>2, <3>2, <3>4, <3>5, <3>7, <4>1 DEF FileInv
    <3> QED
      BY <3>2, <3>3, <3>4, <3>6, <3>7, WentTo
  <2>6. CASE f.at = "getblk"
    <3>1. create_block_end(p)
      BY <2>6, ActionAt
    <3>2. At(p, "getblk") /\ inode' = [inode EXCEPT ![f.ip].zone = f.blk, ![f.ip].dirt = TRUE] /\ Goto(p, r)
      BY <3>1 DEF create_block_end, r
    <3>3. g = r
      BY <2>4, <3>2, WentTo
    <3>4. Caller(g).ip = f.ip
      BY <1>0, <2>4, <3>3, CallLabels DEF Top
    <3>5. inode'[f.ip].zone = f.blk
      BY <1>0, <2>3, <3>2 DEF Inode
    <3> QED
      BY <1>0, <1>1, <1>2, <2>2, <2>4, <3>3, <3>4, <3>5 DEF FileInv
  <2> QED
    BY <2>1, <2>5, <2>6
<1> QED
  BY <1>3, <1>4

\* So the functions of fs/inode.c keep what is known of the call that called them.
LEMMA KernelOwn ==
  ASSUME IInv, IInv', TablesInv, NEW p \in Procs, Step(p), proc[p].at \in InodeLabels
  PROVE  (ProcInv(p) /\ Asked(p) /\ OpInv(p) /\ NamesInv(p) /\ NewInv(p) /\ FileInv(p))'
BY OwnProcStays, KernelAsked, KernelOp, KernelNames, KernelNew, KernelFile

(* The running process, on top *)

\* What is known of the system call of p
CallInv(p) == Asked(p) /\ OpInv(p) /\ NamesInv(p) /\ NewInv(p) /\ FileInv(p)

\* Labels at which a name has been sought
Founds == {"open_found", "unlink_found", "link_found"}

\* The call in the next state
LEMMA CallNext ==
  ASSUME NEW p
  PROVE  CallAt(proc[p])' = CallAt(proc'[p]) /\ Caller(proc[p])' = Caller(proc'[p])
BY DEF CallAt, Caller

\* Of these calls no more is known.
LEMMA PlainCall ==
  ASSUME NEW p, CallAt(proc'[p]) \in {"user", "open_new_done", "link_drop", "write_block", "bread", "copy"} \cup Founds,
         proc'[p].at \notin {"link_target", "open_added", "link_added"} \cup Founds
  PROVE  NamesInv(p)' /\ NewInv(p)'
<1>1. CallAt(proc[p])' = CallAt(proc'[p]) /\ Caller(proc[p])' = Caller(proc'[p])
  BY CallNext
<1>2. NamesInv(p)'
  BY <1>1 DEF NamesInv, Seeks, Got, Founds
<1>3. NewInv(p)'
  BY <1>1 DEF NewInv, Created, Founds
<1> QED
  BY <1>2, <1>3

\* A call that does not write has nothing to keep of its file.
LEMMA NoFile ==
  ASSUME NEW p, proc'[p].at \notin {"create_block", "getblk", "write_block", "bread", "copy", "free_block"},
         CallAt(proc'[p]) # "write_block", file'[p].slot = 0 => file'[p].num = 0
  PROVE  FileInv(p)'
<1>1. CallAt(proc[p])' = CallAt(proc'[p]) /\ Caller(proc[p])' = Caller(proc'[p])
  BY CallNext
<1> QED
  BY <1>1 DEF FileInv

\* The end of a call
LEMMA Leaves ==
  ASSUME NEW p, proc'[p].at = "user" \/ (proc'[p].at = "iput" /\ Asked(p)'), CallAt(proc'[p]) = "user",
         file'[p].slot = 0 => file'[p].num = 0
  PROVE  CallInv(p)'
<1>1. CallAt(proc[p])' = CallAt(proc'[p]) /\ Caller(proc[p])' = Caller(proc'[p])
  BY CallNext
<1>2. Asked(p)'
  BY <1>1 DEF Asked
<1>3. OpInv(p)'
  BY <1>1 DEF OpInv, OpenLabels, LinkLabels
<1>4. NamesInv(p)' /\ NewInv(p)'
  BY PlainCall DEF Founds
<1>5. FileInv(p)'
  BY NoFile
<1> QED
  BY <1>2, <1>3, <1>4, <1>5 DEF CallInv

\* A call for the same reason as before
LEMMA AskedStays ==
  ASSUME IInv, IInv', TablesInv, NEW p \in Procs, Step(p), proc[p].at # "user", proc'[p].op = proc[p].op, proc'[p].name = proc[p].name,
         CallAt(proc'[p]) \in Olds => CallAt(proc[p]) \in Olds
  PROVE  Asked(p)'
<1>1. calls' = calls /\ Asked(p)
  BY Moment DEF TablesInv
<1>2. CallAt(proc[p])' = CallAt(proc'[p])
  BY CallNext
<1> QED
  BY <1>1, <1>2 DEF Asked

\* A function is called by a system call.
LEMMA CallsDown ==
  ASSUME IInv, IInv', NEW p \in Procs, NEW here \in Top \cup {"user"}, At(p, here), NEW h \in Process, h.stack = <<>>,
         NEW label \in Labels, label # "user", NEW s \in SlotOr0, NEW ret \in Labels, Goto(p, Calls(h, label, s, ret))
  PROVE  LET g == proc'[p] IN
         /\ g.at = label /\ g.ip = s /\ CallAt(g) = ret /\ Caller(g).ip = h.ip /\ g.stack = <<Frame(ret, h.ip)>>
         /\ g.op = h.op /\ g.name = h.name /\ g.nr = h.nr /\ g.de = h.de /\ g.blk = h.blk
<1>0. PICK k : k = Calls(h, label, s, ret)
  OBVIOUS
<1>1. /\ k.at = label /\ k.ip = s /\ k.stack = <<Frame(ret, h.ip)>> \o h.stack
      /\ k.op = h.op /\ k.name = h.name /\ k.nr = h.nr /\ k.de = h.de /\ k.blk = h.blk
  <2>1. h = [at |-> h.at, op |-> h.op, name |-> h.name, ip |-> h.ip, empty |-> h.empty, nr |-> h.nr, blk |-> h.blk, de |-> h.de,
             stack |-> h.stack]
    BY DEF Process
  <2> QED
    BY <1>0, <2>1 DEF Calls
<1>2. k.stack = <<Frame(ret, h.ip)>>
  BY <1>1, Pushing
<1>3. Caller(k) = Frame(ret, h.ip)
  BY <1>0, CallerCalls
<1>4. proc'[p] = k
  BY <1>0, <1>1, WentTo
<1> QED
  BY <1>1, <1>2, <1>3, <1>4, FrameIs DEF CallAt

\* iget() is called by a system call.
LEMMA IgetDown ==
  ASSUME IInv, IInv', NEW p \in Procs, NEW here \in Top, At(p, here), NEW n, NEW ret \in Labels, Goto(p, Iget(proc[p], n, ret))
  PROVE  LET f == proc[p] g == proc'[p] IN
         /\ g.at = "get_empty_inode" /\ CallAt(g) = ret /\ Caller(g).ip = f.ip
         /\ g.op = f.op /\ g.name = f.name /\ g.nr = n /\ g.de = f.de
<1> DEFINE f == proc[p]
           k == Iget(f, n, ret)
           x == Frame("iget_search", 0)
           y == Frame(ret, f.ip)
<1>0. f \in Process /\ f.stack = <<>>
  BY HereIs, HeadsAre DEF At
<1>1. /\ k.at = "get_empty_inode" /\ k.stack = <<x, y>> \o <<>>
      /\ k.op = f.op /\ k.name = f.name /\ k.nr = n /\ k.de = f.de
  BY <1>0 DEF Iget, Process
<1>2. k.stack = <<x, y>>
  BY <1>1
<1>3. Caller(k) = y
  BY <1>2 DEF Caller
<1> HIDE DEF k
<1>4. proc'[p] = k
  BY <1>1, WentTo DEF k
<1> QED
  BY <1>1, <1>3, <1>4, FrameIs DEF CallAt

\* The call ends.
LEMMA CallEnds ==
  ASSUME IInv, IInv', NEW p \in Procs, NEW here, At(p, here), Goto(p, AtUser)
  PROVE  proc'[p].at = "user" /\ CallAt(proc'[p]) = "user"
<1>1. proc'[p].at = "user"
  BY WentTo, HereIs
<1>2. (\A q \in Procs : Shape(proc[q]))' /\ proc' \in [Procs -> Process]
  BY DEF IInv, Typed
<1>3. proc'[p] = AtUser
  BY <1>1, <1>2 DEF Shape
<1> QED
  BY <1>1, <1>3, FrameIs DEF CallAt, Caller, AtUser

\* The names that a call uses
LEMMA UsesName ==
  ASSUME IInv, TablesInv, NEW p \in Procs, CallAt(proc[p]) \in OpenLabels \cup LinkLabels \cup {"unlink_found", "unlink_got"}, proc[p].at # "user"
  PROVE  LET f == proc[p] IN
         /\ f.name \notin Lasting(calls) => f.name \in Mine(calls, p)
         /\ f.op = "creat" => f.name \notin Lasting(calls) /\ Does(calls, p, "creat")
         /\ f.op = "open" /\ f.name \in Lasting(calls) => Reaches(calls, p)
         /\ f.op = "link" /\ CallAt(f) \in Olds /\ f.name \in Lasting(calls) => Reaches(calls, p) /\ LinksPublic(calls, p)
<1> DEFINE f == proc[p]
<1>1. PICK c \in calls[p] : c.op = f.op /\ (f.name = c.name \/ (f.op = "link" /\ f.name = c.to /\ CallAt(f) \notin Olds))
  BY DEF TablesInv, Asked
<1>2. f.op \in NameOps
  BY DEF TablesInv, OpInv, NameOps
<1>3. f.name \in Names
  BY NameIs
<1>4. Uses(calls[p], f.name)
  BY <1>1, <1>2 DEF Uses, NameOps
<1>5. f.op = "creat" => f.name \notin Lasting(calls) /\ Does(calls, p, "creat")
  BY <1>1 DEF Lasting, Does
<1> QED
  BY <1>1, <1>3, <1>4, <1>5 DEF Mine, Reaches, LinksPublic

\* What is found under a name may be sought.
LEMMA MaySeek ==
  ASSUME IInv, TablesInv, NEW p \in Procs, proc[p].at \in Founds, proc[p].de # 0
  PROVE  LET f == proc[p] n == dir[f.de].ino IN
         /\ Named(f) /\ n # 0 /\ f.de \in Entries
         /\ NamesInode(p, n) \/ n \in Public(calls)
         /\ n \in Public(calls) /\ f.op # "mknod" => Reaches(calls, p)
         /\ n \in Public(calls) /\ f.op = "link" => LinksPublic(calls, p)
         /\ f.op = "creat" => n \notin Public(calls)
<1> DEFINE f == proc[p]
           n == dir[f.de].ino
<1>0. f \in Process /\ StackFits(f)
  BY HereIs
<1>1. CallAt(f) = f.at
  BY <1>0, CallLabels DEF Founds, Top
<1>2. Named(f) /\ f.de \in Entries
  BY DEF TablesInv, NamesInv, Founds, Named
<1>3. n # 0
  BY DEF IInv, Finds, Founds
<1>4. /\ f.name \notin Lasting(calls) => f.name \in Mine(calls, p)
      /\ f.op = "creat" => f.name \notin Lasting(calls) /\ Does(calls, p, "creat")
      /\ f.op = "open" /\ f.name \in Lasting(calls) => Reaches(calls, p)
      /\ f.op = "link" /\ CallAt(f) \in Olds /\ f.name \in Lasting(calls) => Reaches(calls, p) /\ LinksPublic(calls, p)
  BY <1>1, UsesName DEF Founds, OpenLabels, LinkLabels
<1>5. f.name \in Lasting(calls) => n \in Public(calls)
  BY <1>2, <1>3 DEF TablesInv, DirInv, Named
<1>6. f.name \in Mine(calls, p) => NamesInode(p, n)
  BY <1>2 DEF Named, NamesInode
<1>7. NamesInode(p, n) /\ n \in Public(calls) => Reaches(calls, p) /\ LinksPublic(calls, p)
  BY <1>3 DEF TablesInv, OwnInv, RefersTo
<1>8. Does(calls, p, "creat") => ~LinksPublic(calls, p)
  BY DEF TablesInv, RaceFree
<1>9. f.op = "link" => CallAt(f) \in Olds
  BY <1>1 DEF TablesInv, OpInv, OpenLabels, Founds, Olds
<1>10. f.name \in Lasting(calls) => f.at # "unlink_found"
  BY <1>1, NameIs DEF Mine
<1>11. f.op \in {"open", "creat", "mknod", "unlink", "link"} /\ (f.op = "unlink" <=> f.at = "unlink_found")
  BY <1>1 DEF TablesInv, OpInv, OpenLabels, LinkLabels, Founds
<1> QED
  BY <1>2, <1>3, <1>4, <1>5, <1>6, <1>7, <1>8, <1>9, <1>10, <1>11

\* The functions on the directory return to the call.
LEMMA ReturnsUp ==
  ASSUME IInv, IInv', TablesInv, NEW p \in Procs, Step(p), proc[p].at \in {"find_entry", "add_entry", "iput_dir"}
  PROVE  LET f == proc[p] g == proc'[p] IN
         /\ g.at = CallAt(f) /\ CallAt(g) = CallAt(f) /\ Caller(g).ip = Caller(f).ip /\ g.ip = Caller(f).ip
         /\ g.op = f.op /\ g.name = f.name /\ g.nr = f.nr
         /\ f.at = "iput_dir" => g.de = f.de
         /\ inode' = inode /\ file' = file /\ calls' = calls
         /\ f.at # "add_entry" => dir' = dir
         /\ CallAt(f) # "user" /\ f.at # "user" /\ CallAt(f) \notin {"create_block", "getblk", "write_block", "bread", "copy", "free_block"}
         /\ CallAt(f) \notin {"sync_inodes", "write_inode", "write_bread"}
<1> DEFINE f == proc[p]
           g == proc'[p]
<1>0. f \in Process /\ StackFits(f) /\ g \in Process /\ StackFits(g)
  BY Moment
<1>1. PICK e : \E label : At(p, label) /\ (Goto(p, Returns(f)) \/ (f.at # "iput_dir" /\ Goto(p, [Returns(f) EXCEPT !.de = e])))
  <2>1. find_entry(p) \/ add_entry(p) \/ iput_dir(p)
    BY ActionAt
  <2> QED
    BY <2>1, TopLabel, Zenon DEF find_entry, add_entry, iput_dir
<1>2. PICK label : At(p, label) /\ (Goto(p, Returns(f)) \/ (f.at # "iput_dir" /\ Goto(p, [Returns(f) EXCEPT !.de = e])))
  BY <1>1
<1>3. f.stack # <<>> /\ Tail(f.stack) = <<>> /\ CallAt(f) = Head(f.stack).at /\ Caller(f).ip = Head(f.stack).ip
      /\ CallAt(f) \in {"open_found", "unlink_found", "link_found", "link_target", "open_added", "link_added",
                        "open_inode", "link_inode", "open_new_done", "link_count", "link_drop"}
  <2>1. f.stack # <<>> /\ Tail(f.stack) = <<>> /\ CallAt(f) = Head(f.stack).at /\ Caller(f).ip = Head(f.stack).ip
    BY <1>0, CallLabels
  <2>2. f.at = "find_entry" => CallAt(f) \in {"open_found", "unlink_found", "link_found", "link_target"}
    BY <1>0, CallLabels
  <2>3. f.at = "add_entry" => CallAt(f) \in {"open_added", "link_added"}
    BY <1>0, CallLabels
  <2>4. f.at = "iput_dir" => CallAt(f) \in {"open_inode", "link_inode", "open_new_done", "link_count", "link_drop"}
    BY <1>0, CallLabels
  <2> QED
    BY <2>1, <2>2, <2>3, <2>4
<1>4. PICK h : Goto(p, h) /\ (h = Returns(f) \/ (f.at # "iput_dir" /\ h = [Returns(f) EXCEPT !.de = e]))
  BY <1>2
<1>5. /\ h.at = Head(f.stack).at /\ h.ip = Head(f.stack).ip /\ h.stack = Tail(f.stack)
      /\ h.op = f.op /\ h.name = f.name /\ h.nr = f.nr
      /\ f.at = "iput_dir" => h.de = f.de
  BY <1>0, <1>4 DEF Returns, Process
<1>6. g = h
  <2>1. h.at # "user"
    BY <1>3, <1>5
  <2> QED
    BY <1>2, <1>4, <2>1, WentTo
<1>7. g.stack = <<>> /\ Caller(g) = Frame(g.at, g.ip)
  BY <1>3, <1>5, <1>6 DEF Caller
<1>8. inode' = inode /\ file' = file /\ calls' = calls /\ (f.at # "add_entry" => dir' = dir)
  <2>1. find_entry(p) \/ add_entry(p) \/ iput_dir(p)
    BY ActionAt
  <2> QED
    BY <2>1, TopLabel, Zenon DEF find_entry, add_entry, iput_dir, fileVars, inodeVars
<1> QED
  BY <1>3, <1>5, <1>6, <1>7, <1>8, FrameIs DEF CallAt

\* A call that goes on as it was
LEMMA GoesOn ==
  ASSUME IInv, IInv', TablesInv, NEW p \in Procs, Step(p), proc[p].at # "user", proc'[p].op = proc[p].op, proc'[p].name = proc[p].name,
         CallAt(proc'[p]) = CallAt(proc[p]), proc'[p].at \notin {"sync_inodes", "write_inode", "write_bread"}
  PROVE  Asked(p)' /\ OpInv(p)'
<1>1. Asked(p)'
  BY AskedStays
<1>2. CallAt(proc[p])' = CallAt(proc'[p])
  BY CallNext
<1>3. OpInv(p)
  BY DEF TablesInv
<1>4. OpInv(p)'
  BY <1>2, <1>3 DEF OpInv
<1> QED
  BY <1>1, <1>4

\* find_entry() finds a lasting name.
LEMMA FindStays ==
  ASSUME IInv, IInv', TablesInv, NEW p \in Procs, Step(p), proc[p].at = "find_entry"
  PROVE  CallInv(p)'
<1> DEFINE f == proc[p]
           g == proc'[p]
           a == CallAt(f)
           found == {e \in Entries : dir[e].name = f.name /\ dir[e].ino # 0}
<1>0. f \in Process /\ StackFits(f) /\ (file[p].slot = 0 => file[p].num = 0) /\ NamesInv(p)
  BY Moment DEF TablesInv, FileInv
<1>1. /\ g.at = a /\ CallAt(g) = a /\ Caller(g).ip = Caller(f).ip
      /\ g.op = f.op /\ g.name = f.name /\ g.nr = f.nr
      /\ inode' = inode /\ file' = file /\ calls' = calls /\ dir' = dir
      /\ f.at # "user"
      /\ a \notin {"create_block", "getblk", "write_block", "bread", "copy", "free_block", "sync_inodes", "write_inode", "write_bread"}
  BY ReturnsUp
<1>2. a \in {"open_found", "unlink_found", "link_found", "link_target"}
  BY Moment, CallLabels
<1>3. Asked(p)' /\ OpInv(p)'
  BY <1>1, GoesOn
<1>4. CallAt(proc[p])' = a /\ Caller(proc[p])' = Caller(g)
  BY <1>1, CallNext
<1>5. g.de = IF found = {} THEN 0 ELSE Min(found)
  <2>1. find_entry(p)
    BY ActionAt
  <2>2. PICK h : h = [Returns(f) EXCEPT !.de = IF found = {} THEN 0 ELSE Min(found)]
    OBVIOUS
  <2>3. At(p, "find_entry") /\ Goto(p, h)
    BY <2>1, <2>2 DEF find_entry
  <2>4. h.at = Head(f.stack).at /\ h.de = IF found = {} THEN 0 ELSE Min(found)
    BY <1>0, <2>2 DEF Returns, Process
  <2>5. Head(f.stack).at = a
    BY Moment, CallLabels
  <2>6. h.at # "user"
    BY <1>2, <2>4, <2>5
  <2>7. g = h
    BY <2>3, <2>6, WentTo
  <2> QED
    BY <2>3, <2>4, <2>7
<1>6. IF g.de = 0 THEN g.name \notin Lasting(calls) ELSE g.de \in Entries /\ dir[g.de].name = g.name
  <2>1. CASE found = {}
    <3>1. ASSUME f.name \in Lasting(calls) PROVE FALSE
      <4>1. PICK e \in Entries : InitialDir[e].name = f.name /\ InitialDir[e].ino # 0
        BY <3>1 DEF Lasting
      <4>2. dir[e] = InitialDir[e]
        BY <3>1, <4>1 DEF TablesInv, DirInv
      <4> QED
        BY <2>1, <4>1, <4>2
    <3> QED
      BY <1>1, <1>5, <2>1, <3>1
  <2>2. CASE found # {}
    <3>1. Min(found) \in found
      BY <2>2, EntriesSet
    <3> HIDE DEF found
    <3>2. Min(found) \in Entries /\ dir[Min(found)].name = f.name
      BY <3>1 DEF found
    <3> QED
      BY <1>1, <1>5, <2>2, <3>2, EntriesAre
  <2> QED
    BY <2>1, <2>2
<1>7. a \in {"link_target"} /\ inode[Caller(f).ip].num \in Public(calls) => LinksPublic(calls, p)
  BY <1>0 DEF NamesInv
<1>8. NamesInv(p)'
  BY <1>1, <1>2, <1>4, <1>6, <1>7 DEF NamesInv, Named, Seeks, Got
<1>9. NewInv(p)'
  BY <1>2, <1>4 DEF NewInv, Created
<1>10. FileInv(p)'
  BY <1>0, <1>1, NoFile
<1> QED
  BY <1>3, <1>8, <1>9, <1>10 DEF CallInv

\* add_entry() names a free entry.
LEMMA AddStays ==
  ASSUME IInv, IInv', TablesInv, NEW p \in Procs, Step(p), proc[p].at = "add_entry"
  PROVE  CallInv(p)'
<1> DEFINE f == proc[p]
           g == proc'[p]
           a == CallAt(f)
           s == Caller(f).ip
           free == {x \in Entries : dir[x].ino = 0}
           y == IF free = {} THEN 0 ELSE Min(free)
<1>0. f \in Process /\ StackFits(f) /\ (file[p].slot = 0 => file[p].num = 0) /\ NamesInv(p) /\ NewInv(p)
  BY Moment DEF TablesInv, FileInv
<1>1. /\ g.at = a /\ CallAt(g) = a /\ Caller(g).ip = Caller(f).ip
      /\ g.op = f.op /\ g.name = f.name /\ g.nr = f.nr
      /\ inode' = inode /\ file' = file /\ calls' = calls
      /\ f.at # "user"
      /\ a \notin {"create_block", "getblk", "write_block", "bread", "copy", "free_block", "sync_inodes", "write_inode", "write_bread"}
  BY ReturnsUp
<1>2. a \in {"open_added", "link_added"}
  BY Moment, CallLabels
<1>3. Asked(p)' /\ OpInv(p)'
  BY <1>1, GoesOn
<1>4. CallAt(proc[p])' = a /\ Caller(proc[p])' = Caller(g)
  BY <1>1, CallNext
<1>5. g.de = y /\ dir' = [i \in Entries |-> IF i = y THEN [name |-> f.name, ino |-> 0] ELSE dir[i]]
  <2>1. add_entry(p)
    BY ActionAt
  <2>2. PICK h : h = [Returns(f) EXCEPT !.de = y]
    OBVIOUS
  <2>3. At(p, "add_entry") /\ Goto(p, h) /\ dir' = [i \in Entries |-> IF i = y THEN [name |-> f.name, ino |-> 0] ELSE dir[i]]
    BY <2>1, <2>2 DEF add_entry
  <2>4. h.at = Head(f.stack).at /\ h.de = y
    BY <1>0, <2>2 DEF Returns, Process
  <2>5. Head(f.stack).at = a
    BY Moment, CallLabels
  <2>6. h.at # "user"
    BY <1>2, <2>4, <2>5
  <2>7. g = h
    BY <2>3, <2>6, WentTo
  <2> QED
    BY <2>3, <2>4, <2>7
<1>6. y # 0 => y \in Entries /\ dir'[y].name = f.name /\ dir'[y].ino = 0
  <2> SUFFICES ASSUME y # 0 PROVE y \in Entries /\ dir'[y].name = f.name /\ dir'[y].ino = 0
    OBVIOUS
  <2>1. y \in free
    BY EntriesSet
  <2>2. y \in Entries
    BY <2>1
  <2> HIDE DEF y
  <2>3. dir'[y] = [name |-> f.name, ino |-> 0]
    BY <1>5, <2>2
  <2> QED
    BY <2>2, <2>3
<1> HIDE DEF y
<1>7. (a \in {"link_added"} /\ inode[s].num \in Public(calls) => LinksPublic(calls, p)) /\ f.name \in Mine(calls, p)
  BY <1>0, <1>2 DEF NamesInv
<1>8. NamesInv(p)'
  BY <1>1, <1>2, <1>4, <1>5, <1>6, <1>7 DEF NamesInv, Named, Seeks, Got
<1>9. NewInv(p)'
  <2> SUFFICES ASSUME a = "open_added", s # 0
               PROVE  (\A e \in Entries : dir'[e].ino # inode[s].num) /\ inode[s].nlinks = 1 /\ inode[s].zone = 0
    BY <1>1, <1>4, <1>2 DEF NewInv, Created
  <2>1. Created(f) = s
    BY DEF Created
  <2>2. (\A e \in Entries : dir[e].ino # inode[s].num) /\ inode[s].nlinks = 1 /\ inode[s].zone = 0
    BY <1>0, <2>1 DEF NewInv
  <2>3. inode[s].num # 0
    BY <2>1, CreatorHolds
  <2> QED
    BY <1>5, <2>2, <2>3
<1>10. FileInv(p)'
  BY <1>0, <1>1, NoFile
<1> QED
  BY <1>3, <1>8, <1>9, <1>10 DEF CallInv

\* The iput() of the directory changes nothing.
LEMMA DirPut ==
  ASSUME IInv, IInv', TablesInv, NEW p \in Procs, Step(p), proc[p].at = "iput_dir"
  PROVE  CallInv(p)'
<1> DEFINE f == proc[p]
           g == proc'[p]
           a == CallAt(f)
<1>0. f \in Process /\ StackFits(f) /\ (file[p].slot = 0 => file[p].num = 0) /\ NamesInv(p)
  BY Moment DEF TablesInv, FileInv
<1>1. /\ g.at = a /\ CallAt(g) = a /\ Caller(g).ip = Caller(f).ip
      /\ g.op = f.op /\ g.name = f.name /\ g.nr = f.nr /\ g.de = f.de
      /\ inode' = inode /\ file' = file /\ calls' = calls /\ dir' = dir
      /\ f.at # "user"
      /\ a \notin {"create_block", "getblk", "write_block", "bread", "copy", "free_block", "sync_inodes", "write_inode", "write_bread"}
  BY ReturnsUp
<1>2. a \in {"open_inode", "link_inode", "open_new_done", "link_count", "link_drop"}
  BY Moment, CallLabels
<1>3. Asked(p)' /\ OpInv(p)'
  BY <1>1, GoesOn
<1>4. CallAt(proc[p])' = a /\ Caller(proc[p])' = Caller(g)
  BY <1>1, CallNext
<1>5. a \in Seeks => SeekInv(p)'
  <2> SUFFICES ASSUME a \in Seeks PROVE SeekInv(p)'
    OBVIOUS
  <2>1. SeekInv(p)
    BY <1>0 DEF NamesInv
  <2> QED
    BY <1>1, <2>1 DEF SeekInv, NamesInode
<1>6. NamesInv(p)'
  BY <1>0, <1>1, <1>2, <1>4, <1>5 DEF NamesInv, Named, Seeks, Got
<1>7. NewInv(p)'
  BY <1>2, <1>4 DEF NewInv, Created
<1>8. FileInv(p)'
  BY <1>0, <1>1, NoFile
<1> QED
  BY <1>3, <1>6, <1>7, <1>8 DEF CallInv

\* A system call between the functions it calls
LEMMA TopStep ==
  ASSUME IInv, IInv', TablesInv, NEW p \in Procs, Step(p), proc[p].at \in Top
  PROVE  LET f == proc[p] IN
         /\ f \in Process /\ f.stack = <<>> /\ CallAt(f) = f.at /\ Caller(f).ip = f.ip /\ f.ip \in SlotOr0 /\ 0 \in SlotOr0
         /\ NamesInv(p) /\ NewInv(p) /\ OpInv(p) /\ Asked(p) /\ FileInv(p) /\ calls' = calls /\ f.at # "user"
         /\ f.at \in HasSlot => f.ip \in Slots /\ f.ip # 0
         /\ file[p].slot = 0 => file[p].num = 0
         /\ file[p] = [slot |-> file[p].slot, num |-> file[p].num]
<1>1. proc[p] \in Process /\ StackFits(proc[p]) /\ calls' = calls
  BY Moment
<1>2. proc[p].stack = <<>> /\ CallAt(proc[p]) = proc[p].at /\ Caller(proc[p]).ip = proc[p].ip
  BY <1>1, CallLabels
<1>3. NamesInv(p) /\ NewInv(p) /\ OpInv(p) /\ Asked(p) /\ FileInv(p)
  BY DEF TablesInv
<1>4. proc[p].ip \in SlotOr0 /\ 0 \in SlotOr0 /\ 0 \notin Slots
  BY <1>1, SlotsAre DEF Process
<1>5. proc[p].at \in HasSlot => proc[p].ip \in Slots
  BY HereIs
<1>6. file[p] = [slot |-> file[p].slot, num |-> file[p].num]
  BY DEF IInv, Typed
<1> QED
  BY <1>1, <1>2, <1>3, <1>4, <1>5, <1>6 DEF FileInv, Top

\* The labels that a call goes on at
LEMMA TopLabels == Top \subseteq Labels /\ {"iput_dir", "iput", "truncate", "add_entry", "find_entry", "user",
                                           "create_block", "sync_inodes"} \subseteq Labels
<1>1. Top \subseteq Labels
  <2> SUFFICES ASSUME NEW a \in Top PROVE a \in Labels
    OBVIOUS
  <2> QED
    BY DEF Top, Labels, Yields, Waits
<1>2. {"iput_dir", "iput", "truncate", "add_entry", "find_entry", "user", "create_block", "sync_inodes"} \subseteq Labels
  BY DEF Labels, Yields, Waits
<1> QED
  BY <1>1, <1>2

\* Nothing is open or closed.
LEMMA ReturnEnds ==
  ASSUME IInv, IInv', TablesInv, NEW p \in Procs, Step(p), proc[p].at \in Top, NEW here, At(p, here), Return(p)
  PROVE  CallInv(p)'
<1>1. Goto(p, AtUser) /\ file' = file
  BY DEF Return, fileVars
<1>2. proc'[p].at = "user" /\ CallAt(proc'[p]) = "user"
  BY <1>1, CallEnds
<1>3. file[p].slot = 0 => file[p].num = 0
  BY TopStep
<1> QED
  BY <1>1, <1>2, <1>3, Leaves

\* A file is open now.
LEMMA OpenedEnds ==
  ASSUME IInv, IInv', TablesInv, NEW p \in Procs, Step(p), NEW here \in Top, At(p, here), NEW s \in Slots, NEW n, Opened(p, s, n)
  PROVE  CallInv(p)'
<1>1. Goto(p, AtUser) /\ file' = [file EXCEPT ![p] = [slot |-> s, num |-> n]]
  BY DEF Opened
<1>2. proc'[p].at = "user" /\ CallAt(proc'[p]) = "user"
  BY <1>1, CallEnds
<1>3. file'[p].slot # 0
  BY <1>1, SlotsAre DEF IInv, Typed
<1> QED
  BY <1>2, <1>3, Leaves

\* The call ends with an iput().
LEMMA PutEnds ==
  ASSUME IInv, IInv', TablesInv, NEW p \in Procs, Step(p), NEW here \in Top, At(p, here), NEW s \in SlotOr0, file' = file,
         Goto(p, Calls(proc[p], "iput", s, "user"))
  PROVE  CallInv(p)'
<1>0. proc[p].at = here
  BY DEF At
<1>1. proc[p] \in Process /\ proc[p].stack = <<>> /\ (file[p].slot = 0 => file[p].num = 0) /\ proc[p].at # "user"
  BY <1>0, TopStep
<1>2. LET g == proc'[p] IN g.at = "iput" /\ CallAt(g) = "user" /\ g.op = proc[p].op /\ g.name = proc[p].name
  BY <1>1, TopLabels, CallsDown
<1>3. Asked(p)'
  BY <1>1, <1>2, AskedStays DEF Olds
<1> QED
  BY <1>1, <1>2, <1>3, Leaves

\* sys_open() and its like: what is found is opened, what is not is created.
LEMMA OpenFoundStays ==
  ASSUME IInv, IInv', TablesInv, NEW p \in Procs, Step(p), proc[p].at = "open_found"
  PROVE  CallInv(p)'
<1> DEFINE f == proc[p]
           g == proc'[p]
<1>0. /\ f \in Process /\ f.stack = <<>> /\ CallAt(f) = f.at /\ f.ip \in SlotOr0 /\ 0 \in SlotOr0
      /\ NamesInv(p) /\ OpInv(p) /\ calls' = calls /\ f.at # "user" /\ (file[p].slot = 0 => file[p].num = 0)
  BY TopStep DEF Top
<1>1. open_found(p) /\ At(p, "open_found")
  BY ActionAt DEF open_found
<1>2. CASE f.de = 0 /\ f.op \in {"creat", "mknod"}
          /\ UNCHANGED <<inodeVars, fileVars>>
          /\ Goto(p, [f EXCEPT !.at = "get_empty_inode", !.stack = <<Frame("new_inode", 0), Frame("open_new", 0)>>])
  <2> DEFINE h == [f EXCEPT !.at = "get_empty_inode", !.stack = <<Frame("new_inode", 0), Frame("open_new", 0)>>]
  <2>1. h.at = "get_empty_inode" /\ h.stack = <<Frame("new_inode", 0), Frame("open_new", 0)>>
        /\ h.op = f.op /\ h.name = f.name
    BY <1>0 DEF Process
  <2>2. Caller(h) = Frame("open_new", 0)
    BY <2>1 DEF Caller
  <2> HIDE DEF h
  <2>3. g = h
    BY <1>1, <1>2, <2>1, WentTo DEF h
  <2>4. g.at = "get_empty_inode" /\ CallAt(g) = "open_new" /\ Caller(g).ip = 0 /\ g.op = f.op /\ g.name = f.name
    BY <2>1, <2>2, <2>3, FrameIs DEF CallAt
  <2>5. Asked(p)'
    BY <1>0, <2>4, AskedStays DEF Olds
  <2>6. CallAt(proc[p])' = "open_new" /\ Caller(proc[p])' = Caller(g)
    BY <2>4, CallNext
  <2>7. OpInv(p)'
    BY <1>2, <2>4, <2>6 DEF OpInv, OpenLabels, LinkLabels
  <2>8. f.name \in Mine(calls, p)
    <3>1. f.name \notin Lasting(calls)
      BY <1>0, <1>2 DEF NamesInv
    <3> QED
      BY <1>0, <3>1, UsesName DEF OpenLabels
  <2>9. NamesInv(p)'
    BY <1>0, <2>4, <2>6, <2>8 DEF NamesInv, Seeks, Got
  <2>10. NewInv(p)'
    BY <2>4, <2>6 DEF NewInv, Created
  <2>11. file' = file
    BY <1>2 DEF fileVars
  <2>12. FileInv(p)'
    BY <1>0, <2>4, <2>11, NoFile
  <2> QED
    BY <2>5, <2>7, <2>9, <2>10, <2>12 DEF CallInv
<1>3. CASE f.de # 0 /\ f.op \in {"open", "creat"}
          /\ UNCHANGED <<inodeVars, fileVars>>
          /\ Goto(p, Calls([f EXCEPT !.nr = dir[f.de].ino], "iput_dir", 0, "open_inode"))
  <2> DEFINE n == dir[f.de].ino
  <2>1. PICK h : h = [f EXCEPT !.nr = n]
    OBVIOUS
  <2>2. /\ Named(f) /\ n # 0 /\ f.de \in Entries
        /\ NamesInode(p, n) \/ n \in Public(calls)
        /\ n \in Public(calls) /\ f.op # "mknod" => Reaches(calls, p)
        /\ f.op = "creat" => n \notin Public(calls)
    BY <1>3, MaySeek DEF Founds
  <2>3. h \in Process /\ h.stack = <<>> /\ h.op = f.op /\ h.name = f.name /\ h.nr = n
    <3>1. n \in 0..NInodes
      BY <2>2 DEF IInv, Typed
    <3> QED
      BY <1>0, <2>1, <3>1 DEF Process
  <2>4. Goto(p, Calls(h, "iput_dir", 0, "open_inode"))
    BY <1>3, <2>1
  <2>5. g.at = "iput_dir" /\ CallAt(g) = "open_inode" /\ g.op = f.op /\ g.name = f.name /\ g.nr = n
    BY <1>0, <1>1, <2>3, <2>4, CallsDown, TopLabels DEF Top
  <2>6. Asked(p)'
    BY <1>0, <2>5, AskedStays DEF Olds
  <2>7. CallAt(proc[p])' = "open_inode"
    BY <2>5, CallNext
  <2>8. OpInv(p)'
    BY <1>3, <2>5, <2>7 DEF OpInv, OpenLabels, LinkLabels
  <2>9. dir' = dir /\ file' = file
    BY <1>3 DEF fileVars
  <2>10. SeekInv(p)'
    BY <1>0, <1>3, <2>2, <2>5, <2>9 DEF SeekInv, NamesInode
  <2>11. NamesInv(p)'
    BY <1>0, <2>2, <2>5, <2>7, <2>10 DEF NamesInv
  <2>12. NewInv(p)'
    BY <2>7 DEF NewInv, Created
  <2>13. FileInv(p)'
    BY <1>0, <2>5, <2>9, NoFile
  <2> QED
    BY <2>6, <2>8, <2>11, <2>12, <2>13 DEF CallInv
<1>4. CASE Return(p)
  BY <1>1, <1>4, ReturnEnds DEF Top
<1> QED
  BY <1>1, <1>2, <1>3, <1>4 DEF open_found

\* The inode is brought that was sought.
LEMMA IgetStays ==
  ASSUME IInv, IInv', TablesInv, NEW p \in Procs, Step(p), proc[p].at \in {"open_inode", "link_inode"}
  PROVE  CallInv(p)'
<1> DEFINE f == proc[p]
           g == proc'[p]
           ret == IF f.at = "open_inode" THEN "open_got" ELSE "link_old"
<1>0. /\ f \in Process /\ CallAt(f) = f.at
      /\ NamesInv(p) /\ OpInv(p) /\ calls' = calls /\ f.at # "user" /\ (file[p].slot = 0 => file[p].num = 0)
  BY TopStep DEF Top
<1>1. UNCHANGED <<inodeVars, fileVars>> /\ Goto(p, Iget(f, f.nr, ret)) /\ At(p, f.at)
  <2>1. CASE f.at = "open_inode"
    BY <2>1, ActionAt DEF open_inode
  <2>2. CASE f.at = "link_inode"
    BY <2>2, ActionAt DEF link_inode
  <2> QED
    BY <2>1, <2>2
<1> HIDE DEF ret
<1>2. /\ g.at = "get_empty_inode" /\ CallAt(g) = ret
      /\ g.op = f.op /\ g.name = f.name /\ g.nr = f.nr
  <2>1. PICK a \in Top : a = f.at
    BY DEF Top
  <2>2. PICK n : n = f.nr
    OBVIOUS
  <2>3. PICK r \in Labels : r = ret
    BY TopLabels DEF ret, Top
  <2>4. At(p, a) /\ Goto(p, Iget(proc[p], n, r))
    BY <1>1, <2>1, <2>2, <2>3
  <2>5. g.at = "get_empty_inode" /\ CallAt(g) = r /\ g.op = f.op /\ g.name = f.name /\ g.nr = n
    BY <2>1, <2>3, <2>4, IgetDown
  <2> QED
    BY <2>2, <2>3, <2>5
<1>3. Asked(p)'
  BY <1>0, <1>2, AskedStays DEF Olds, ret
<1>4. CallAt(proc[p])' = ret
  BY <1>2, CallNext
<1>5. OpInv(p)'
  BY <1>0, <1>2, <1>4 DEF OpInv, OpenLabels, LinkLabels, ret
<1>6. dir' = dir /\ file' = file
  BY <1>1 DEF fileVars
<1>7. SeekInv(p) /\ (f.op = "creat" => f.nr \notin Public(calls))
  BY <1>0 DEF NamesInv, Seeks
<1>8. SeekInv(p)'
  BY <1>0, <1>2, <1>6, <1>7 DEF SeekInv, NamesInode
<1>9. NamesInv(p)'
  BY <1>0, <1>2, <1>4, <1>7, <1>8 DEF NamesInv, ret
<1>10. NewInv(p)'
  BY <1>4 DEF NewInv, Created, ret
<1>11. FileInv(p)'
  BY <1>0, <1>2, <1>6, NoFile DEF ret
<1> QED
  BY <1>3, <1>5, <1>9, <1>10, <1>11 DEF CallInv

\* The file is open, after creat() has truncated it.
LEMMA OpenGotStays ==
  ASSUME IInv, IInv', TablesInv, NEW p \in Procs, Step(p), proc[p].at \in {"open_got", "open_done"}
  PROVE  CallInv(p)'
<1> DEFINE f == proc[p]
           g == proc'[p]
<1>0. /\ f \in Process /\ f.stack = <<>> /\ CallAt(f) = f.at /\ f.ip \in Slots
      /\ NamesInv(p) /\ OpInv(p) /\ calls' = calls /\ f.at # "user" /\ (file[p].slot = 0 => file[p].num = 0)
  BY TopStep DEF Top, HasSlot, Counted
<1>1. open_got(p)
  BY ActionAt
<1>2. CASE At(p, "open_got") /\ f.op = "creat" /\ Continue(p, "truncate", f.ip, "open_done")
  <2>1. Goto(p, Calls(f, "truncate", f.ip, "open_done")) /\ file' = file
    BY <1>2 DEF Continue, fileVars
  <2>2. g.at = "truncate" /\ CallAt(g) = "open_done" /\ g.op = f.op /\ g.name = f.name /\ g.nr = f.nr
    <3>1. PICK s \in SlotOr0 : s = f.ip
      BY <1>0, SlotsAre
    <3>2. Goto(p, Calls(f, "truncate", s, "open_done"))
      BY <2>1, <3>1
    <3> QED
      BY <1>0, <1>2, <3>2, CallsDown, TopLabels DEF Top
  <2>3. Asked(p)'
    BY <1>0, <2>2, AskedStays DEF Olds
  <2>4. CallAt(proc[p])' = "open_done"
    BY <2>2, CallNext
  <2>5. OpInv(p)'
    BY <1>2, <2>2, <2>4 DEF OpInv, OpenLabels, LinkLabels
  <2>6. f.at = "open_got"
    BY <1>2 DEF At
  <2>7. f.nr \notin Public(calls)
    BY <1>0, <1>2, <2>6 DEF NamesInv, Seeks, Got
  <2>8. NamesInv(p)'
    BY <1>0, <2>2, <2>4, <2>7 DEF NamesInv, Seeks, Got
  <2>9. NewInv(p)'
    BY <2>4 DEF NewInv, Created
  <2>10. FileInv(p)'
    BY <1>0, <2>1, <2>2, NoFile
  <2> QED
    BY <2>3, <2>5, <2>8, <2>9, <2>10 DEF CallInv
<1>3. ASSUME NEW here \in Top, At(p, here), Opened(p, f.ip, f.nr) PROVE CallInv(p)'
  <2>1. PICK s \in Slots : s = f.ip
    BY <1>0
  <2>2. PICK n \in 0..NInodes : n = f.nr
    BY <1>0 DEF Process
  <2>3. Opened(p, s, n)
    BY <1>3, <2>1, <2>2
  <2> QED
    BY <1>3, <2>3, OpenedEnds
<1>4. "open_got" \in Top /\ "open_done" \in Top
  BY DEF Top
<1> QED
  BY <1>1, <1>2, <1>3, <1>4 DEF open_got

\* The new inode gets a name.
LEMMA OpenNewStays ==
  ASSUME IInv, IInv', TablesInv, NEW p \in Procs, Step(p), proc[p].at = "open_new"
  PROVE  CallInv(p)'
<1> DEFINE f == proc[p]
           g == proc'[p]
<1>0. /\ f \in Process /\ f.stack = <<>> /\ CallAt(f) = f.at /\ Caller(f).ip = f.ip /\ f.ip \in SlotOr0
      /\ NamesInv(p) /\ NewInv(p) /\ OpInv(p) /\ calls' = calls /\ f.at # "user" /\ (file[p].slot = 0 => file[p].num = 0)
  BY TopStep DEF Top
<1>1. open_new(p) /\ At(p, "open_new")
  BY ActionAt DEF open_new
<1>2. CASE f.ip = 0
  <2>1. Return(p)
    BY <1>1, <1>2 DEF open_new
  <2> QED
    BY <1>1, <2>1, ReturnEnds DEF Top
<1>3. CASE f.ip # 0
  <2>1. Goto(p, Calls(f, "add_entry", f.ip, "open_added")) /\ file' = file /\ dir' = dir /\ inode' = inode
    BY <1>1, <1>3 DEF open_new, Continue, fileVars, inodeVars
  <2>2. g.at = "add_entry" /\ CallAt(g) = "open_added" /\ g.op = f.op /\ g.name = f.name /\ Caller(g).ip = f.ip
    <3>1. PICK s \in SlotOr0 : s = f.ip
      BY <1>0
    <3>2. Goto(p, Calls(f, "add_entry", s, "open_added"))
      BY <2>1, <3>1
    <3> QED
      BY <1>0, <1>1, <3>1, <3>2, CallsDown, TopLabels DEF Top
  <2>3. Asked(p)'
    BY <1>0, <2>2, AskedStays DEF Olds
  <2>4. CallAt(proc[p])' = "open_added" /\ Caller(proc[p])' = Caller(g)
    BY <2>2, CallNext
  <2>5. OpInv(p)'
    BY <1>0, <2>2, <2>4 DEF OpInv, OpenLabels, LinkLabels
  <2>6. f.name \in Mine(calls, p)
    BY <1>0 DEF NamesInv
  <2>7. NamesInv(p)'
    BY <1>0, <2>2, <2>4, <2>6 DEF NamesInv, Seeks, Got
  <2>8. Created(f) = f.ip
    BY <1>0 DEF Created
  <2>9. NewInv(p)'
    BY <1>0, <2>1, <2>2, <2>4, <2>8 DEF NewInv, Created
  <2>10. FileInv(p)'
    BY <1>0, <2>1, <2>2, NoFile
  <2> QED
    BY <2>3, <2>5, <2>7, <2>9, <2>10 DEF CallInv
<1> QED
  BY <1>2, <1>3

\* The new entry gets the inode, or the inode is let go,
LEMMA OpenAddedStays ==
  ASSUME IInv, IInv', TablesInv, NEW p \in Procs, Step(p), proc[p].at = "open_added"
  PROVE  CallInv(p)'
<1> DEFINE f == proc[p]
           g == proc'[p]
<1>0. /\ f \in Process /\ f.stack = <<>> /\ CallAt(f) = f.at /\ f.ip \in SlotOr0 /\ f.ip \in Slots /\ 0 \in SlotOr0
      /\ OpInv(p) /\ calls' = calls /\ f.at # "user" /\ (file[p].slot = 0 => file[p].num = 0)
  BY TopStep DEF Top, HasSlot, Counted
<1>1. open_added(p) /\ At(p, "open_added")
  BY ActionAt DEF open_added
<1>2. CASE f.de = 0
  <2>1. PICK s \in SlotOr0 : s = f.ip
    BY <1>0
  <2>2. Goto(p, Calls(f, "iput", s, "user")) /\ file' = file
    BY <1>1, <1>2, <2>1 DEF open_added, fileVars
  <2> QED
    BY <1>1, <2>2, PutEnds DEF Top
<1>3. CASE f.de # 0
  <2>1. PICK h : h = [f EXCEPT !.nr = inode[f.ip].num]
    OBVIOUS
  <2>2. Goto(p, Calls(h, "iput_dir", 0, "open_new_done")) /\ file' = file
    BY <1>1, <1>3, <2>1 DEF open_added
  <2>3. h \in Process /\ h.stack = <<>> /\ h.op = f.op /\ h.name = f.name
    <3>1. inode[f.ip].num \in 0..NInodes
      BY <1>0 DEF IInv, Typed, Inode
    <3> QED
      BY <1>0, <2>1, <3>1 DEF Process
  <2>4. g.at = "iput_dir" /\ CallAt(g) = "open_new_done" /\ g.op = f.op /\ g.name = f.name
    BY <1>0, <1>1, <2>2, <2>3, CallsDown, TopLabels DEF Top
  <2>5. Asked(p)'
    BY <1>0, <2>4, AskedStays DEF Olds
  <2>6. CallAt(proc[p])' = "open_new_done"
    BY <2>4, CallNext
  <2>7. OpInv(p)'
    BY <1>0, <2>4, <2>6 DEF OpInv, OpenLabels, LinkLabels
  <2>8. NamesInv(p)' /\ NewInv(p)'
    BY <2>4, PlainCall DEF Founds
  <2>9. FileInv(p)'
    BY <1>0, <2>2, <2>4, NoFile
  <2> QED
    BY <2>5, <2>7, <2>8, <2>9 DEF CallInv
<1> QED
  BY <1>2, <1>3

\* and the new file is open.
LEMMA OpenNewDoneStays ==
  ASSUME IInv, IInv', TablesInv, NEW p \in Procs, Step(p), proc[p].at = "open_new_done"
  PROVE  CallInv(p)'
<1> DEFINE f == proc[p]
<1>0. f \in Process /\ f.ip \in Slots /\ f.ip \in SlotOr0
  BY TopStep DEF Top, HasSlot, Counted
<1>1. open_new_done(p) /\ At(p, "open_new_done")
  BY ActionAt DEF open_new_done
<1>2. PICK s \in Slots : s = f.ip
  BY <1>0
<1>3. PICK n \in 0..NInodes : n = f.nr
  BY <1>0 DEF Process
<1>4. CASE Opened(p, f.ip, f.nr)
  <2>1. Opened(p, s, n)
    BY <1>2, <1>3, <1>4
  <2> QED
    BY <1>1, <2>1, OpenedEnds DEF Top
<1>5. CASE Continue(p, "iput", f.ip, "user")
  <2>1. Goto(p, Calls(f, "iput", s, "user")) /\ file' = file /\ s \in SlotOr0
    BY <1>0, <1>2, <1>5 DEF Continue, fileVars
  <2> QED
    BY <1>1, <2>1, PutEnds DEF Top
<1> QED
  BY <1>1, <1>4, <1>5 DEF open_new_done

\* sys_unlink() seeks the inode whose name it removes.
LEMMA UnlinkFoundStays ==
  ASSUME IInv, IInv', TablesInv, NEW p \in Procs, Step(p), proc[p].at = "unlink_found"
  PROVE  CallInv(p)'
<1> DEFINE f == proc[p]
           g == proc'[p]
<1>0. /\ f \in Process /\ CallAt(f) = f.at
      /\ OpInv(p) /\ calls' = calls /\ f.at # "user" /\ (file[p].slot = 0 => file[p].num = 0)
  BY TopStep DEF Top
<1>1. unlink_found(p) /\ At(p, "unlink_found")
  BY ActionAt DEF unlink_found
<1>2. CASE f.de = 0
  <2>1. Return(p)
    BY <1>1, <1>2 DEF unlink_found
  <2> QED
    BY <1>1, <2>1, ReturnEnds DEF Top
<1>3. CASE f.de # 0
  <2>1. PICK n : n = dir[f.de].ino
    OBVIOUS
  <2>2. Goto(p, Iget(f, n, "unlink_got")) /\ file' = file /\ dir' = dir
    BY <1>1, <1>3, <2>1 DEF unlink_found, fileVars
  <2>3. /\ Named(f) /\ n # 0 /\ f.de \in Entries
        /\ NamesInode(p, n) \/ n \in Public(calls)
        /\ n \in Public(calls) /\ f.op # "mknod" => Reaches(calls, p)
        /\ n \in Public(calls) /\ f.op = "link" => LinksPublic(calls, p)
    BY <1>3, <2>1, MaySeek DEF Founds
  <2>4. f.op = "unlink"
    BY <1>0 DEF OpInv
  <2>5. g.at = "get_empty_inode" /\ CallAt(g) = "unlink_got" /\ g.op = f.op /\ g.name = f.name /\ g.nr = n /\ g.de = f.de
    <3>1. "unlink_found" \in Top /\ "unlink_got" \in Labels
      BY TopLabels DEF Top
    <3> QED
      BY <1>1, <2>2, <3>1, IgetDown
  <2>6. Asked(p)'
    BY <1>0, <2>5, AskedStays DEF Olds
  <2>7. CallAt(proc[p])' = "unlink_got"
    BY <2>5, CallNext
  <2>8. OpInv(p)'
    BY <2>4, <2>5, <2>7 DEF OpInv, OpenLabels, LinkLabels
  <2>9. SeekInv(p)'
    BY <1>0, <2>2, <2>3, <2>4, <2>5 DEF SeekInv, NamesInode
  <2>10. Named(proc[p])' /\ (dir[proc[p].de].ino = proc[p].nr)'
    BY <2>1, <2>2, <2>3, <2>5 DEF Named
  <2>11. NamesInv(p)'
    BY <1>0, <2>4, <2>5, <2>7, <2>9, <2>10 DEF NamesInv
  <2>12. NewInv(p)'
    BY <2>7 DEF NewInv, Created
  <2>13. FileInv(p)'
    BY <1>0, <2>2, <2>5, NoFile
  <2> QED
    BY <2>6, <2>8, <2>11, <2>12, <2>13 DEF CallInv
<1> QED
  BY <1>2, <1>3

\* These calls end with the iput() of the inode.
LEMMA CountedStays ==
  ASSUME IInv, IInv', TablesInv, NEW p \in Procs, Step(p), proc[p].at \in {"unlink_got", "link_count", "link_drop"}
  PROVE  CallInv(p)'
<1> DEFINE f == proc[p]
<1>0. f.ip \in SlotOr0 /\ f.at \in Top
  BY TopStep DEF Top
<1>1. PICK s \in SlotOr0 : s = f.ip
  BY <1>0
<1>2. PICK a \in Top : a = f.at
  BY <1>0
<1>3. At(p, a) /\ Goto(p, Calls(f, "iput", s, "user")) /\ file' = file
  <2>1. CASE f.at = "unlink_got"
    BY <1>1, <1>2, <2>1, ActionAt DEF unlink_got
  <2>2. CASE f.at = "link_count"
    BY <1>1, <1>2, <2>2, ActionAt DEF link_count, fileVars
  <2>3. CASE f.at = "link_drop"
    BY <1>1, <1>2, <2>3, ActionAt DEF link_drop, Continue, fileVars
  <2> QED
    BY <2>1, <2>2, <2>3
<1> QED
  BY <1>2, <1>3, PutEnds

\* sys_link() seeks the old name,
LEMMA LinkFoundStays ==
  ASSUME IInv, IInv', TablesInv, NEW p \in Procs, Step(p), proc[p].at = "link_found"
  PROVE  CallInv(p)'
<1> DEFINE f == proc[p]
           g == proc'[p]
<1>0. /\ f \in Process /\ f.stack = <<>> /\ CallAt(f) = f.at /\ 0 \in SlotOr0
      /\ OpInv(p) /\ calls' = calls /\ f.at # "user" /\ (file[p].slot = 0 => file[p].num = 0)
  BY TopStep DEF Top
<1>1. link_found(p) /\ At(p, "link_found")
  BY ActionAt DEF link_found
<1>2. CASE f.de = 0
  <2>1. Return(p)
    BY <1>1, <1>2 DEF link_found
  <2> QED
    BY <1>1, <2>1, ReturnEnds DEF Top
<1>3. CASE f.de # 0
  <2>1. PICK n : n = dir[f.de].ino
    OBVIOUS
  <2>2. PICK h : h = [f EXCEPT !.nr = n]
    OBVIOUS
  <2>3. Goto(p, Calls(h, "iput_dir", 0, "link_inode")) /\ file' = file /\ dir' = dir
    BY <1>1, <1>3, <2>1, <2>2 DEF link_found, fileVars
  <2>4. /\ Named(f) /\ n # 0 /\ f.de \in Entries
        /\ NamesInode(p, n) \/ n \in Public(calls)
        /\ n \in Public(calls) /\ f.op # "mknod" => Reaches(calls, p)
        /\ n \in Public(calls) /\ f.op = "link" => LinksPublic(calls, p)
    BY <1>3, <2>1, MaySeek DEF Founds
  <2>5. f.op = "link"
    BY <1>0 DEF OpInv, LinkLabels
  <2>6. h \in Process /\ h.stack = <<>> /\ h.op = f.op /\ h.name = f.name /\ h.nr = n
    <3>1. n \in 0..NInodes
      BY <2>1, <2>4 DEF IInv, Typed
    <3> QED
      BY <1>0, <2>2, <3>1 DEF Process
  <2>7. g.at = "iput_dir" /\ CallAt(g) = "link_inode" /\ g.op = f.op /\ g.name = f.name /\ g.nr = n
    BY <1>0, <1>1, <2>3, <2>6, CallsDown, TopLabels DEF Top
  <2>8. Asked(p)'
    BY <1>0, <2>7, AskedStays DEF Olds
  <2>9. CallAt(proc[p])' = "link_inode"
    BY <2>7, CallNext
  <2>10. OpInv(p)'
    BY <2>5, <2>7, <2>9 DEF OpInv, OpenLabels, LinkLabels
  <2>11. SeekInv(p)'
    BY <1>0, <2>3, <2>4, <2>5, <2>7 DEF SeekInv, NamesInode
  <2>12. NamesInv(p)'
    BY <1>0, <2>5, <2>7, <2>9, <2>11 DEF NamesInv
  <2>13. NewInv(p)'
    BY <2>9 DEF NewInv, Created
  <2>14. FileInv(p)'
    BY <1>0, <2>3, <2>7, NoFile
  <2> QED
    BY <2>8, <2>10, <2>12, <2>13, <2>14 DEF CallInv
<1> QED
  BY <1>2, <1>3

\* then the new one,
LEMMA LinkOldStays ==
  ASSUME IInv, IInv', TablesInv, NEW p \in Procs, Step(p), proc[p].at = "link_old"
  PROVE  CallInv(p)'
<1> DEFINE f == proc[p]
           g == proc'[p]
<1>0. /\ f \in Process /\ f.stack = <<>> /\ CallAt(f) = f.at /\ f.ip \in Slots /\ f.ip \in SlotOr0
      /\ NamesInv(p) /\ OpInv(p) /\ calls' = calls /\ f.at # "user" /\ (file[p].slot = 0 => file[p].num = 0)
  BY TopStep DEF Top, HasSlot, Counted
<1>1. link_old(p) /\ At(p, "link_old") /\ file' = file /\ dir' = dir /\ inode' = [inode EXCEPT ![f.ip].dirt = TRUE]
  BY ActionAt DEF link_old, fileVars
<1>2. PICK c \in calls[p] : /\ c.op = "link" /\ c.name = f.name
                            /\ Goto(p, Calls([f EXCEPT !.name = c.to], "find_entry", f.ip, "link_target"))
  BY <1>1 DEF link_old
<1>3. PICK h : h = [f EXCEPT !.name = c.to]
  OBVIOUS
<1>4. PICK s \in SlotOr0 : s = f.ip
  BY <1>0
<1>5. h \in Process /\ h.stack = <<>> /\ h.op = f.op /\ h.name = c.to /\ h.nr = f.nr /\ h.ip = f.ip
  <2>1. c.to \in Names
    <3>1. calls \in Workloads
      BY DEF IInv, Typed
    <3>2. c \in SystemCall
      BY <1>2, <3>1, FilesAssumption
    <3> QED
      BY <3>2 DEF SystemCall
  <2> QED
    BY <1>0, <1>3, <2>1 DEF Process
<1>6. Goto(p, Calls(h, "find_entry", s, "link_target"))
  BY <1>2, <1>3, <1>4
<1>7. g.at = "find_entry" /\ CallAt(g) = "link_target" /\ Caller(g).ip = f.ip /\ g.op = f.op /\ g.name = c.to
  BY <1>0, <1>1, <1>4, <1>5, <1>6, CallsDown, TopLabels DEF Top
<1>8. CallAt(proc[p])' = "link_target" /\ Caller(proc[p])' = Caller(g)
  BY <1>7, CallNext
<1>9. f.op = "link"
  BY <1>0 DEF OpInv, LinkLabels
<1>10. Asked(p)'
  BY <1>0, <1>2, <1>7, <1>8, <1>9 DEF Asked, Olds
<1>11. OpInv(p)'
  BY <1>7, <1>8, <1>9 DEF OpInv, OpenLabels, LinkLabels
<1>12. inode'[f.ip].num = f.nr
  <2>1. inode[f.ip].num = f.nr
    BY <1>0 DEF IInv, Held, Holding, Kept
  <2>2. inode'[f.ip].num = inode[f.ip].num
    BY <1>0, <1>1, HereIs DEF Inode
  <2> QED
    BY <2>1, <2>2
<1>13. f.nr \in Public(calls) => LinksPublic(calls, p)
  <2>1. SeekInv(p)
    BY <1>0 DEF NamesInv, Seeks, Got
  <2> QED
    BY <1>9, <2>1 DEF SeekInv
<1>14. NamesInv(p)'
  BY <1>0, <1>7, <1>8, <1>12, <1>13 DEF NamesInv, Seeks, Got
<1>15. NewInv(p)'
  BY <1>8 DEF NewInv, Created
<1>16. FileInv(p)'
  BY <1>0, <1>1, <1>7, NoFile
<1> QED
  BY <1>10, <1>11, <1>14, <1>15, <1>16 DEF CallInv

\* and links the inode under it.
LEMMA LinkTargetStays ==
  ASSUME IInv, IInv', TablesInv, NEW p \in Procs, Step(p), proc[p].at = "link_target"
  PROVE  CallInv(p)'
<1> DEFINE f == proc[p]
           g == proc'[p]
<1>0. /\ f \in Process /\ f.stack = <<>> /\ CallAt(f) = f.at /\ f.ip \in SlotOr0 /\ Caller(f).ip = f.ip
      /\ NamesInv(p) /\ OpInv(p) /\ calls' = calls /\ f.at # "user" /\ (file[p].slot = 0 => file[p].num = 0)
  BY TopStep DEF Top
<1>1. link_target(p) /\ At(p, "link_target") /\ file' = file /\ dir' = dir /\ inode' = inode
  BY ActionAt DEF link_target, Continue, fileVars, inodeVars
<1>2. PICK s \in SlotOr0 : s = f.ip
  BY <1>0
<1>3. CASE f.de # 0
  <2>1. Goto(p, Calls(f, "iput_dir", s, "link_drop"))
    BY <1>1, <1>2, <1>3 DEF link_target, Continue
  <2>2. g.at = "iput_dir" /\ CallAt(g) = "link_drop" /\ g.op = f.op /\ g.name = f.name
    BY <1>0, <1>1, <2>1, CallsDown, TopLabels DEF Top
  <2>3. Asked(p)'
    BY <1>0, <2>2, AskedStays DEF Olds
  <2>4. CallAt(proc[p])' = "link_drop"
    BY <2>2, CallNext
  <2>5. OpInv(p)'
    BY <1>0, <2>2, <2>4 DEF OpInv, OpenLabels, LinkLabels
  <2>6. NamesInv(p)' /\ NewInv(p)'
    BY <2>2, PlainCall DEF Founds
  <2>7. FileInv(p)'
    BY <1>0, <1>1, <2>2, NoFile
  <2> QED
    BY <2>3, <2>5, <2>6, <2>7 DEF CallInv
<1>4. CASE f.de = 0
  <2>1. Goto(p, Calls(f, "add_entry", s, "link_added"))
    BY <1>1, <1>2, <1>4 DEF link_target, Continue
  <2>2. g.at = "add_entry" /\ CallAt(g) = "link_added" /\ g.op = f.op /\ g.name = f.name /\ Caller(g).ip = f.ip
    BY <1>0, <1>1, <2>1, CallsDown, TopLabels DEF Top
  <2>3. Asked(p)'
    BY <1>0, <2>2, AskedStays DEF Olds
  <2>4. CallAt(proc[p])' = "link_added" /\ Caller(proc[p])' = Caller(g)
    BY <2>2, CallNext
  <2>5. OpInv(p)'
    BY <1>0, <2>2, <2>4 DEF OpInv, OpenLabels, LinkLabels
  <2>6. f.name \in Mine(calls, p)
    <3>1. f.name \notin Lasting(calls)
      BY <1>0, <1>4 DEF NamesInv
    <3> QED
      BY <1>0, <3>1, UsesName DEF LinkLabels
  <2>7. inode[f.ip].num \in Public(calls) => LinksPublic(calls, p)
    BY <1>0 DEF NamesInv
  <2>8. NamesInv(p)'
    BY <1>0, <1>1, <2>2, <2>4, <2>6, <2>7 DEF NamesInv, Seeks, Got
  <2>9. NewInv(p)'
    BY <2>4 DEF NewInv, Created
  <2>10. FileInv(p)'
    BY <1>0, <1>1, <2>2, NoFile
  <2> QED
    BY <2>3, <2>5, <2>8, <2>9, <2>10 DEF CallInv
<1> QED
  BY <1>3, <1>4

\* the new entry gets the inode,
LEMMA LinkAddedStays ==
  ASSUME IInv, IInv', TablesInv, NEW p \in Procs, Step(p), proc[p].at = "link_added"
  PROVE  CallInv(p)'
<1> DEFINE f == proc[p]
           g == proc'[p]
<1>0. /\ f \in Process /\ f.stack = <<>> /\ CallAt(f) = f.at /\ f.ip \in SlotOr0 /\ Caller(f).ip = f.ip
      /\ NamesInv(p) /\ OpInv(p) /\ calls' = calls /\ f.at # "user" /\ (file[p].slot = 0 => file[p].num = 0)
  BY TopStep DEF Top
<1>1. link_added(p) /\ At(p, "link_added") /\ file' = file /\ inode' = inode
  BY ActionAt DEF link_added, Continue, fileVars, inodeVars
<1>2. PICK s \in SlotOr0 : s = f.ip
  BY <1>0
<1>3. CASE f.de = 0
  <2>1. Goto(p, Calls(f, "iput_dir", s, "link_drop"))
    BY <1>1, <1>2, <1>3 DEF link_added, Continue
  <2>2. g.at = "iput_dir" /\ CallAt(g) = "link_drop" /\ g.op = f.op /\ g.name = f.name
    BY <1>0, <1>1, <2>1, CallsDown, TopLabels DEF Top
  <2>3. Asked(p)'
    BY <1>0, <2>2, AskedStays DEF Olds
  <2>4. CallAt(proc[p])' = "link_drop"
    BY <2>2, CallNext
  <2>5. OpInv(p)'
    BY <1>0, <2>2, <2>4 DEF OpInv, OpenLabels, LinkLabels
  <2>6. NamesInv(p)' /\ NewInv(p)'
    BY <2>2, PlainCall DEF Founds
  <2>7. FileInv(p)'
    BY <1>0, <1>1, <2>2, NoFile
  <2> QED
    BY <2>3, <2>5, <2>6, <2>7 DEF CallInv
<1>4. CASE f.de # 0
  <2>1. Goto(p, Calls(f, "iput_dir", s, "link_count")) /\ dir' = [dir EXCEPT ![f.de].ino = inode[f.ip].num]
    BY <1>1, <1>2, <1>4 DEF link_added
  <2>2. g.at = "iput_dir" /\ CallAt(g) = "link_count" /\ g.op = f.op /\ g.name = f.name /\ g.de = f.de /\ Caller(g).ip = f.ip
    BY <1>0, <1>1, <2>1, CallsDown, TopLabels DEF Top
  <2>3. Asked(p)'
    BY <1>0, <2>2, AskedStays DEF Olds
  <2>4. CallAt(proc[p])' = "link_count" /\ Caller(proc[p])' = Caller(g)
    BY <2>2, CallNext
  <2>5. OpInv(p)'
    BY <1>0, <2>2, <2>4 DEF OpInv, OpenLabels, LinkLabels
  <2>6. f.name \in Mine(calls, p) /\ (inode[f.ip].num \in Public(calls) => LinksPublic(calls, p))
        /\ f.de \in Entries /\ dir[f.de].name = f.name
    BY <1>0, <1>4 DEF NamesInv, Named
  <2>7. dir'[f.de].name = f.name /\ dir'[f.de].ino = inode[f.ip].num
    BY <2>1, <2>6 DEF IInv, Typed
  <2>8. NamesInv(p)'
    BY <1>0, <1>1, <2>2, <2>4, <2>6, <2>7 DEF NamesInv, Named, Seeks, Got
  <2>9. NewInv(p)'
    BY <2>4 DEF NewInv, Created
  <2>10. FileInv(p)'
    BY <1>0, <1>1, <2>2, NoFile
  <2> QED
    BY <2>3, <2>5, <2>8, <2>9, <2>10 DEF CallInv
<1> QED
  BY <1>3, <1>4

\* file_write()
LEMMA WriteStays ==
  ASSUME IInv, IInv', TablesInv, NEW p \in Procs, Step(p), proc[p].at \in {"write_block", "bread", "copy"}
  PROVE  CallInv(p)'
<1> DEFINE f == proc[p]
           g == proc'[p]
<1>0. /\ f \in Process /\ f.stack = <<>> /\ CallAt(f) = f.at /\ Caller(f).ip = f.ip
      /\ OpInv(p) /\ FileInv(p) /\ calls' = calls /\ f.at # "user" /\ (file[p].slot = 0 => file[p].num = 0)
  BY TopStep DEF Top
<1>1. ASSUME NEW b \in {"bread", "copy"}, NEW here, At(p, here), Goto(p, [f EXCEPT !.at = b]), file' = file,
             f.blk # 0, inode'[f.ip].zone = inode[f.ip].zone
      PROVE  CallInv(p)'
  <2>1. PICK h : h = [f EXCEPT !.at = b]
    OBVIOUS
  <2>2. h.at = b /\ h.stack = <<>> /\ h.op = f.op /\ h.name = f.name /\ h.ip = f.ip /\ h.blk = f.blk
    BY <1>0, <2>1 DEF Process
  <2>3. g = h
    <3>1. h.at # "user"
      BY <1>1, <2>2
    <3>2. Goto(p, h)
      BY <1>1, <2>1
    <3> QED
      BY <1>1, <3>1, <3>2, WentTo
  <2>4. Caller(g) = Frame(b, f.ip)
    BY <2>2, <2>3 DEF Caller
  <2>5. CallAt(g) = b
    BY <2>4, FrameIs DEF CallAt
  <2>6. Asked(p)'
    BY <1>0, <1>1, <2>2, <2>3, <2>5, AskedStays DEF Olds
  <2>7. CallAt(proc[p])' = b /\ Caller(proc[p])' = Caller(g)
    BY <2>5, CallNext
  <2>8. f.op = "write"
    BY <1>0 DEF OpInv
  <2>9. OpInv(p)'
    BY <1>1, <2>2, <2>3, <2>7, <2>8 DEF OpInv, OpenLabels, LinkLabels
  <2>10. NamesInv(p)' /\ NewInv(p)'
    BY <1>1, <2>2, <2>3, <2>5, PlainCall DEF Founds
  <2>11. file[p].slot = f.ip /\ f.ip # 0 /\ f.blk = inode[f.ip].zone
    BY <1>0, <1>1 DEF FileInv
  <2>12. FileInv(p)'
    BY <1>0, <1>1, <2>2, <2>3, <2>7, <2>11 DEF FileInv
  <2> QED
    BY <2>6, <2>9, <2>10, <2>12 DEF CallInv
<1>2. CASE f.at = "write_block"
  <2>1. write_block(p) /\ At(p, "write_block")
    BY <1>2, ActionAt DEF write_block
  <2>2. CASE f.blk = 0
    <3>1. Return(p)
      BY <2>1, <2>2 DEF write_block
    <3> QED
      BY <2>1, <3>1, ReturnEnds DEF Top
  <2>3. CASE f.blk # 0
    <3>1. Goto(p, [f EXCEPT !.at = "bread"]) /\ inode' = inode /\ file' = file
      BY <2>1, <2>3 DEF write_block, inodeVars, fileVars
    <3> QED
      BY <1>1, <2>1, <2>3, <3>1
  <2> QED
    BY <2>2, <2>3
<1>3. CASE f.at = "bread"
  <2>1. write_copy(p)
    BY <1>3, ActionAt
  <2>2. PICK grows \in BOOLEAN : inode' = [inode EXCEPT ![f.ip].dirt = @ \/ grows]
    BY <2>1 DEF write_copy
  <2>3. At(p, "bread") /\ Goto(p, [f EXCEPT !.at = "copy"]) /\ file' = file
    BY <2>1 DEF write_copy, fileVars
  <2>4. f.blk # 0 /\ f.ip # 0
    BY <1>0, <1>3 DEF FileInv
  <2>5. f.ip \in Slots /\ inode \in [Slots -> Inode]
    BY <1>0, <2>4, HereIs, SlotsAre DEF Process
  <2>6. inode'[f.ip].zone = inode[f.ip].zone
    BY <2>2, <2>5 DEF Inode
  <2> QED
    BY <1>1, <2>3, <2>4, <2>6
<1>4. CASE f.at = "copy"
  <2>1. At(p, "copy") /\ Return(p)
    BY <1>4, ActionAt DEF write_end
  <2> QED
    BY <2>1, ReturnEnds DEF Top
<1> QED
  BY <1>2, <1>3, <1>4

\* A call begins.
LEMMA EnterStays ==
  ASSUME IInv, IInv', TablesInv, NEW p \in Procs, Step(p), proc[p].at = "user"
  PROVE  CallInv(p)'
<1> DEFINE f == proc[p]
           g == proc'[p]
           s == file[p].slot
<1>0. /\ f \in Process /\ f.stack = <<>> /\ 0 \in SlotOr0 /\ s \in SlotOr0 /\ f.ip = 0
      /\ FileInv(p) /\ calls' = calls /\ (s = 0 => file[p].num = 0) /\ file \in [Procs -> [slot : SlotOr0, num : 0..NInodes]]
  <2>1. f = AtUser /\ f \in Process
    BY HereIs DEF Shape
  <2>2. f.stack = <<>> /\ f.ip = 0
    BY <2>1 DEF AtUser
  <2>3. FileInv(p)
    BY DEF TablesInv
  <2> QED
    BY <2>1, <2>2, <2>3, Moment, SlotsAre DEF IInv, Typed, FileInv
<1>1. PICK c \in calls[p] : Enter(p, c)
  BY ActionAt
<1>2. c.op \in Operation /\ c.name \in Names /\ At(p, "user")
  <2>1. calls \in Workloads
    BY DEF IInv, Typed
  <2>2. c \in SystemCall
    BY <2>1, FilesAssumption
  <2> QED
    BY <1>1, <2>2 DEF SystemCall, Operation, Enter
<1>3. PICK h : h = [f EXCEPT !.op = c.op, !.name = c.name]
  OBVIOUS
<1>4. h \in Process /\ h.stack = <<>> /\ h.op = c.op /\ h.name = c.name /\ h.ip = 0
  BY <1>0, <1>2, <1>3 DEF Process
\* What holds once the call is asked for
<1>5. ASSUME g.at # "user", g.op = c.op, g.name = c.name PROVE Asked(p)'
  BY <1>0, <1>5 DEF Asked
<1>6. ASSUME NEW ret \in Founds, Goto(p, Calls(h, "find_entry", 0, ret)), file' = file,
             ret = "open_found" => c.op \in {"open", "creat", "mknod"},
             ret = "unlink_found" => c.op = "unlink", ret = "link_found" => c.op = "link"
      PROVE  CallInv(p)'
  <2>0. "find_entry" \in Labels /\ ret \in Labels
    BY <1>6, TopLabels DEF Founds, Top
  <2>1. g.at = "find_entry" /\ CallAt(g) = ret /\ g.op = c.op /\ g.name = c.name
    BY <1>0, <1>2, <1>4, <1>6, <2>0, CallsDown
  <2>2. CallAt(proc[p])' = ret
    BY <2>1, CallNext
  <2>3. OpInv(p)'
    BY <1>6, <2>1, <2>2 DEF OpInv, OpenLabels, LinkLabels, Founds
  <2>4. NamesInv(p)' /\ NewInv(p)'
    BY <2>1, PlainCall DEF Founds
  <2>5. FileInv(p)'
    BY <1>0, <1>6, <2>1, NoFile DEF Founds
  <2> QED
    BY <1>5, <2>1, <2>3, <2>4, <2>5 DEF CallInv
<1>7. CASE c.op \in {"open", "creat"} /\ UNCHANGED <<inodeVars, fileVars>> /\ Goto(p, Calls(h, "find_entry", 0, "open_found"))
  BY <1>6, <1>7 DEF Founds, fileVars
<1>8. CASE c.op = "mknod" /\ UNCHANGED <<inodeVars, fileVars>> /\ Goto(p, Calls(h, "find_entry", 0, "open_found"))
  BY <1>6, <1>8 DEF Founds, fileVars
<1>9. CASE c.op = "unlink" /\ UNCHANGED <<inodeVars, fileVars>> /\ Goto(p, Calls(h, "find_entry", 0, "unlink_found"))
  BY <1>6, <1>9 DEF Founds, fileVars
<1>10. CASE c.op = "link" /\ UNCHANGED <<inodeVars, fileVars>> /\ Goto(p, Calls(h, "find_entry", 0, "link_found"))
  BY <1>6, <1>10 DEF Founds, fileVars
<1>11. CASE c.op = "sync" /\ UNCHANGED <<inodeVars, fileVars>> /\ Goto(p, Calls(h, "sync_inodes", 1, "user"))
  <2>0. "sync_inodes" \in Labels /\ "user" \in Labels /\ 1 \in SlotOr0
    BY TopLabels, SlotsAre, InodesAssumption DEF Slots
  <2>1. g.at = "sync_inodes" /\ CallAt(g) = "user" /\ g.op = c.op /\ g.name = c.name
    BY <1>0, <1>2, <1>4, <1>11, <2>0, CallsDown
  <2>2. CallAt(proc[p])' = "user"
    BY <2>1, CallNext
  <2>3. OpInv(p)'
    BY <1>11, <2>1, <2>2 DEF OpInv, OpenLabels, LinkLabels
  <2>4. NamesInv(p)' /\ NewInv(p)'
    BY <2>1, PlainCall DEF Founds
  <2>5. FileInv(p)'
    BY <1>0, <1>11, <2>1, NoFile DEF fileVars
  <2> QED
    BY <1>5, <2>1, <2>3, <2>4, <2>5 DEF CallInv
<1>12. CASE c.op = "write" /\ s # 0 /\ UNCHANGED <<inodeVars, fileVars>>
            /\ Goto(p, Calls([h EXCEPT !.ip = s], "create_block", s, "write_block"))
  <2>0. "create_block" \in Labels /\ "write_block" \in Labels
    BY TopLabels DEF Top
  <2>1. PICK k : k = [h EXCEPT !.ip = s]
    OBVIOUS
  <2>2. k \in Process /\ k.stack = <<>> /\ k.op = c.op /\ k.name = c.name /\ k.ip = s
    BY <1>0, <1>4, <2>1 DEF Process
  <2>3. PICK t \in SlotOr0 : t = s
    BY <1>0
  <2>4. Goto(p, Calls(k, "create_block", t, "write_block"))
    BY <1>12, <2>1, <2>3
  <2>5. g.at = "create_block" /\ CallAt(g) = "write_block" /\ g.op = c.op /\ g.name = c.name /\ g.ip = s /\ Caller(g).ip = s
    <3>1. g.at = "create_block" /\ CallAt(g) = "write_block" /\ g.op = k.op /\ g.name = k.name
      BY <1>0, <1>2, <2>0, <2>2, <2>3, <2>4, CallsDown
    <3>2. g.ip = t /\ Caller(g).ip = k.ip
      BY <1>0, <1>2, <2>0, <2>2, <2>3, <2>4, CallsDown
    <3> QED
      BY <2>2, <2>3, <3>1, <3>2
  <2>6. CallAt(proc[p])' = "write_block" /\ Caller(proc[p])' = Caller(g)
    BY <2>5, CallNext
  <2>7. OpInv(p)'
    BY <1>12, <2>5, <2>6 DEF OpInv, OpenLabels, LinkLabels
  <2>8. NamesInv(p)' /\ NewInv(p)'
    BY <2>5, PlainCall DEF Founds
  <2>9. FileInv(p)'
    BY <1>0, <1>12, <2>5, <2>6 DEF FileInv, fileVars
  <2> QED
    BY <1>5, <2>5, <2>7, <2>8, <2>9 DEF CallInv
<1>13. CASE c.op = "close" /\ s # 0 /\ file' = [file EXCEPT ![p] = Closed] /\ Goto(p, Calls(h, "iput", s, "user"))
  <2>0. "iput" \in Labels /\ "user" \in Labels
    BY TopLabels
  <2>1. PICK t \in SlotOr0 : t = s
    BY <1>0
  <2>2. Goto(p, Calls(h, "iput", t, "user"))
    BY <1>13, <2>1
  <2>3. g.at = "iput" /\ CallAt(g) = "user" /\ g.op = c.op /\ g.name = c.name
    BY <1>0, <1>2, <1>4, <2>0, <2>2, CallsDown
  <2>4. file'[p].num = 0
    BY <1>0, <1>13 DEF Closed
  <2> QED
    BY <1>5, <2>3, <2>4, Leaves
<1>14. \/ c.op \in {"open", "creat"} /\ UNCHANGED <<inodeVars, fileVars>> /\ Goto(p, Calls(h, "find_entry", 0, "open_found"))
       \/ c.op = "mknod" /\ UNCHANGED <<inodeVars, fileVars>> /\ Goto(p, Calls(h, "find_entry", 0, "open_found"))
       \/ c.op = "unlink" /\ UNCHANGED <<inodeVars, fileVars>> /\ Goto(p, Calls(h, "find_entry", 0, "unlink_found"))
       \/ c.op = "link" /\ UNCHANGED <<inodeVars, fileVars>> /\ Goto(p, Calls(h, "find_entry", 0, "link_found"))
       \/ c.op = "sync" /\ UNCHANGED <<inodeVars, fileVars>> /\ Goto(p, Calls(h, "sync_inodes", 1, "user"))
       \/ c.op = "write" /\ s # 0 /\ UNCHANGED <<inodeVars, fileVars>>
            /\ Goto(p, Calls([h EXCEPT !.ip = s], "create_block", s, "write_block"))
       \/ c.op = "close" /\ s # 0 /\ file' = [file EXCEPT ![p] = Closed] /\ Goto(p, Calls(h, "iput", s, "user"))
  BY <1>1, <1>3 DEF Enter
<1> QED
  BY <1>7, <1>8, <1>9, <1>10, <1>11, <1>12, <1>13, <1>14

\* A step of p keeps the facts about p's own call,
LEMMA OwnStays ==
  ASSUME IInv, IInv', TablesInv, NEW p \in Procs, Step(p)
  PROVE  (ProcInv(p) /\ Asked(p) /\ OpInv(p) /\ NamesInv(p) /\ NewInv(p) /\ FileInv(p))'
<1>1. proc[p].at \in Top \cup {"user", "find_entry", "add_entry", "iput_dir"} \cup InodeLabels
  BY Moment, CallLabels
<1>2. CASE proc[p].at \in InodeLabels
  BY <1>2, KernelOwn
<1>3. CASE proc[p].at \in Top \cup {"user", "find_entry", "add_entry", "iput_dir"}
  <2>1. CallInv(p)'
    BY <1>3, FindStays, AddStays, DirPut, OpenFoundStays, IgetStays, OpenGotStays, OpenNewStays, OpenAddedStays,
       OpenNewDoneStays, UnlinkFoundStays, CountedStays, LinkFoundStays, LinkOldStays, LinkTargetStays, LinkAddedStays,
       WriteStays, EnterStays DEF Top
  <2>2. ProcInv(p)'
    BY OwnProcStays
  <2> QED
    BY <2>1, <2>2 DEF CallInv
<1> QED
  BY <1>1, <1>2, <1>3

\* and about everybody's.
LEMMA CallsStay ==
  ASSUME IInv, IInv', TablesInv, NEW p \in Procs, Step(p)
  PROVE  \A q \in Procs : (ProcInv(q) /\ Asked(q) /\ OpInv(q) /\ NamesInv(q) /\ NewInv(q) /\ FileInv(q))'
<1> TAKE q \in Procs
<1>1. CASE q = p
  <2>1. Step(q)
    BY <1>1
  <2> QED
    BY <2>1, OwnStays
<1>2. CASE q # p
  BY <1>2, OthersStay
<1> QED
  BY <1>1, <1>2

(* The directory and the map of inodes *)

\* How the map of inodes changes
MapDrops(p) ==
  LET s == proc[p].ip IN
  /\ proc[p].at = "free_inode" /\ s \in Slots /\ Discards(p, s) /\ inode[s].num \in Numbers
  /\ imap' = imap \ {inode[s].num} /\ inode' = [inode EXCEPT ![s] = ZeroInode]
MapAdds(p) ==
  LET s == proc[p].ip IN
  /\ proc[p].at = "new_inode" /\ s \in Slots /\ Allocates(p, s) /\ inode'[s].num \in Numbers \ imap
  /\ imap' = imap \cup {inode'[s].num} /\ \A t \in Slots \ {s} : inode'[t] = inode[t]

\* The map of inodes changes in free_inode() and new_inode() only.
LEMMA MapMoves ==
  ASSUME IInv, IInv', TablesInv, NEW p \in Procs, Step(p)
  PROVE  \/ imap' = imap /\ (\A s \in Slots : ~Discards(p, s) /\ ~Allocates(p, s))
         \/ MapDrops(p) \/ MapAdds(p)
<1> DEFINE s == proc[p].ip
<1>0. /\ ProcInv(p) /\ inode \in [Slots -> Inode] /\ inode' \in [Slots -> Inode] /\ imap \subseteq Numbers
      /\ proc[p].at \in HasSlot => s \in Slots
  BY Moment, HereIs DEF TablesInv, Typed
<1>1. CASE proc[p].at = "free_inode"
  <2>1. free_inode(p) /\ s \in Slots
    BY <1>0, <1>1, ActionAt DEF HasSlot, Counted
  <2>2. inode[s].nlinks = 0 /\ inode[s].count = 1 /\ inode[s].num # 0
    BY <1>0, <1>1 DEF ProcInv, Frees
  <2>3. imap' = imap \ {inode[s].num} /\ inode' = [inode EXCEPT ![s] = ZeroInode]
    BY <2>1, <2>2 DEF free_inode
  <2>4. inode[s].num \in Numbers
    BY <1>0, <2>1, <2>2 DEF Inode, Numbers
  <2>5. Discards(p, s)
    BY <1>0, <1>1, <2>1, <2>3 DEF Discards
  <2> QED
    BY <1>1, <2>1, <2>3, <2>4, <2>5 DEF MapDrops
<1>2. CASE proc[p].at = "new_inode"
  <2>1. new_inode(p) /\ s \in Slots
    BY <1>0, <1>2, ActionAt DEF HasSlot, Counted
  <2>2. CASE Numbers \ imap = {}
    <3>1. imap' = imap /\ inode' = inode
      BY <2>1, <2>2 DEF new_inode
    <3>2. \A t \in Slots : ~Discards(p, t)
      BY <1>2 DEF Discards
    <3>3. \A t \in Slots : ~Allocates(p, t)
      BY <2>2 DEF Allocates
    <3> QED
      BY <3>1, <3>2, <3>3
  <2>3. CASE Numbers \ imap # {}
    <3> DEFINE n == Min(Numbers \ imap)
    <3>1. n \in Numbers \ imap
      <4>1. IsFiniteSet(Numbers \ imap) /\ (Numbers \ imap) \in SUBSET Nat
        BY FS_Interval, FS_Subset, InodesAssumption DEF Numbers
      <4> QED
        BY <2>3, <4>1, MinIn
    <3>2. /\ imap' = imap \cup {n}
          /\ inode' = [inode EXCEPT ![s].count = 1, ![s].nlinks = 1, ![s].dirt = TRUE, ![s].num = n]
      BY <2>1, <2>3 DEF new_inode
    <3>3. inode'[s] = [inode[s] EXCEPT !.count = 1, !.nlinks = 1, !.dirt = TRUE, !.num = n]
      BY <1>0, <2>1, <3>2
    <3>4. Allocates(p, s) /\ inode'[s].num = n
      <4>1. inode'[s].num = n
        BY <1>0, <2>1, <3>3 DEF Inode
      <4> HIDE DEF n
      <4> QED
        BY <1>2, <3>1, <3>3, <4>1 DEF Allocates
    <3>5. \A t \in Slots \ {s} : inode'[t] = inode[t]
      BY <1>0, <3>2
    <3> QED
      BY <1>2, <2>1, <3>1, <3>2, <3>4, <3>5 DEF MapAdds
  <2> QED
    BY <2>2, <2>3
<1>3. CASE proc[p].at \notin {"free_inode", "new_inode"}
  <2>1. \A t \in Slots : ~Discards(p, t) /\ ~Allocates(p, t)
    BY <1>3 DEF Discards, Allocates
  <2>2. CASE proc[p].at \in InodeLabels
    <3>1. InodeStep(p) /\ ~free_inode(p) /\ ~new_inode(p)
      BY <1>3, <2>2, ActionAt, InodeLabel
    <3> QED
      BY <2>1, <3>1 DEF InodeStep, inodeVars, get_empty_inode, get_empty_inode_loop, iget_search, iget_found, read_inode,
         read_inode_end, write_inode, write_inode_end, iput, iput_repeat, sync_inodes, truncate, free_block,
         create_block, create_block_end
  <2>3. CASE proc[p].at \notin InodeLabels
    <3>1. ~InodeStep(p)
      BY <2>3, ActionAt
    <3> QED
      BY <2>1, <3>1 DEF Step, InKernel, find_entry, add_entry, iput_dir, open_found, open_inode, open_got, open_new,
         open_added, open_new_done, unlink_found, unlink_got, link_found, link_inode, link_old, link_target, link_added,
         link_count, link_drop, write_block, write_copy, write_end, Enter, Return, Continue, Opened, inodeVars
  <2> QED
    BY <2>2, <2>3
<1> QED
  BY <1>1, <1>2, <1>3

\* Every entry has an inode that is in use.
LEMMA DirStays ==
  ASSUME IInv, IInv', TablesInv, NEW p \in Procs, Step(p)
  PROVE  DirInv'
<1>1. calls' = calls /\ DirInv
  BY Moment DEF TablesInv
<1> SUFFICES ASSUME NEW e \in Entries
    PROVE  /\ dir'[e].name \in Names
           /\ dir'[e].ino # 0 => /\ dir'[e].ino \in imap'
                                 /\ dir'[e].name \in Lasting(calls) \/ \E q \in Procs : dir'[e].name \in Mine(calls, q)
           /\ dir'[e].ino # 0 /\ dir'[e].name \in Lasting(calls) => dir'[e].ino \in Public(calls)
           /\ InitialDir[e].name \in Lasting(calls) /\ InitialDir[e].ino # 0 => dir'[e] = InitialDir[e]
  <2>1. Lasting(calls)' = Lasting(calls)
    BY <1>1 DEF Lasting
  <2>2. \A q \in Procs : Mine(calls, q)' = Mine(calls, q)
    BY <1>1 DEF Mine, Lasting, Uses
  <2>3. Public(calls)' = Public(calls)
    BY <1>1 DEF Public, Lasting
  <2> QED
    BY <1>1, <2>1, <2>2, <2>3 DEF DirInv
<1>2. CASE dir'[e] = dir[e]
  <2>1. ASSUME dir[e].ino # 0 PROVE dir[e].ino \in imap'
    <3>1. dir[e].ino \in imap
      BY <1>1, <2>1 DEF DirInv
    <3>2. CASE MapDrops(p)
      <4>1. Frees(proc[p])
        BY <3>2 DEF MapDrops, Frees
      <4> QED
        BY <3>1, <3>2, <4>1, FreedHasNoName DEF MapDrops
    <3> QED
      BY <3>1, <3>2, MapMoves DEF MapAdds
  <2> QED
    BY <1>1, <1>2, <2>1 DEF DirInv
<1>3. CASE dir'[e] # dir[e]
  <2>1. /\ dir[e].ino = 0 \/ dir[e].name \in Mine(calls, p)
        /\ dir'[e].name \in Mine(calls, p) /\ dir'[e].name \in Names
        /\ dir'[e].ino # 0 => LinksEntry(p, e) /\ dir'[e].ino = inode[proc[p].ip].num
    BY <1>3, OwnEntries
  <2>2. \A m : m \in Mine(calls, p) => m \notin Lasting(calls)
    BY DEF Mine
  <2>3. ASSUME dir'[e].ino # 0 PROVE dir'[e].ino \in imap'
    <3>1. proc[p].at \in {"open_added", "link_added"} /\ dir'[e].ino = inode[proc[p].ip].num
      BY <2>1, <2>3 DEF LinksEntry
    <3>2. proc[p].ip \in Slots
      BY <3>1, HereIs DEF HasSlot, Counted
    <3>3. inode[proc[p].ip].num \in imap
      BY <2>3, <3>1, <3>2 DEF TablesInv, MarkedInUse
    <3>4. imap' = imap
      BY <3>1, MapMoves DEF MapDrops, MapAdds
    <3> QED
      BY <3>1, <3>3, <3>4
  <2>4. ~(InitialDir[e].name \in Lasting(calls) /\ InitialDir[e].ino # 0)
    BY <1>1, <2>1, <2>2 DEF DirInv
  <2> QED
    BY <2>1, <2>2, <2>3, <2>4
<1> QED
  BY <1>2, <1>3

\* Inodes in memory stay marked.
LEMMA MarkedStays ==
  ASSUME IInv, IInv', TablesInv, NEW p \in Procs, Step(p)
  PROVE  MarkedInUse'
<1>0. MarkedInUse /\ UniqueInode /\ Sheet(p)
  BY Moment DEF TablesInv
<1> SUFFICES ASSUME NEW s \in Slots, inode'[s].num # 0
    PROVE  inode'[s].num \in imap'
  BY DEF MarkedInUse
<1>1. CASE inode'[s].num = inode[s].num
  <2>1. inode[s].num \in imap
    BY <1>0, <1>1 DEF MarkedInUse
  <2>2. CASE MapDrops(p)
    <3>1. s # proc[p].ip
      BY <2>2 DEF MapDrops, Discards, ZeroInode
    <3>2. inode[s].num # inode[proc[p].ip].num
      BY <1>0, <1>1, <2>2, <3>1 DEF MapDrops, UniqueInode
    <3> QED
      BY <1>1, <2>1, <2>2, <3>2 DEF MapDrops
  <2> QED
    BY <1>1, <2>1, <2>2, MapMoves DEF MapAdds
<1>2. CASE inode'[s].num # inode[s].num
  <2>1. GivesNumber(p, s) \/ Allocates(p, s)
    <3>1. Change(p, s)
      BY <1>0 DEF Sheet
    <3>2. ~Clears(p, s) /\ ~Discards(p, s)
      BY DEF Clears, Discards, ZeroInode
    <3> QED
      BY <1>2, <3>1, <3>2, NumberMoves
  <2>2. CASE Allocates(p, s)
    BY <2>2, MapMoves DEF MapAdds, MapDrops, Allocates
  <2>3. CASE GivesNumber(p, s)
    <3> DEFINE f == proc[p]
    <3>1. f.at = "iget_search" /\ inode'[s].num = f.nr
      <4>1. inode \in [Slots -> Inode]
        BY HereIs
      <4> QED
        BY <2>3, <4>1 DEF GivesNumber, Inode
    <3>2. f.stack # <<>> /\ CallAt(f) \in Got
      BY <3>1, HereIs, HeadsAre DEF Searches, Top
    <3>3. NamesInode(p, f.nr) \/ f.nr \in Public(calls)
      BY <3>2 DEF TablesInv, NamesInv, Seeks, SeekInv
    <3>4. f.nr \in imap
      BY <3>3, <3>1, PublicLinked DEF TablesInv, DirInv, NamesInode
    <3>5. imap' = imap
      BY <3>1, MapMoves DEF MapDrops, MapAdds
    <3> QED
      BY <3>1, <3>4, <3>5
  <2> QED
    BY <2>1, <2>2, <2>3
<1> QED
  BY <1>1, <1>2

(* The number of links *)

\* What a system call goes on with
GoesOnTo == {"user", "iput_dir", "iput", "truncate", "add_entry", "find_entry", "get_empty_inode", "bread", "copy",
             "sync_inodes", "create_block"}

\* A system call goes on with these.
LEMMA TopGoes ==
  ASSUME IInv, IInv', TablesInv, NEW p \in Procs, Step(p), proc[p].at \in Top \cup {"user"}
  PROVE  /\ proc'[p].at \in GoesOnTo
         /\ proc'[p].at = "iput_dir" /\ proc[p].at # "link_added" => CallAt(proc'[p]) # "link_count"
<1> DEFINE f == proc[p]
           g == proc'[p]
           label == f.at
<1>0. f \in Process /\ f.stack = <<>> /\ AtUser.at = "user"
  BY HereIs, CallLabels
<1>1. \A b, s, ret : \A h \in Process : Calls(h, b, s, ret).at = b
  BY CallLabel
<1>2. \A n, ret : Iget(f, n, ret).at = "get_empty_inode"
  BY <1>0, IgetLabel
<1>3. ASSUME NEW a, At(p, a), NEW h, Goto(p, h)
      PROVE  g.at = h.at
  BY <1>3, WentTo
<1>4. ASSUME NEW h \in Process, h.stack = <<>>, NEW s \in SlotOr0, NEW ret \in Top, ret # "link_count",
             At(p, label), Goto(p, Calls(h, "iput_dir", s, ret))
      PROVE  g.at = "iput_dir" /\ CallAt(g) # "link_count"
  BY <1>4, CallsDown, TopLabels
<1>5. 0 \in SlotOr0 /\ f.ip \in SlotOr0
  BY <1>0, SlotsAre DEF Process
<1>6. \A e \in Entries : [f EXCEPT !.nr = dir[e].ino] \in Process /\ [f EXCEPT !.nr = dir[e].ino].stack = <<>>
  <2> TAKE e \in Entries
  <2>1. dir[e].ino \in 0..NInodes
    BY DirMoves
  <2> QED
    BY <1>0, <2>1 DEF Process
<1>7. ASSUME f.de # 0 PROVE f.de \in Entries
  BY <1>0, <1>7, FilesAssumption DEF Process, Entries
<1>8. CASE label \in {"open_found", "link_found"}
  <2>1. /\ At(p, label)
        /\ \/ Goto(p, AtUser) \/ Goto(p, [f EXCEPT !.at = "get_empty_inode", !.stack = <<Frame("new_inode", 0), Frame("open_new", 0)>>])
           \/ f.de # 0 /\ \E ret \in {"open_inode", "link_inode"} : Goto(p, Calls([f EXCEPT !.nr = dir[f.de].ino], "iput_dir", 0, ret))
    BY <1>8, ActionAt DEF open_found, link_found, Return
  <2>2. [f EXCEPT !.at = "get_empty_inode", !.stack = <<Frame("new_inode", 0), Frame("open_new", 0)>>].at = "get_empty_inode"
    BY <1>0 DEF Process
  <2>3. CASE Goto(p, AtUser)
    BY <1>0, <1>3, <2>1, <2>3 DEF GoesOnTo
  <2>4. CASE Goto(p, [f EXCEPT !.at = "get_empty_inode", !.stack = <<Frame("new_inode", 0), Frame("open_new", 0)>>])
    BY <1>3, <2>1, <2>2, <2>4 DEF GoesOnTo
  <2>5. ASSUME f.de # 0, NEW ret \in {"open_inode", "link_inode"}, Goto(p, Calls([f EXCEPT !.nr = dir[f.de].ino], "iput_dir", 0, ret))
        PROVE  g.at = "iput_dir" /\ CallAt(g) # "link_count"
    BY <1>4, <1>5, <1>6, <1>7, <2>1, <2>5 DEF Top
  <2> QED
    BY <2>1, <2>3, <2>4, <2>5 DEF GoesOnTo
<1>9. CASE label = "open_added"
  <2> DEFINE h == [f EXCEPT !.nr = inode[f.ip].num]
  <2>1. At(p, label) /\ (Goto(p, Calls(f, "iput", f.ip, "user")) \/ Goto(p, Calls(h, "iput_dir", 0, "open_new_done")))
    BY <1>9, ActionAt DEF open_added
  <2>2. h \in Process /\ h.stack = <<>>
    <3>1. f.ip \in Slots
      BY <1>9, HereIs DEF HasSlot, Counted
    <3>2. inode[f.ip].num \in 0..NInodes
      BY <3>1 DEF IInv, Typed, Inode
    <3> QED
      BY <1>0, <3>2 DEF Process
  <2> HIDE DEF h
  <2>3. CASE Goto(p, Calls(f, "iput", f.ip, "user"))
    BY <1>0, <1>1, <1>3, <2>1, <2>3 DEF GoesOnTo
  <2>4. CASE Goto(p, Calls(h, "iput_dir", 0, "open_new_done"))
    BY <1>4, <1>5, <2>1, <2>2, <2>4 DEF GoesOnTo, Top
  <2> QED
    BY <2>1, <2>3, <2>4
<1>10. CASE label = "link_target"
  <2>1. At(p, label) /\ (Goto(p, Calls(f, "iput_dir", f.ip, "link_drop")) \/ Goto(p, Calls(f, "add_entry", f.ip, "link_added")))
    BY <1>10, ActionAt DEF link_target, Continue
  <2>2. CASE Goto(p, Calls(f, "iput_dir", f.ip, "link_drop"))
    BY <1>0, <1>4, <1>5, <2>1, <2>2 DEF GoesOnTo, Top
  <2>3. CASE Goto(p, Calls(f, "add_entry", f.ip, "link_added"))
    BY <1>0, <1>1, <1>3, <2>1, <2>3 DEF GoesOnTo
  <2> QED
    BY <2>1, <2>2, <2>3
<1>11. CASE label = "link_added"
  <2>1. At(p, label) /\ \E ret : Goto(p, Calls(f, "iput_dir", f.ip, ret))
    BY <1>11, ActionAt DEF link_added, Continue
  <2> QED
    BY <1>0, <1>1, <1>3, <1>11, <2>1 DEF GoesOnTo
<1>12. CASE label \in {"open_inode", "link_inode", "unlink_found"}
  <2>1. At(p, label) /\ (Goto(p, AtUser) \/ \E n, ret : Goto(p, Iget(f, n, ret)))
    BY <1>12, ActionAt DEF open_inode, link_inode, unlink_found, Return
  <2> QED
    BY <1>0, <1>2, <1>3, <2>1 DEF GoesOnTo
<1>13. CASE label \in {"open_got", "open_done", "open_new", "open_new_done", "unlink_got", "link_count", "link_drop"}
  <2>1. /\ At(p, label)
        /\ \/ Goto(p, AtUser) \/ Goto(p, Calls(f, "truncate", f.ip, "open_done"))
           \/ Goto(p, Calls(f, "add_entry", f.ip, "open_added")) \/ Goto(p, Calls(f, "iput", f.ip, "user"))
    <3>1. CASE label \in {"open_got", "open_done"}
      <4>1. open_got(p)
        BY <3>1, ActionAt
      <4>2. At(p, "open_got") \/ At(p, "open_done")
        BY <4>1 DEF open_got
      <4>3. Goto(p, AtUser) \/ Goto(p, Calls(f, "truncate", f.ip, "open_done"))
        BY <4>1, Zenon DEF open_got, Opened, Continue
      <4> QED
        BY <4>2, <4>3 DEF At
    <3>2. CASE label = "open_new"
      BY <3>2, ActionAt DEF open_new, Return, Continue
    <3>3. CASE label = "open_new_done"
      BY <3>3, ActionAt DEF open_new_done, Opened, Continue
    <3>4. CASE label \in {"unlink_got", "link_count", "link_drop"}
      BY <3>4, ActionAt DEF unlink_got, link_count, link_drop, Continue
    <3> QED
      BY <1>13, <3>1, <3>2, <3>3, <3>4
  <2> QED
    BY <1>0, <1>1, <1>3, <2>1 DEF GoesOnTo
<1>14. CASE label = "link_old"
  <2>1. PICK c \in calls[p] : At(p, label) /\ Goto(p, Calls([f EXCEPT !.name = c.to], "find_entry", f.ip, "link_target"))
    BY <1>14, ActionAt DEF link_old
  <2>2. [f EXCEPT !.name = c.to] \in Process
    <3>1. c \in SystemCall
      BY FilesAssumption DEF IInv, Typed
    <3>2. c.to \in Names
      BY <3>1 DEF SystemCall
    <3> QED
      BY <1>0, <3>2 DEF Process
  <2> QED
    BY <1>1, <1>3, <2>1, <2>2 DEF GoesOnTo
<1>15. CASE label \in {"write_block", "bread", "copy"}
  <2>1. At(p, label) /\ (Goto(p, AtUser) \/ \E b \in {"bread", "copy"} : Goto(p, [f EXCEPT !.at = b]))
    BY <1>15, ActionAt DEF write_block, write_copy, write_end, Return
  <2>2. \A b : [f EXCEPT !.at = b].at = b
    BY <1>0 DEF Process
  <2> QED
    BY <1>0, <1>3, <2>1, <2>2 DEF GoesOnTo
<1>16. CASE label = "user"
  <2>1. PICK c \in calls[p] : Enter(p, c)
    BY <1>16, ActionAt
  <2>2. PICK h : h = [f EXCEPT !.op = c.op, !.name = c.name]
    OBVIOUS
  <2>3. h \in Process
    <3>1. c \in SystemCall
      BY FilesAssumption DEF IInv, Typed
    <3>2. c.name \in Names /\ c.op \in Operation
      BY <3>1 DEF SystemCall, Operation
    <3> QED
      BY <1>0, <2>2, <3>2 DEF Process
  <2>4. PICK k : k = [h EXCEPT !.ip = file[p].slot]
    OBVIOUS
  <2>5. k \in Process
    BY <2>3, <2>4 DEF IInv, Typed, Process
  <2>6. At(p, "user") /\ \E j \in {h, k}, b \in {"find_entry", "sync_inodes", "create_block", "iput"} : \E s, ret : Goto(p, Calls(j, b, s, ret))
    BY <2>1, <2>2, <2>4 DEF Enter
  <2> QED
    BY <1>1, <1>3, <2>3, <2>5, <2>6 DEF GoesOnTo
<1> QED
  BY <1>8, <1>9, <1>10, <1>11, <1>12, <1>13, <1>14, <1>15, <1>16 DEF Top

\* A block is asked for by create_block() only.
LEMMA BlockComesFrom ==
  ASSUME IInv, IInv', TablesInv, NEW p \in Procs, Step(p), proc'[p].at = "getblk"
  PROVE  proc[p].at = "create_block"
<1> DEFINE f == proc[p]
           g == proc'[p]
<1>0. f \in Process /\ StackFits(f) /\ g \in Process /\ StackFits(g)
  BY Moment
<1>1. CallAt(g) = "write_block"
  BY <1>0, HeadsAre DEF Top
<1>2. f.at \in InodeLabels
  <2>1. f.at \notin Top \cup {"user"}
    BY TopGoes DEF GoesOnTo
  <2>2. f.at \notin {"find_entry", "add_entry", "iput_dir"}
    BY <1>1, ReturnsUp
  <2> QED
    BY <1>0, <2>1, <2>2, CallLabels
<1>3. CallAt(f) = "write_block"
  BY <1>1, <1>2, KernelStep
<1>4. f.at \in {"create_block", "getblk"}
  BY <1>0, <1>2, <1>3, CallLabels DEF InodeLabels
<1>5. f.at # "getblk"
  <2> SUFFICES ASSUME f.at = "getblk" PROVE FALSE
    OBVIOUS
  <2>1. At(p, "getblk") /\ Goto(p, Returns(f))
    BY ActionAt DEF create_block_end
  <2>2. Returns(f).at = "write_block"
    BY <1>0, HeadsAre DEF Returns, Process
  <2> QED
    BY <2>1, <2>2, WentTo
<1> QED
  BY <1>4, <1>5

\* Entries come and go as pending when sys_link() names them and counts them.
LEMMA PendingMoves ==
  ASSUME IInv, IInv', TablesInv, NEW p \in Procs, Step(p)
  PROVE  LET f == proc[p] g == proc'[p] IN
         /\ \/ CallAt(g) = CallAt(f) /\ CallAt(f) = "link_count" /\ g.de = f.de
            \/ CallAt(g) # "link_count" /\ CallAt(f) # "link_count"
            \/ f.at = "link_count"
            \/ f.at = "link_added" /\ f.de # 0 /\ g.de = f.de /\ CallAt(g) = "link_count"
         /\ f.at = "link_count" => CallAt(g) # "link_count" /\ CallAt(f) = "link_count"
         /\ f.at = "link_added" /\ f.de # 0 => CallAt(g) = "link_count"
<1> DEFINE f == proc[p]
           g == proc'[p]
<1>0. f \in Process /\ StackFits(f) /\ g \in Process /\ StackFits(g)
  BY Moment
<1>1. CASE f.at \in InodeLabels
  BY <1>0, <1>1, KernelStep DEF Got, InodeLabels
<1>2. CASE f.at \in {"find_entry", "add_entry", "iput_dir"}
  BY <1>0, <1>2, ReturnsUp, CallLabels
<1>3. CASE f.at \in Top \cup {"user"}
  <2>1. CallAt(f) = f.at /\ f.stack = <<>>
    BY <1>0, <1>3, CallLabels
  <2>2. CallAt(g) = "link_count" => g.at = "iput_dir"
    <3>1. g.at \in GoesOnTo
      BY <1>3, TopGoes
    <3>2. g.at \in InodeLabels => CallAt(g) # "link_count"
      BY <1>0, CallLabels DEF Got
    <3>3. g.at \in {"user", "bread", "copy"} => CallAt(g) = g.at
      BY <1>0, CallLabels DEF Top
    <3>4. g.at \in {"find_entry", "add_entry"} => CallAt(g) # "link_count"
      BY <1>0, CallLabels
    <3> QED
      BY <3>1, <3>2, <3>3, <3>4 DEF GoesOnTo, InodeLabels
  <2>3. CallAt(g) = "link_count" => f.at = "link_added"
    BY <1>3, <2>2, TopGoes
  <2>4. ASSUME f.at = "link_added"
        PROVE  IF f.de = 0 THEN CallAt(g) # "link_count" ELSE g.de = f.de /\ CallAt(g) = "link_count"
    <3>1. link_added(p) /\ At(p, "link_added") /\ f.ip \in SlotOr0
      BY <1>0, <2>4, ActionAt DEF link_added, Process
    <3>2. CASE f.de = 0
      <4>1. Goto(p, Calls(f, "iput_dir", f.ip, "link_drop"))
        BY <3>1, <3>2 DEF link_added, Continue
      <4>2. CallAt(g) = "link_drop"
        BY <1>0, <2>1, <3>1, <4>1, CallsDown, TopLabels DEF Top
      <4> QED
        BY <3>2, <4>2
    <3>3. CASE f.de # 0
      <4>1. Goto(p, Calls(f, "iput_dir", f.ip, "link_count"))
        BY <3>1, <3>3 DEF link_added
      <4> QED
        BY <1>0, <2>1, <3>1, <3>3, <4>1, CallsDown, TopLabels DEF Top
    <3> QED
      BY <3>2, <3>3
  <2> QED
    BY <2>1, <2>3, <2>4
<1> QED
  BY <1>0, <1>1, <1>2, <1>3, CallLabels

\* An entry pends for another than p.
PendsElse(p, e) == \E q \in Procs \ {p} : CallAt(proc[q]) = "link_count" /\ proc[q].de = e

\* An entry pends for p or for another.
LEMMA PendingSplits ==
  ASSUME NEW p \in Procs, \A q \in Procs \ {p} : proc'[q] = proc[q], NEW e
  PROVE  /\ Pending(e) <=> PendsElse(p, e) \/ (CallAt(proc[p]) = "link_count" /\ proc[p].de = e)
         /\ Pending(e)' <=> PendsElse(p, e) \/ (CallAt(proc'[p]) = "link_count" /\ proc'[p].de = e)
<1>1. \A q : CallAt(proc[q])' = CallAt(proc'[q])
  BY CallNext
<1> QED
  BY <1>1 DEF Pending, PendsElse

\* Where the name is p's own, or there is no inode, nobody else's entry is pending.
LEMMA NobodyPends ==
  ASSUME IInv, TablesInv, NEW p \in Procs, NEW e, dir[e].name \in Mine(calls, p) \/ dir[e].ino = 0
  PROVE  ~PendsElse(p, e)
<1> SUFFICES ASSUME NEW q \in Procs \ {p}, CallAt(proc[q]) = "link_count", proc[q].de = e
    PROVE FALSE
  BY DEF PendsElse
<1>1. dir[e].name \in Mine(calls, q) /\ dir[e].ino = inode[Caller(proc[q]).ip].num
  BY PendingIs
<1>2. dir[e].ino # 0
  BY <1>1, LinkerHolds
<1> QED
  BY <1>1, <1>2 DEF TablesInv, RaceFree

\* An entry comes or goes for the inode that p links or unlinks.
LEMMA LinksMove ==
  ASSUME IInv, IInv', TablesInv, NEW p \in Procs, Step(p), NEW n \in Numbers
  PROVE  LET f == proc[p] links == f.at \in {"open_added", "link_count"} /\ f.de # 0 IN
         /\ ~(links \/ f.at = "unlink_got") \/ n # inode[f.ip].num => LinksOf(n)' = LinksOf(n)
         /\ links /\ n = inode[f.ip].num => LinksOf(n)' = LinksOf(n) \cup {f.de} /\ f.de \in Entries \ LinksOf(n)
         /\ f.at = "unlink_got" /\ n = inode[f.ip].num => LinksOf(n)' = LinksOf(n) \ {f.de} /\ f.de \in LinksOf(n)
<1> DEFINE f == proc[p]
           g == proc'[p]
           links == f.at \in {"open_added", "link_count"} /\ f.de # 0
<1>0. /\ f \in Process /\ StackFits(f) /\ (\A q \in Procs \ {p} : proc'[q] = proc[q]) /\ n # 0 /\ 0 \notin Entries
      /\ NamesInv(p) /\ Holding(f) /\ dir \in [Entries -> [name : Names \cup {0}, ino : 0..NInodes]]
  <2>1. n # 0 /\ 0 \notin Entries
    BY InodesAssumption, FilesAssumption DEF Numbers, Entries
  <2>2. dir \in [Entries -> [name : Names \cup {0}, ino : 0..NInodes]]
    BY DEF IInv, Typed
  <2> QED
    BY <2>1, <2>2, Moment DEF TablesInv, IInv, Held
<1>1. \A e : /\ Pending(e) <=> PendsElse(p, e) \/ (CallAt(f) = "link_count" /\ f.de = e)
             /\ Pending(e)' <=> PendsElse(p, e) \/ (CallAt(g) = "link_count" /\ g.de = e)
  BY <1>0, PendingSplits
<1>2. /\ LinksOf(n) = {e \in Entries : dir[e].ino = n /\ ~Pending(e)}
      /\ LinksOf(n)' = {e \in Entries : dir'[e].ino = n /\ ~Pending(e)'}
  BY DEF LinksOf
<1>3. ASSUME ~(links \/ f.at = "unlink_got") \/ n # inode[f.ip].num, NEW e \in Entries
      PROVE  (dir'[e].ino = n /\ ~Pending(e)') <=> (dir[e].ino = n /\ ~Pending(e))
  <2>1. CASE f.at = "link_added" /\ f.de # 0
    <3>1. CallAt(g) = "link_count" /\ g.de = f.de /\ CallAt(f) # "link_count"
      <4>1. CallAt(f) = f.at
        BY <1>0, <2>1, CallLabels DEF Top
      <4> QED
        BY <2>1, <4>1, PendingMoves
    <3>2. f.de \in Entries /\ dir[f.de].ino = 0
      BY <1>0, <2>1 DEF NamesInv, Named
    <3>3. e = f.de \/ dir'[e] = dir[e]
      BY <2>1, DirMoves DEF NamesEntry, LinksEntry, UnlinksEntry
    <3> QED
      BY <1>0, <1>1, <3>1, <3>2, <3>3
  <2>2. CASE f.at = "link_count"
    <3>1. CallAt(f) = "link_count" /\ CallAt(g) # "link_count" /\ dir' = dir
      BY <2>2, PendingMoves, ActionAt DEF link_count, fileVars
    <3>2. dir[f.de].ino = inode[f.ip].num /\ f.de \in Entries
      <4>1. Caller(f).ip = f.ip
        BY <1>0, <2>2, CallLabels DEF Top
      <4> QED
        BY <1>0, <3>1, <4>1 DEF NamesInv, Named
    <3>3. n # inode[f.ip].num
      BY <1>0, <1>3, <2>2, <3>2
    <3> QED
      BY <1>1, <3>1, <3>2, <3>3
  <2>3. CASE ~(f.at = "link_added" /\ f.de # 0) /\ f.at # "link_count"
    <3>1. Pending(e)' <=> Pending(e)
      BY <1>1, <2>3, PendingMoves
    <3>2. dir'[e].ino = n <=> dir[e].ino = n
      <4>1. CASE dir'[e] = dir[e]
        BY <4>1
      <4>2. CASE NamesEntry(p, e)
        BY <1>0, <4>2 DEF NamesEntry
      <4>3. CASE LinksEntry(p, e)
        <5>1. f.at = "open_added" /\ e = f.de /\ f.de # 0 /\ dir[e].ino = 0 /\ dir'[e].ino = inode[f.ip].num
          BY <1>0, <2>3, <4>3 DEF LinksEntry
        <5> QED
          BY <1>0, <1>3, <5>1
      <4>4. CASE UnlinksEntry(p, e)
        <5>1. f.at = "unlink_got" /\ e = f.de /\ dir'[e].ino = 0
          BY <1>0, <4>4 DEF UnlinksEntry
        <5>2. dir[e].ino = f.nr
          <6>1. CallAt(f) = "unlink_got"
            BY <1>0, <5>1, CallLabels DEF Top
          <6> QED
            BY <1>0, <5>1, <6>1 DEF NamesInv
        <5>3. inode[f.ip].num = f.nr
          BY <1>0, <5>1 DEF Holding, Kept
        <5> QED
          BY <1>0, <1>3, <5>1, <5>2, <5>3
      <4> QED
        BY <4>1, <4>2, <4>3, <4>4, DirMoves
    <3> QED
      BY <3>1, <3>2
  <2> QED
    BY <2>1, <2>2, <2>3
<1>4. ASSUME f.at = "open_added", f.de # 0, n = inode[f.ip].num
      PROVE  LinksOf(n)' = LinksOf(n) \cup {f.de} /\ f.de \in Entries \ LinksOf(n)
  <2>1. CallAt(f) = f.at
    BY <1>0, <1>4, CallLabels DEF Top
  <2>2. f.de \in Entries /\ dir[f.de].ino = 0
    BY <1>0, <1>4 DEF NamesInv, Named
  <2>3. dir' = [dir EXCEPT ![f.de].ino = n]
    BY <1>4, ActionAt DEF open_added
  <2>4. dir'[f.de].ino = n /\ \A e \in Entries \ {f.de} : dir'[e] = dir[e]
    BY <1>0, <2>2, <2>3
  <2>5. \A e : Pending(e)' <=> Pending(e)
    BY <1>1, <1>4, <2>1, PendingMoves
  <2>6. ~Pending(f.de)
    BY <1>1, <1>4, <2>1, <2>2, NobodyPends
  <2> QED
    BY <1>0, <1>2, <2>2, <2>4, <2>5, <2>6
<1>5. ASSUME f.at = "link_count", n = inode[f.ip].num
      PROVE  LinksOf(n)' = LinksOf(n) \cup {f.de} /\ f.de \in Entries \ LinksOf(n)
  <2>1. CallAt(f) = "link_count" /\ CallAt(g) # "link_count" /\ dir' = dir /\ Caller(f).ip = f.ip
    BY <1>0, <1>5, PendingMoves, ActionAt, CallLabels DEF link_count, fileVars, Top
  <2>2. f.de \in Entries /\ dir[f.de].ino = n /\ dir[f.de].name \in Mine(calls, p)
    BY <1>0, <1>5, <2>1 DEF NamesInv, Named
  <2>3. ~PendsElse(p, f.de)
    BY <2>2, NobodyPends
  <2>4. PICK d : d = f.de
    OBVIOUS
  <2>5. Pending(d) /\ ~Pending(d)'
    BY <1>1, <2>1, <2>3, <2>4
  <2>6. \A e \in Entries : e # d => (Pending(e)' <=> Pending(e))
    BY <1>1, <2>1, <2>4
  <2>7. LinksOf(n)' = LinksOf(n) \cup {d} /\ d \in Entries \ LinksOf(n)
    BY <1>2, <2>1, <2>2, <2>4, <2>5, <2>6
  <2> QED
    BY <2>4, <2>7
<1>6. ASSUME f.at = "unlink_got", n = inode[f.ip].num
      PROVE  LinksOf(n)' = LinksOf(n) \ {f.de} /\ f.de \in LinksOf(n)
  <2>1. CallAt(f) = f.at /\ inode[f.ip].num = f.nr
    BY <1>0, <1>6, CallLabels DEF Top, Holding, Kept
  <2>2. f.de \in Entries /\ dir[f.de].ino = n /\ dir[f.de].name = f.name
    BY <1>0, <1>6, <2>1 DEF NamesInv, Named
  <2>3. f.name \in Mine(calls, p)
    BY <1>6, <2>1, NameIs
  <2>4. dir' = [dir EXCEPT ![f.de].ino = 0]
    BY <1>6, ActionAt DEF unlink_got
  <2>5. dir'[f.de].ino = 0 /\ \A e \in Entries \ {f.de} : dir'[e] = dir[e]
    BY <1>0, <2>2, <2>4
  <2>6. \A e : Pending(e)' <=> Pending(e)
    BY <1>1, <1>6, <2>1, PendingMoves
  <2>7. ~Pending(f.de)
    BY <1>1, <1>6, <2>1, <2>2, <2>3, NobodyPends
  <2> QED
    BY <1>0, <1>2, <2>2, <2>5, <2>6, <2>7
<1>7. f.at = "link_count" => f.de # 0
  <2> SUFFICES ASSUME f.at = "link_count" PROVE f.de # 0
    OBVIOUS
  <2>1. CallAt(f) = "link_count"
    BY <1>0, CallLabels DEF Top
  <2> QED
    BY <1>0, <2>1 DEF NamesInv, Named
<1> QED
  BY <1>2, <1>3, <1>4, <1>5, <1>6, <1>7

\* An inode whose links change is read in.
Links == {"open_added", "unlink_got", "link_count"}

\* The inode whose links change is allocated and read in, before and after.
LEMMA LinkedNow ==
  ASSUME IInv, IInv', TablesInv, NEW p \in Procs, Step(p), proc[p].at \in Links,
         NEW s, NEW n, s = proc[p].ip, n = inode[s].num
  PROVE  /\ s \in Slots /\ Holds(p, s) /\ n \in Numbers /\ n \in imap /\ imap' = imap /\ inode'[s].num = n
         /\ Now(n) = Fields(inode[s]) /\ Now(n)' = Fields(inode'[s])
         /\ inode[s].nlinks \in Nat
<1> DEFINE f == proc[p]
<1>n. s = f.ip /\ n = inode[s].num
  OBVIOUS
<1>0. /\ s \in Slots /\ inode \in [Slots -> Inode] /\ inode' \in [Slots -> Inode] /\ Holds(p, s)
      /\ StackFits(f) /\ f \in Process /\ Holding(f) /\ UniqueInode
  BY <1>n, HereIs DEF Links, HasSlot, Counted, Moment, Holds, Own, IInv, Typed, Held, TablesInv
<1>1. n # 0 /\ n \in Numbers /\ n \in imap
  <2>1. Empty(f) = 0 /\ Own(f) = s /\ s # 0
    BY <1>n, <1>0, SlotsAre DEF Empty, Own, Links, Counted, Searches
  <2>2. n # 0
    BY <1>n, <1>0, <2>1 DEF Holding
  <2>3. n \in 0..NInodes
    BY <1>n, <1>0 DEF Inode
  <2> QED
    BY <1>n, <1>0, <2>2, <2>3, InodesAssumption DEF Numbers, TablesInv, MarkedInUse
<1>2. Loaded(s)
  <2> SUFFICES ASSUME NEW q \in Procs, Reading(proc[q]), proc[q].ip = s PROVE FALSE
    BY <1>n, <1>1 DEF Loaded
  <2>1. q # p /\ Holds(q, s) /\ inode[s].count = 1
    BY ReaderHolds DEF Reading, Links, TablesInv, ProcInv
  <2> QED
    BY <1>0, <2>1, HoldersCount
<1>3. inode'[s].num = n
  <2>1. open_added(p) \/ unlink_got(p) \/ link_count(p)
    BY ActionAt DEF Links
  <2> QED
    BY <1>n, <1>0, <2>1 DEF open_added, unlink_got, link_count, Inode, inodeVars
<1>4. Loaded(s)'
  BY <1>n, <1>0, <1>2, <1>3, LoadedMoves
<1>5. Now(n) = Fields(inode[s])
  BY <1>n, <1>0, <1>2, NowIs
<1>6. Now(n)' = Fields(inode'[s])
  BY <1>0, <1>3, <1>4, UniqueStays, NowIsNext
<1>7. imap' = imap
  BY MapMoves DEF MapDrops, MapAdds, Links
<1> QED
  BY <1>n, <1>0, <1>1, <1>3, <1>5, <1>6, <1>7 DEF Inode

\* One who does not create is at no creation.
LEMMA NotCreated ==
  ASSUME IInv, TablesInv, NEW p \in Procs, NEW s \in Slots, Holds(p, s), Created(proc[p]) = 0
  PROVE  ~BeingCreated(inode[s].num)
<1> SUFFICES ASSUME NEW q \in Procs, Created(proc[q]) # 0, inode[Created(proc[q])].num = inode[s].num PROVE FALSE
  BY DEF BeingCreated
<1> QED
  BY NewIsAlone

\* A link is counted that is not counted yet.
LEMMA LinkFits ==
  ASSUME IInv, IInv', TablesInv, NEW p \in Procs, Step(p), proc[p].at = "link_count"
  PROVE  inode[proc[p].ip].nlinks < DirSize
<1>n. PICK s, n, d : s = proc[p].ip /\ n = inode[s].num /\ d = proc[p].de
  OBVIOUS
<1>1. s \in Slots /\ Holds(p, s) /\ n \in Numbers /\ n \in imap /\ Now(n) = Fields(inode[s])
  BY <1>n, LinkedNow DEF Links
<1>2. CallAt(proc[p]) = "link_count"
  BY PendingMoves
<1>3. ~BeingCreated(n)
  BY <1>n, <1>1, <1>2, NotCreated DEF Created
<1>4. inode[s].nlinks = Cardinality(LinksOf(n))
  BY <1>1, <1>3 DEF TablesInv, LinkInv, Fields
<1>5. d # 0
  BY <1>n, <1>2, FilesAssumption DEF TablesInv, NamesInv, Named, Entries
<1>6. d \in Entries \ LinksOf(n)
  BY <1>n, <1>1, <1>5, LinksMove
<1>7. Cardinality(LinksOf(n) \cup {d}) = Cardinality(LinksOf(n)) + 1
  BY <1>6, LinksAre, FS_AddElement
<1>8. Cardinality(LinksOf(n) \cup {d}) <= Cardinality(Entries)
  BY <1>6, LinksAre, FS_Subset
<1>9. Cardinality(Entries) = DirSize
  BY FS_Interval, FilesAssumption DEF Entries
<1> QED
  BY <1>n, <1>4, <1>7, <1>8, <1>9, LinksAre, FilesAssumption

\* The table of inodes
LEMMA TableStays ==
  ASSUME IInv, IInv', TablesInv, NEW p \in Procs, Step(p)
  PROVE  (\A s \in Slots : SlotInv(s))'
<1>1. \A s \in Slots : SlotInv(s)'
  BY LinkFits, SlotsStay
<1> QED
  BY <1>1

\* Who creates an inode goes on until it has a name.
LEMMA CreatedStays ==
  ASSUME IInv, IInv', TablesInv, NEW p \in Procs, Step(p), NEW n, BeingCreated(n), proc[p].at # "open_added"
  PROVE  BeingCreated(n)'
<1>1. PICK q \in Procs : Created(proc[q]) # 0 /\ inode[Created(proc[q])].num = n
  BY DEF BeingCreated
<1>2. /\ Created(proc[q]) \in Slots /\ Holds(q, Created(proc[q]))
      /\ proc[q].at \in {"open_new", "add_entry", "open_added"}
  BY <1>1, CreatorHolds
<1>3. Created(proc[q])' = Created(proc'[q])
  <2>1. CallAt(proc[q])' = CallAt(proc'[q]) /\ Caller(proc[q])' = Caller(proc'[q])
    BY CallNext
  <2> QED
    BY <2>1 DEF Created
<1>4. CASE q # p
  <2>1. proc'[q] = proc[q]
    BY <1>4, Moment
  <2>2. inode'[Created(proc[q])].num = n
    BY <1>1, <1>2, <1>4, HeldKeepsNumber
  <2> QED
    BY <1>1, <1>3, <2>1, <2>2 DEF BeingCreated
<1>5. CASE q = p
  <2> DEFINE f == proc[p]
             g == proc'[p]
  <2>0. f \in Process /\ StackFits(f)
    BY Moment
  <2>1. CASE f.at = "add_entry"
    <3>1. CallAt(g) = CallAt(f) /\ Caller(g).ip = Caller(f).ip /\ inode' = inode
      BY <2>1, ReturnsUp
    <3>2. Created(g) = Created(f)
      BY <3>1 DEF Created
    <3> QED
      BY <1>1, <1>3, <1>5, <3>1, <3>2 DEF BeingCreated
  <2>2. CASE f.at = "open_new"
    <3>1. f.stack = <<>> /\ CallAt(f) = f.at /\ Caller(f).ip = f.ip /\ f.ip \in SlotOr0
      BY <2>2, TopStep DEF Top
    <3>2. f.ip # 0 /\ Created(f) = f.ip
      BY <1>1, <1>5, <2>2, <3>1 DEF Created
    <3>3. At(p, "open_new") /\ Goto(p, Calls(f, "add_entry", f.ip, "open_added")) /\ inode' = inode
      BY <2>2, <3>2, ActionAt DEF open_new, Continue, inodeVars
    <3>4. CallAt(g) = "open_added" /\ Caller(g).ip = f.ip
      BY <2>0, <3>1, <3>3, CallsDown, TopLabels DEF Top
    <3>5. Created(g) = f.ip
      BY <3>4 DEF Created
    <3> QED
      BY <1>1, <1>3, <1>5, <3>2, <3>3, <3>5 DEF BeingCreated
  <2> QED
    BY <1>2, <1>5, <2>1, <2>2
<1> QED
  BY <1>4, <1>5

\* An inode just allocated is being created.
LEMMA AddedIsCreated ==
  ASSUME IInv, IInv', TablesInv, NEW p \in Procs, Step(p), MapAdds(p), NEW n, n = inode'[proc[p].ip].num
  PROVE  /\ BeingCreated(n)'
         /\ proc'[p].at = "open_new" /\ proc'[p].ip = proc[p].ip /\ proc'[p].stack = <<>>
<1> DEFINE f == proc[p]
           g == proc'[p]
<1>0. f.at = "new_inode" /\ f.ip \in Slots /\ f \in Process /\ StackFits(f) /\ 0 \notin Slots
  BY Moment, SlotsAre DEF MapAdds
<1>1. f.stack # <<>> /\ Head(f.stack).at = "open_new" /\ Tail(f.stack) = <<>>
  BY <1>0, HeadsAre DEF Top
<1>2. new_inode(p) /\ At(p, "new_inode") /\ Numbers \ imap # {}
  BY <1>0, ActionAt DEF new_inode, MapAdds
<1>3. Goto(p, ReturnsInode(f, f.ip))
  BY <1>2 DEF new_inode
<1>4. PICK h : h = ReturnsInode(f, f.ip)
  OBVIOUS
<1>5. h.at = "open_new" /\ h.ip = f.ip /\ h.stack = <<>>
  BY <1>0, <1>1, <1>4, ReturnKeepsCall
<1>6. g.at = "open_new" /\ g.ip = f.ip /\ g.stack = <<>>
  BY <1>2, <1>3, <1>4, <1>5, WentTo
<1>7. Created(g) = f.ip
  BY <1>6 DEF Created, CallAt, Caller, Frame
<1>8. Created(proc[p])' = Created(g)
  <2>1. CallAt(proc[p])' = CallAt(proc'[p]) /\ Caller(proc[p])' = Caller(proc'[p])
    BY CallNext
  <2> QED
    BY <2>1 DEF Created
<1>9. BeingCreated(n)'
  BY <1>0, <1>7, <1>8 DEF BeingCreated
<1> QED
  BY <1>6, <1>9

\* Elsewhere the number of links is kept.
LEMMA NowKeepsLinks ==
  ASSUME IInv, IInv', TablesInv, NEW p \in Procs, Step(p), NEW n \in imap, n \in imap',
         proc[p].at \notin Links \/ n # inode[proc[p].ip].num
  PROVE  Now(n)'.nlinks = Now(n).nlinks
<1>0. n \in Numbers
  BY Moment DEF Typed
<1>1. CASE NowEdited(p, n)
  <2>1. PICK s \in Slots : Edits(p, s) /\ inode[s].num = n /\ Now(n) = Fields(inode[s]) /\ Now(n)' = Fields(inode'[s])
    BY <1>1 DEF NowEdited
  <2>2. proc[p].at \notin Links
    BY <2>1 DEF Edits
  <2>3. inode'[s].nlinks = inode[s].nlinks
    BY <2>1, <2>2 DEF Edits, Links
  <2> QED
    BY <2>1, <2>3 DEF Fields
<1>2. ~NowDiscarded(p, n)
  BY MapMoves DEF NowDiscarded, MapDrops, MapAdds, Discards
<1>3. ~NowAllocated(p, n)
  <2> SUFFICES ASSUME NEW s \in Slots, Allocates(p, s), inode'[s].num = n PROVE FALSE
    BY DEF NowAllocated
  <2>1. s = proc[p].ip /\ proc[p].at = "new_inode"
    BY DEF Allocates
  <2>2. MapAdds(p)
    BY <2>1, MapMoves DEF MapDrops
  <2> QED
    BY <2>1, <2>2 DEF MapAdds
<1> QED
  BY <1>0, <1>1, <1>2, <1>3, NowMoves

\* Allocated inodes count their links.
LEMMA LinkStays ==
  ASSUME IInv, IInv', TablesInv, NEW p \in Procs, Step(p)
  PROVE  LinkInv'
<1> DEFINE f == proc[p]
<1> SUFFICES ASSUME NEW n \in imap', ~BeingCreated(n)'
    PROVE  Now(n)'.nlinks = Cardinality(LinksOf(n)')
  BY DEF LinkInv
<1>n. PICK s, m, d : s = f.ip /\ m = inode[s].num /\ d = f.de
  OBVIOUS
<1>0. /\ f \in Process /\ StackFits(f) /\ inode \in [Slots -> Inode] /\ UniqueInode /\ NewInv(p) /\ NamesInv(p)
      /\ imap \subseteq Numbers
  BY Moment DEF TablesInv, Typed
<1>1. n \in imap /\ n \in Numbers
  <2>1. CASE MapAdds(p)
    <3>1. n # inode'[f.ip].num
      BY <2>1, AddedIsCreated
    <3> QED
      BY <1>0, <2>1, <3>1 DEF MapAdds
  <2> QED
    BY <1>0, <2>1, MapMoves DEF MapDrops
<1>2. IsFiniteSet(LinksOf(n)) /\ Cardinality(LinksOf(n)) \in Nat
  BY LinksAre
<1>3. CASE f.at \notin Links \/ n # m
  <2>1. Now(n)'.nlinks = Now(n).nlinks
    BY <1>n, <1>1, <1>3, NowKeepsLinks
  <2>2. LinksOf(n)' = LinksOf(n)
    BY <1>n, <1>1, <1>3, LinksMove DEF Links
  <2>3. ~BeingCreated(n)
    <3>1. CASE f.at # "open_added"
      BY <3>1, CreatedStays
    <3>2. CASE f.at = "open_added"
      <4> SUFFICES ASSUME NEW q \in Procs, Created(proc[q]) # 0, inode[Created(proc[q])].num = n PROVE FALSE
        BY DEF BeingCreated
      <4>1. CallAt(f) = "open_added" /\ Caller(f).ip = f.ip
        BY <1>0, <3>2, CallLabels DEF Top
      <4>2. q # p
        BY <1>n, <1>3, <3>2, <4>1 DEF Created, Links
      <4>3. Created(proc[q]) \in Slots /\ Holds(q, Created(proc[q])) /\ proc'[q] = proc[q]
        BY <4>2, CreatorHolds, Moment
      <4>4. inode'[Created(proc[q])].num = n
        BY <4>2, <4>3, HeldKeepsNumber
      <4>5. CallAt(proc[q])' = CallAt(proc[q]) /\ Caller(proc[q])' = Caller(proc[q])
        BY <4>3, CallNext
      <4>6. Created(proc[q])' = Created(proc[q])
        BY <4>5 DEF Created
      <4> QED
        BY <4>4, <4>6 DEF BeingCreated
    <3> QED
      BY <3>1, <3>2
  <2>4. Now(n).nlinks = Cardinality(LinksOf(n))
    BY <1>1, <2>3 DEF TablesInv, LinkInv
  <2> QED
    BY <2>1, <2>2, <2>4
<1>4. CASE f.at \in Links /\ n = m
  <2>0. /\ s \in Slots /\ Holds(p, s) /\ inode'[s].num = n /\ inode[s].nlinks \in Nat
        /\ Now(n) = Fields(inode[s]) /\ Now(n)' = Fields(inode'[s])
    BY <1>n, <1>4, LinkedNow
  <2>1. Now(n).nlinks = inode[s].nlinks /\ Now(n)'.nlinks = inode'[s].nlinks
    BY <2>0 DEF Fields
  <2>2. CASE f.at = "open_added"
    <3>1. CallAt(f) = "open_added" /\ Caller(f).ip = f.ip /\ s # 0
      BY <1>0, <2>0, <2>2, CallLabels, SlotsAre DEF Top
    <3>2. Created(f) = s
      BY <1>n, <3>1 DEF Created
    <3>3. inode[s].nlinks = 1 /\ \A e \in Entries : dir[e].ino # n
      BY <1>0, <1>n, <1>4, <3>1, <3>2 DEF NewInv
    <3>4. LinksOf(n) = {}
      BY <3>3 DEF LinksOf
    <3>5. open_added(p)
      BY <2>2, ActionAt
    <3>6. CASE d = 0
      <4>1. inode' = [inode EXCEPT ![s].nlinks = 0]
        BY <1>n, <3>5, <3>6 DEF open_added
      <4>2. inode'[s].nlinks = 0
        BY <1>0, <2>0, <4>1 DEF Inode
      <4>3. LinksOf(n)' = {}
        BY <1>n, <1>1, <2>2, <3>4, <3>6, LinksMove
      <4> QED
        BY <2>1, <4>2, <4>3, FS_EmptySet
    <3>7. CASE d # 0
      <4>1. inode' = inode
        BY <1>n, <3>5, <3>7 DEF open_added, inodeVars
      <4>2. LinksOf(n)' = LinksOf(n) \cup {f.de}
        BY <1>n, <1>1, <1>4, <2>2, <3>7, LinksMove
      <4>3. LinksOf(n)' = {d}
        BY <1>n, <3>4, <4>2
      <4> QED
        BY <2>1, <3>3, <4>1, <4>3, FS_Singleton
    <3> QED
      BY <3>6, <3>7
  <2>3. CASE f.at \in {"unlink_got", "link_count"}
    <3>1. CallAt(f) = f.at
      BY <1>0, <2>3, CallLabels DEF Top
    <3>2. ~BeingCreated(n)
      BY <1>n, <1>4, <2>0, <2>3, <3>1, NotCreated DEF Created
    <3>3. inode[s].nlinks = Cardinality(LinksOf(n))
      BY <1>1, <2>1, <3>2 DEF TablesInv, LinkInv
    <3>4. CASE f.at = "unlink_got"
      <4>1. LinksOf(n)' = LinksOf(n) \ {d} /\ d \in LinksOf(n)
        BY <1>n, <1>1, <1>4, <3>4, LinksMove
      <4>2. Cardinality(LinksOf(n)') = Cardinality(LinksOf(n)) - 1 /\ Cardinality(LinksOf(n)) >= 1
        BY <1>2, <4>1, FS_RemoveElement, LinksAre
      <4>3. inode' = [inode EXCEPT ![s].nlinks = IF @ = 0 THEN 0 ELSE @ - 1, ![s].dirt = TRUE]
        BY <1>n, <3>4, ActionAt DEF unlink_got
      <4>4. inode'[s].nlinks = inode[s].nlinks - 1
        BY <1>0, <1>2, <2>0, <3>3, <4>2, <4>3 DEF Inode
      <4> QED
        BY <2>1, <3>3, <4>2, <4>4
    <3>5. CASE f.at = "link_count"
      <4>0. d # 0
        BY <1>n, <1>0, <3>1, <3>5, FilesAssumption DEF NamesInv, Named, Entries
      <4>1. LinksOf(n)' = LinksOf(n) \cup {f.de} /\ f.de \notin LinksOf(n)
        BY <1>n, <1>1, <1>4, <3>5, <4>0, LinksMove
      <4>2. Cardinality(LinksOf(n)') = Cardinality(LinksOf(n)) + 1
        BY <1>n, <1>2, <4>1, FS_AddElement
      <4>3. inode' = [inode EXCEPT ![s].nlinks = @ + 1, ![s].dirt = TRUE]
        BY <1>n, <3>5, ActionAt DEF link_count
      <4>4. inode'[s].nlinks = inode[s].nlinks + 1
        BY <1>0, <2>0, <4>3 DEF Inode
      <4> QED
        BY <2>1, <3>3, <4>2, <4>4
    <3> QED
      BY <2>3, <3>4, <3>5
  <2> QED
    BY <1>4, <2>2, <2>3 DEF Links
<1> QED
  BY <1>3, <1>4

(* Who refers to an inode *)

\* The workload stays, and what is said of it.
LEMMA SameCalls ==
  ASSUME calls' = calls
  PROVE  /\ Lasting(calls)' = Lasting(calls) /\ Public(calls)' = Public(calls)
         /\ \A q : Mine(calls, q)' = Mine(calls, q)
         /\ \A q : (Reaches(calls, q)' <=> Reaches(calls, q)) /\ (LinksPublic(calls, q)' <=> LinksPublic(calls, q))
         /\ RaceFree(calls)' <=> RaceFree(calls)
<1>1. Lasting(calls)' = Lasting(calls)
  BY DEF Lasting
<1>2. \A q : Mine(calls, q)' = Mine(calls, q)
  BY DEF Mine, Lasting, Uses
<1>3. Public(calls)' = Public(calls)
  BY DEF Public, Lasting
<1>4. \A q : (Reaches(calls, q)' <=> Reaches(calls, q)) /\ (LinksPublic(calls, q)' <=> LinksPublic(calls, q))
  BY DEF Reaches, LinksPublic, Lasting
<1>5. \A q, op : Does(calls, q, op)' <=> Does(calls, q, op)
  BY DEF Does
<1>6. RaceFree(calls)' <=> RaceFree(calls)
  BY <1>1, <1>2, <1>4, <1>5 DEF RaceFree
<1> QED
  BY <1>1, <1>2, <1>3, <1>4, <1>6

\* What is meant by references in the next state
LEMMA RefersNext ==
  ASSUME calls' = calls, NEW q, NEW n
  PROVE  /\ NamesInode(q, n)' <=> \E e \in Entries : dir'[e].ino = n /\ dir'[e].name \in Mine(calls, q)
         /\ HoldsInode(q, n)' <=> \E s \in Slots : Holds(q, s)' /\ inode'[s].num = n
         /\ RefersTo(q, n)' <=> n # 0 /\ (HoldsInode(q, n)' \/ NamesInode(q, n)')
<1>1. Mine(calls, q)' = Mine(calls, q)
  BY SameCalls
<1> QED
  BY <1>1 DEF NamesInode, HoldsInode, RefersTo

\* What iget() brings, the process names, or all may.
LEMMA SoughtIs ==
  ASSUME IInv, TablesInv, NEW p \in Procs, proc[p].at \in Searches
  PROVE  RefersTo(p, proc[p].nr) \/ (proc[p].nr \in Public(calls) /\ Reaches(calls, p))
<1>1. proc[p].stack # <<>> /\ CallAt(proc[p]) \in Got /\ proc[p].nr # 0
  BY HereIs, HeadsAre DEF Searches, Top, Shape
<1>2. SeekInv(p)
  BY <1>1 DEF TablesInv, NamesInv, Seeks
<1> QED
  BY <1>1, <1>2 DEF SeekInv, RefersTo

\* What p refers to after its step, and did not before
Comes(p, n) == (n \in Public(calls) /\ Reaches(calls, p)) \/ (MapAdds(p) /\ n = inode'[proc[p].ip].num)

\* Who holds an inode after its step referred to it before, or it comes now.
LEMMA HoldComes ==
  ASSUME IInv, IInv', TablesInv, NEW p \in Procs, Step(p), NEW s \in Slots, Holds(p, s)', inode'[s].num # 0
  PROVE  RefersTo(p, inode'[s].num) \/ Comes(p, inode'[s].num)
<1>n. PICK n : n = inode'[s].num
  OBVIOUS
<1>0. /\ RunsAlone(p) /\ OthersFiles(p) /\ Change(p, s) /\ inode[s] \in Inode
  BY Moment DEF Sheet
<1>1. ASSUME inode'[s].num = inode[s].num, inode'[s].count <= inode[s].count PROVE RefersTo(p, n)
  <2>1. Holds(p, s)
    <3>1. inode[s].count \in Nat /\ inode'[s].count \in Nat
      BY Moment DEF Inode
    <3> QED
      BY <1>0, <1>1, <3>1, HoldsFollow
  <2> QED
    BY <1>n, <1>1, <2>1 DEF RefersTo, HoldsInode
<1>2. CASE inode'[s].num = inode[s].num /\ ~Takes(p, s)
  <2>1. CASE Clears(p, s)
    BY <2>1 DEF Clears, ZeroInode
  <2>2. CASE ~Clears(p, s)
    <3>1. inode'[s].count <= inode[s].count
      <4>1. inode[s].count \in Nat
        BY <1>0 DEF Inode
      <4>2. CASE GivesNumber(p, s) \/ Allocates(p, s)
        BY <1>2, <4>2, EmptyIs
      <4>3. CASE Discards(p, s)
        BY <4>3 DEF Discards, ZeroInode
      <4>4. CASE inode'[s] = inode[s] \/ LocksToRead(p, s) \/ Loads(p, s) \/ LocksToWrite(p, s) \/ Writes(p, s)
        <5>1. inode'[s].count = inode[s].count
          BY <1>0, <4>4 DEF LocksToRead, Loads, LocksToWrite, Writes, Inode
        <5> QED
          BY <4>1, <5>1
      <4>6. CASE LetsGo(p, s)
        <5>1. inode'[s].count = inode[s].count - 1
          BY <1>0, <4>6 DEF LetsGo, Inode
        <5> QED
          BY <4>1, <5>1
      <4>5. CASE Edits(p, s)
        BY <4>1, <4>5 DEF Edits
      <4> QED
        BY <1>0, <1>2, <2>2, <4>2, <4>3, <4>4, <4>5, <4>6 DEF Change
    <3> QED
      BY <1>n, <1>1, <1>2, <3>1
  <2> QED
    BY <2>1, <2>2
<1>3. CASE Takes(p, s)
  <2>1. proc[p].at = "iget_wait" /\ n = proc[p].nr
    BY <1>n, <1>0, <1>3 DEF Takes, Inode
  <2> QED
    BY <1>n, <2>1, SoughtIs DEF Comes, Searches
<1>4. CASE inode'[s].num # inode[s].num
  <2>1. GivesNumber(p, s) \/ Allocates(p, s)
    <3>1. ~Clears(p, s) /\ ~Discards(p, s)
      BY DEF Clears, Discards, ZeroInode
    <3> QED
      BY <1>0, <1>4, <3>1, NumberMoves
  <2>2. CASE GivesNumber(p, s)
    <3>1. proc[p].at = "iget_search" /\ n = proc[p].nr
      BY <1>n, <1>0, <2>2 DEF GivesNumber, Inode
    <3> QED
      BY <1>n, <3>1, SoughtIs DEF Comes, Searches
  <2>3. CASE Allocates(p, s)
    <3>1. MapAdds(p) /\ s = proc[p].ip
      BY <2>3, MapMoves DEF MapDrops, Allocates
    <3> QED
      BY <3>1 DEF Comes
  <2> QED
    BY <2>1, <2>2, <2>3
<1> QED
  BY <1>n, <1>2, <1>3, <1>4

\* An entry that p links has an inode that p holds.
LEMMA LinkedIsHeld ==
  ASSUME IInv, IInv', TablesInv, NEW p \in Procs, Step(p), NEW e \in Entries, dir'[e] # dir[e], dir'[e].ino # 0
  PROVE  /\ HoldsInode(p, dir'[e].ino) /\ dir'[e].ino = inode[proc[p].ip].num
         /\ dir'[e].ino \in Public(calls) => LinksPublic(calls, p)
<1> DEFINE f == proc[p]
<1>1. f.at \in {"open_added", "link_added"} /\ dir'[e].ino = inode[f.ip].num
  BY OwnEntries DEF LinksEntry
<1>2. f.ip \in Slots /\ f \in Process /\ StackFits(f) /\ NamesInv(p) /\ NewInv(p) /\ f.ip # 0
  BY <1>1, HereIs, SlotsAre DEF HasSlot, Counted, TablesInv
<1>3. Holds(p, f.ip)
  BY <1>1 DEF Holds, Own, Counted
<1>4. CallAt(f) = f.at /\ Caller(f).ip = f.ip
  BY <1>1, <1>2, CallLabels DEF Top
<1>5. ASSUME inode[f.ip].num \in Public(calls) PROVE LinksPublic(calls, p)
  <2>1. f.at # "open_added"
    <3> SUFFICES ASSUME f.at = "open_added" PROVE FALSE
      OBVIOUS
    <3>1. Created(f) = f.ip
      BY <1>4 DEF Created
    <3>2. \A d \in Entries : dir[d].ino # inode[f.ip].num
      BY <1>2, <3>1 DEF NewInv
    <3> QED
      BY <1>5, <3>2, PublicLinked DEF LinksOf
  <2> QED
    BY <1>1, <1>2, <1>4, <1>5, <2>1 DEF NamesInv
<1> QED
  BY <1>1, <1>2, <1>3, <1>5 DEF HoldsInode

\* So does who refers to one.
LEMMA RefersComes ==
  ASSUME IInv, IInv', TablesInv, NEW p \in Procs, Step(p), NEW q \in Procs, NEW n, RefersTo(q, n)'
  PROVE  RefersTo(q, n) \/ (q = p /\ Comes(p, n))
<1>0. calls' = calls /\ n # 0 /\ (HoldsInode(q, n)' \/ NamesInode(q, n)') /\ RunsAlone(p) /\ OthersFiles(p)
  BY Moment, RefersNext
<1>1. CASE HoldsInode(q, n)'
  <2>1. PICK s \in Slots : Holds(q, s)' /\ inode'[s].num = n
    BY <1>0, <1>1, RefersNext
  <2>2. CASE q = p
    BY <1>0, <2>1, <2>2, HoldComes
  <2>3. CASE q # p
    <3>1. Holds(q, s)
      BY <1>0, <2>1, <2>3, OthersHolds
    <3>2. inode[s].num = n
      BY <2>1, <2>3, <3>1, HeldKeepsNumber
    <3> QED
      BY <1>0, <3>1, <3>2 DEF RefersTo, HoldsInode
  <2> QED
    BY <2>2, <2>3
<1>2. CASE NamesInode(q, n)'
  <2>1. PICK e \in Entries : dir'[e].ino = n /\ dir'[e].name \in Mine(calls, q)
    BY <1>0, <1>2, RefersNext
  <2>2. CASE dir'[e] = dir[e]
    BY <1>0, <2>1, <2>2 DEF RefersTo, NamesInode
  <2>3. CASE dir'[e] # dir[e]
    <3>1. dir'[e].name \in Mine(calls, p) /\ HoldsInode(p, n)
      BY <1>0, <2>1, <2>3, OwnEntries, LinkedIsHeld
    <3>2. q = p
      BY <2>1, <3>1 DEF TablesInv, RaceFree
    <3> QED
      BY <1>0, <3>1, <3>2 DEF RefersTo
  <2> QED
    BY <2>2, <2>3
<1> QED
  BY <1>0, <1>1, <1>2

\* What counts is held.
CountsAreHeld == \A s \in Slots : inode[s].count # 0 => \E q \in Procs : Holds(q, s)

\* It holds in this state,
LEMMA CountsAreHeldNow == IInv => CountsAreHeld
<1> SUFFICES ASSUME IInv, NEW s \in Slots, \A q \in Procs : ~Holds(q, s) PROVE inode[s].count = 0
  BY DEF CountsAreHeld
<1>1. /\ {p \in Procs : FileSlots[p] = s} = {} /\ {p \in Procs : Owns[p] = s} = {}
      /\ {p \in Procs : Belows[p] = s} = {}
  BY DEF Holds, FileSlots, Owns, Belows
<1>2. inode[s].count = Users(FileSlots, s) + Users(Owns, s) + Users(Belows, s)
  BY DEF IInv, Counts
<1> QED
  BY <1>1, <1>2, FS_EmptySet DEF Users

\* and in the next.
LEMMA CountsAreHeldNext == IInv' => CountsAreHeld'
BY CountsAreHeldNow, PTL

\* What is in use goes out of use with free_inode() only.
LEMMA UseStays ==
  ASSUME IInv, IInv', TablesInv, NEW p \in Procs, Step(p), NEW n \in imap, n \in imap'
  PROVE  InUse(n)'
<1> DEFINE f == proc[p]
<1>0. /\ calls' = calls /\ RunsAlone(p) /\ OthersFiles(p) /\ n # 0 /\ n \in Numbers /\ InUse(n) /\ f \in Process /\ StackFits(f)
      /\ inode \in [Slots -> Inode]
  <2>1. n \in Numbers
    BY Moment DEF Typed
  <2> QED
    <3>1. n # 0 /\ InUse(n)
      BY <2>1, InodesAssumption DEF Numbers, TablesInv, OwnInv
    <3> QED
      BY <2>1, <3>1, Moment
<1>1. ASSUME NEW q \in Procs, NEW s \in Slots, Holds(q, s)', inode'[s].num = n
      PROVE  InUse(n)'
  <2>1. HoldsInode(q, n)'
    BY <1>0, <1>1, RefersNext
  <2> QED
    BY <2>1 DEF InUse
<1>2. ASSUME NEW e \in Entries, dir'[e].ino = n PROVE InUse(n)'
  BY <1>2 DEF InUse
<1>3. ASSUME NEW s \in Slots, Holds(p, s), inode[s].num = n PROVE InUse(n)'
  <2>0. Change(p, s) /\ inode[s].count \in Nat /\ inode[s].count >= 1 /\ inode[s] \in Inode
    BY <1>0, <1>3, Moment, HoldersCount DEF Sheet
  <2>1. ~Clears(p, s) /\ ~GivesNumber(p, s) /\ ~Allocates(p, s)
    <3>1. ~Clears(p, s)
      BY <2>0 DEF Clears
    <3>2. ~GivesNumber(p, s) /\ ~Allocates(p, s)
      BY <1>0, <1>3, EmptyIs
    <3> QED
      BY <3>1, <3>2
  <2>2. ~Discards(p, s)
    <3> SUFFICES ASSUME Discards(p, s) PROVE FALSE
      OBVIOUS
    <3>1. MapDrops(p) /\ s = f.ip
      BY MapMoves DEF MapAdds, Discards
    <3> QED
      BY <1>3, <3>1 DEF MapDrops
  <2>3. CASE LetsGo(p, s)
    <3>1. inode'[s].num = n /\ inode'[s].count = inode[s].count - 1
      BY <1>3, <2>0, <2>3 DEF LetsGo, Inode
    <3>2. CASE inode[s].count > 1
      <4>1. inode'[s].count # 0
        BY <2>0, <3>1, <3>2
      <4>2. PICK q \in Procs : Holds(q, s)'
        BY <4>1, CountsAreHeldNext DEF CountsAreHeld
      <4> QED
        BY <1>1, <3>1, <4>2
    <3>3. CASE inode[s].count <= 1
      <4>1. inode[s].count = 1 /\ inode[s].nlinks # 0
        BY <1>0, <1>3, <2>0, <2>3, <3>3 DEF LetsGo
      <4>2. f.at \in {"iput", "iput_again"} /\ ~Reading(f)
        BY <2>3 DEF LetsGo, Reading
      <4>3. Now(n) = Fields(inode[s])
        BY <1>0, <1>3, <4>1, <4>2, AloneLoaded, NowIs DEF TablesInv
      <4>4. Created(f) = 0
        BY <1>0, <4>2, HeadsAre DEF Created, Got, Top
      <4>5. ~BeingCreated(n)
        BY <1>3, <4>4, NotCreated
      <4>6. Cardinality(LinksOf(n)) # 0
        BY <4>1, <4>3, <4>5 DEF TablesInv, LinkInv, Fields
      <4>7. PICK e \in LinksOf(n) : TRUE
        BY <4>6, FS_EmptySet
      <4>8. e \in Entries /\ dir[e].ino = n
        BY DEF LinksOf
      <4>9. dir' = dir
        BY <4>2, KernelStep DEF InodeLabels
      <4> QED
        BY <1>2, <4>8, <4>9
    <3> QED
      BY <2>0, <3>2, <3>3
  <2>4. CASE ~LetsGo(p, s)
    <3>1. inode'[s].num = n /\ inode'[s].count >= inode[s].count /\ inode'[s].count \in Nat
      <4>1. CASE Takes(p, s)
        BY <1>3, <2>0, <4>1 DEF Takes, Inode
      <4>2. CASE inode'[s] = inode[s] \/ LocksToRead(p, s) \/ Loads(p, s) \/ LocksToWrite(p, s) \/ Writes(p, s)
        <5>1. inode'[s].count = inode[s].count /\ inode'[s].num = inode[s].num
          BY <2>0, <4>2 DEF LocksToRead, Loads, LocksToWrite, Writes, Inode
        <5> QED
          BY <1>3, <2>0, <5>1
      <4>3. CASE Edits(p, s)
        BY <1>3, <2>0, <4>3 DEF Edits
      <4> QED
        BY <2>0, <2>1, <2>2, <2>4, <4>1, <4>2, <4>3 DEF Change
    <3>2. Holds(p, s)'
      <4>1. inode'[s].count = inode[s].count \/ inode'[s].count > inode[s].count
        BY <2>0, <3>1
      <4> QED
        BY <1>0, <1>3, <4>1, HoldsFollow
    <3> QED
      BY <1>1, <3>1, <3>2
  <2> QED
    BY <2>3, <2>4
<1>4. ASSUME NEW q \in Procs, q # p, NEW s \in Slots, Holds(q, s), inode[s].num = n PROVE InUse(n)'
  <2>1. Holds(q, s)' /\ inode'[s].num = n
    BY <1>0, <1>4, OthersHolds, HeldKeepsNumber
  <2> QED
    BY <1>1, <2>1
<1>5. ASSUME NEW e \in Entries, dir[e].ino = n PROVE InUse(n)'
  <2>1. CASE dir'[e] = dir[e]
    BY <1>2, <1>5, <2>1
  <2>2. CASE dir'[e] # dir[e]
    <3>1. UnlinksEntry(p, e)
      BY <1>0, <1>5, <2>2, DirMoves DEF NamesEntry, LinksEntry
    <3>2. f.at = "unlink_got" /\ e = f.de /\ CallAt(f) = f.at
      BY <1>0, <3>1, CallLabels DEF UnlinksEntry, Top
    <3>3. dir[e].ino = f.nr
      BY <3>2 DEF TablesInv, NamesInv
    <3>4. inode[f.ip].num = f.nr
      BY <3>2 DEF IInv, Held, Holding, Kept
    <3>5. f.ip \in Slots /\ Holds(p, f.ip)
      BY <3>2, HereIs DEF HasSlot, Counted, Holds, Own
    <3> QED
      BY <1>3, <1>5, <3>3, <3>4, <3>5
  <2> QED
    BY <2>1, <2>2
<1> QED
  BY <1>0, <1>3, <1>4, <1>5 DEF InUse, HoldsInode

\* Who uses which inode
LEMMA OwnersStay ==
  ASSUME IInv, IInv', TablesInv, NEW p \in Procs, Step(p)
  PROVE  OwnInv'
<1> DEFINE f == proc[p]
<1>0. calls' = calls /\ OwnInv /\ RunsAlone(p) /\ OthersFiles(p)
  BY Moment DEF TablesInv
<1>s. /\ Public(calls)' = Public(calls)
      /\ \A q : (Reaches(calls, q)' <=> Reaches(calls, q)) /\ (LinksPublic(calls, q)' <=> LinksPublic(calls, q))
  BY <1>0, SameCalls
<1>1. ASSUME NEW q \in Procs, NEW n \in Numbers, RefersTo(q, n) PROVE n \in imap
  BY <1>1 DEF RefersTo, HoldsInode, NamesInode, TablesInv, MarkedInUse, DirInv
<1>2. \A n \in Public(calls) : n \in imap
  BY PublicLinked
<1>3. ASSUME MapAdds(p) PROVE inode'[f.ip].num \notin imap
  BY <1>3 DEF MapAdds
<1>4. ASSUME NEW a \in Procs, NEW b \in Procs, NEW n \in Numbers, a # b, RefersTo(a, n)', RefersTo(b, n)'
      PROVE  n \in Public(calls)
  <2>1. RefersTo(a, n) \/ (a = p /\ Comes(p, n))
    BY <1>4, RefersComes
  <2>2. RefersTo(b, n) \/ (b = p /\ Comes(p, n))
    BY <1>4, RefersComes
  <2>3. CASE RefersTo(a, n) /\ RefersTo(b, n)
    BY <1>0, <1>4, <2>3 DEF OwnInv
  <2> QED
    BY <1>1, <1>3, <1>4, <2>1, <2>2, <2>3 DEF Comes
<1>5. ASSUME NEW q \in Procs, NEW n \in Public(calls), RefersTo(q, n)' PROVE Reaches(calls, q)
  <2>1. RefersTo(q, n) \/ (q = p /\ Comes(p, n))
    BY <1>5, RefersComes
  <2> QED
    BY <1>0, <1>2, <1>3, <2>1 DEF Comes, OwnInv
<1>6. ASSUME NEW q \in Procs, NEW n \in Public(calls), NamesInode(q, n)' PROVE LinksPublic(calls, q)
  <2>1. PICK e \in Entries : dir'[e].ino = n /\ dir'[e].name \in Mine(calls, q)
    BY <1>0, <1>6, RefersNext
  <2>2. CASE dir'[e] = dir[e]
    BY <1>0, <2>1, <2>2 DEF OwnInv, NamesInode
  <2>3. CASE dir'[e] # dir[e]
    <3>1. n # 0
      BY DEF Public
    <3>2. dir'[e].name \in Mine(calls, p) /\ LinksPublic(calls, p)
      BY <2>1, <2>3, <3>1, OwnEntries, LinkedIsHeld
    <3> QED
      BY <2>1, <3>2 DEF TablesInv, RaceFree
  <2> QED
    BY <2>2, <2>3
<1>7. ASSUME NEW n \in imap' PROVE InUse(n)'
  <2>1. CASE n \in imap
    BY <2>1, UseStays
  <2>2. CASE n \notin imap
    <3>1. MapAdds(p) /\ n = inode'[f.ip].num
      BY <2>2, MapMoves DEF MapDrops, MapAdds
    <3>2. Allocates(p, f.ip) /\ f.ip \in Slots
      BY <3>1 DEF MapAdds
    <3>3. PICK s \in Slots : s = f.ip
      BY <3>2
    <3>4. inode[s].count = 1 /\ Holds(p, s) /\ inode[s] \in Inode
      BY <3>2, <3>3, EmptyIs, Moment
    <3>5. inode'[s].count = 1
      BY <3>2, <3>3, <3>4 DEF Allocates, Inode
    <3>6. Holds(p, s)'
      BY <1>0, <3>4, <3>5, HoldsFollow
    <3>7. HoldsInode(p, n)'
      BY <1>0, <3>1, <3>3, <3>6, RefersNext
    <3> QED
      BY <3>7 DEF InUse
  <2> QED
    BY <2>1, <2>2
<1> QED
  BY <1>s, <1>4, <1>5, <1>6, <1>7 DEF OwnInv

(* The blocks *)

\* The block of an allocated inode
ZoneAt(n) == IF n \in imap THEN Now(n).zone ELSE 0
ZonesAgree ==
  /\ \A n, k \in Numbers : n # k /\ ZoneAt(n) = ZoneAt(k) => ZoneAt(n) = 0
  /\ zmap \subseteq Zones
  /\ \A z \in Zones : z \in zmap <=> (\E n \in Numbers : ZoneAt(n) = z) \/ NewBlock(z)
  /\ \A z \in Zones : \A n \in Numbers : NewBlock(z) => ZoneAt(n) # z
  /\ \A p, q \in Procs : proc[p].at = "getblk" /\ proc[q].at = "getblk" /\ proc[p].blk = proc[q].blk => p = q

\* The same, said of all numbers
LEMMA ZonesAgreeIs == imap \subseteq Numbers => (ZoneInv <=> ZonesAgree)
<1> SUFFICES ASSUME imap \subseteq Numbers PROVE ZoneInv <=> ZonesAgree
  OBVIOUS
<1>1. 0 \notin Zones
  BY InodesAssumption DEF Zones
<1>2. \A n \in imap : ZoneAt(n) = Now(n).zone
  BY DEF ZoneAt
<1>3. \A n \in Numbers \ imap : ZoneAt(n) = 0
  BY DEF ZoneAt
<1>4. (\A n, k \in imap : n # k /\ Now(n).zone = Now(k).zone => Now(n).zone = 0)
      <=> (\A n, k \in Numbers : n # k /\ ZoneAt(n) = ZoneAt(k) => ZoneAt(n) = 0)
  BY <1>2, <1>3
<1>5. \A z \in Zones : (\E n \in imap : Now(n).zone = z) <=> (\E n \in Numbers : ZoneAt(n) = z)
  BY <1>1, <1>2, <1>3
<1>6. \A z \in Zones : (\A n \in imap : NewBlock(z) => Now(n).zone # z) <=> (\A n \in Numbers : NewBlock(z) => ZoneAt(n) # z)
  BY <1>1, <1>2, <1>3
<1> QED
  BY <1>4, <1>5, <1>6 DEF ZoneInv, ZonesAgree

\* and in the next state
LEMMA ZonesAgreeIsNext == (imap \subseteq Numbers)' => (ZoneInv' <=> ZonesAgree')
BY ZonesAgreeIs, PTL

\* Who holds an inode, and is not reading it in, finds it read in.
LEMMA HeldLoaded ==
  ASSUME IInv, TablesInv, NEW q \in Procs, NEW s \in Slots, Holds(q, s), inode[s].num # 0,
         ~Reading(proc[q]) \/ proc[q].ip # s
  PROVE  Loaded(s) /\ Now(inode[s].num) = Fields(inode[s])
<1>1. Loaded(s)
  <2> SUFFICES ASSUME NEW r \in Procs, Reading(proc[r]), proc[r].ip = s PROVE FALSE
    BY DEF Loaded
  <2>1. r # q /\ Holds(r, s) /\ inode[s].count = 1
    BY ReaderHolds DEF TablesInv, ProcInv
  <2> QED
    BY <2>1, HoldersCount
<1> QED
  BY <1>1, NowIs DEF TablesInv

\* Who frees the block of an inode, or has got one for it, holds it.
LEMMA BlockHolder ==
  ASSUME IInv, TablesInv, NEW p \in Procs, proc[p].at \in {"free_block", "getblk"}, NEW s, NEW n, s = proc[p].ip, n = inode[s].num
  PROVE  /\ s \in Slots /\ Holds(p, s) /\ n \in Numbers /\ n \in imap /\ Loaded(s) /\ Now(n) = Fields(inode[s])
         /\ ZoneAt(n) = inode[s].zone /\ proc[p].blk \in Zones
         /\ proc[p].at = "free_block" => proc[p].blk = inode[s].zone
         /\ proc[p].at = "getblk" => inode[s].zone = 0
<1>0. /\ proc[p] \in Process /\ inode \in [Slots -> Inode] /\ FileInv(p) /\ s \in Slots
  BY HereIs DEF HasSlot, TablesInv
<1>1. Holds(p, s)
  <2>1. CASE proc[p].at = "free_block"
    <3>1. proc[p].stack # <<>> /\ Head(proc[p].stack).at \in {"open_done", "free_inode"}
      BY <2>1, HereIs, HeadsAre DEF Top
    <3>2. Head(proc[p].stack).ip = proc[p].ip
      BY <2>1 DEF TablesInv, ProcInv
    <3> QED
      BY <3>1, <3>2 DEF Holds, Below, Counted
  <2>2. CASE proc[p].at = "getblk"
    BY <1>0, <2>2 DEF FileInv, Holds
  <2> QED
    BY <2>1, <2>2
<1>2. n # 0
  <2>1. Empty(proc[p]) = 0
    BY DEF Empty, Searches
  <2> QED
    BY <1>0, <1>1, <2>1, HeldHasNumber, SlotsAre
<1>3. n \in Numbers /\ n \in imap
  BY <1>0, <1>2, InodesAssumption DEF Inode, Numbers, TablesInv, MarkedInUse
<1>4. Loaded(s) /\ Now(n) = Fields(inode[s])
  BY <1>0, <1>1, <1>2, HeldLoaded DEF Reading
<1>5. ZoneAt(n) = inode[s].zone
  BY <1>3, <1>4 DEF ZoneAt, Fields
<1>6. proc[p].blk \in Zones
  BY <1>0, InodesAssumption DEF Process, Zones, FileInv
<1> QED
  BY <1>0, <1>1, <1>3, <1>4, <1>5, <1>6 DEF FileInv

\* Nobody else uses the buffer of a block that is freed, and the block is marked.
LEMMA BlockIsFreed ==
  ASSUME IInv, IInv', TablesInv, NEW p \in Procs, Step(p), proc[p].at = "free_block"
  PROVE  LET f == proc[p] IN
         /\ f.blk \in zmap /\ zmap' = zmap \ {f.blk}
         /\ inode' = [inode EXCEPT ![f.ip].zone = 0, ![f.ip].dirt = TRUE]
         /\ panic' = panic
<1> DEFINE f == proc[p]
<1>n. PICK s, n : s = f.ip /\ n = inode[s].num
  OBVIOUS
<1>0. ZonesAgree /\ Typed
  BY ZonesAgreeIs DEF TablesInv, IInv, Typed
<1>1. /\ s \in Slots /\ n \in Numbers /\ ZoneAt(n) = f.blk /\ f.blk \in Zones /\ n \in imap
      /\ f.blk = inode[s].zone /\ Holds(p, s)
  BY <1>n, BlockHolder
<1>2. f.blk \in zmap
  BY <1>0, <1>1 DEF ZonesAgree
<1>3. ~BufferInUse(p, f.blk)
  <2> SUFFICES ASSUME NEW q \in Procs \ {p}, proc[q].at = "copy", proc[q].blk = f.blk PROVE FALSE
    BY DEF BufferInUse
  <2>1. PICK t, k : t = proc[q].ip /\ k = inode[t].num
    OBVIOUS
  <2>2. file[q].slot = t /\ t # 0 /\ f.blk = inode[t].zone
    BY <2>1 DEF TablesInv, FileInv
  <2>3. t \in Slots /\ Holds(q, t) /\ inode[t] \in Inode
    BY <2>1, <2>2, Moment, SlotsAre DEF IInv, Typed, Holds
  <2>4. k # 0
    BY <2>1, <2>2 DEF IInv, Held, Opens
  <2>5. k \in imap /\ k \in Numbers
    BY <2>1, <2>3, <2>4 DEF TablesInv, MarkedInUse, IInv, Typed
  <2>6. Now(k) = Fields(inode[t])
    BY <2>1, <2>3, <2>4, HeldLoaded DEF Reading
  <2>7. ZoneAt(k) = f.blk
    BY <2>2, <2>5, <2>6 DEF ZoneAt, Fields
  <2>8. k = n
    BY <1>0, <1>1, <2>5, <2>7, InodesAssumption DEF ZonesAgree, Zones
  <2>9. t = s
    BY <1>n, <1>1, <2>1, <2>3, <2>4, <2>8 DEF TablesInv, UniqueInode
  <2> QED
    BY <1>n, <2>3, <2>9, TruncatesAlone
<1>4. free_block(p)
  BY ActionAt
<1> QED
  BY <1>2, <1>3, <1>4 DEF free_block, Goto

\* Blocks change hands where they are freed or got.
LEMMA ZoneKept ==
  ASSUME IInv, IInv', TablesInv, NEW p \in Procs, Step(p), NEW n \in Numbers,
         proc[p].at \notin {"free_block", "getblk"} \/ n # inode[proc[p].ip].num
  PROVE  ZoneAt(n)' = ZoneAt(n)
<1>1. CASE n \in imap /\ n \in imap'
  <2>1. Now(n)'.zone = Now(n).zone
    <3>1. CASE NowEdited(p, n)
      <4>1. PICK s \in Slots : Edits(p, s) /\ inode[s].num = n /\ Now(n) = Fields(inode[s]) /\ Now(n)' = Fields(inode'[s])
        BY <3>1 DEF NowEdited
      <4>2. proc[p].at \notin {"free_block", "getblk"}
        BY <4>1 DEF Edits
      <4>3. inode'[s].zone = inode[s].zone
        BY <4>1, <4>2 DEF Edits
      <4> QED
        BY <4>1, <4>3 DEF Fields
    <3>2. ~NowDiscarded(p, n)
      BY <1>1, MapMoves DEF NowDiscarded, MapDrops, MapAdds, Discards
    <3>3. ~NowAllocated(p, n)
      <4> SUFFICES ASSUME NEW s \in Slots, Allocates(p, s), inode'[s].num = n PROVE FALSE
        BY DEF NowAllocated
      <4>1. s = proc[p].ip /\ proc[p].at = "new_inode"
        BY DEF Allocates
      <4>2. MapAdds(p)
        BY <4>1, MapMoves DEF MapDrops
      <4> QED
        BY <1>1, <4>1, <4>2 DEF MapAdds
    <3> QED
      BY <3>1, <3>2, <3>3, NowMoves
  <2> QED
    BY <1>1, <2>1 DEF ZoneAt
<1>2. CASE n \in imap /\ n \notin imap'
  <2>1. MapDrops(p) /\ n = inode[proc[p].ip].num
    BY <1>2, MapMoves DEF MapDrops, MapAdds
  <2>2. PICK s \in Slots : s = proc[p].ip
    BY <2>1 DEF MapDrops
  <2>3. inode[s].zone = 0 /\ Holds(p, s) /\ inode[s].num # 0 /\ ~Reading(proc[p])
    <3>1. proc[p].at = "free_inode" /\ inode[s].num # 0
      BY <2>1, <2>2, InodesAssumption DEF MapDrops, Numbers
    <3>2. inode[s].zone = 0
      BY <2>2, <3>1 DEF TablesInv, ProcInv
    <3> QED
      BY <2>2, <3>1, <3>2 DEF Reading, Holds, Own, Counted
  <2>4. Now(n) = Fields(inode[s])
    BY <2>1, <2>2, <2>3, HeldLoaded
  <2> QED
    BY <1>2, <2>3, <2>4 DEF ZoneAt, Fields
<1>3. CASE n \notin imap /\ n \in imap'
  <2>1. MapAdds(p) /\ n = inode'[proc[p].ip].num
    BY <1>3, MapMoves DEF MapDrops, MapAdds
  <2>2. PICK s \in Slots : s = proc[p].ip
    BY <2>1 DEF MapAdds
  <2>3. Allocates(p, s) /\ inode'[s].num = n /\ n # 0
    BY <2>1, <2>2, InodesAssumption DEF MapAdds, Numbers
  <2>4. inode[s].num = 0 /\ inode[s].zone = 0
    BY <2>3, EmptyIs DEF TablesInv, SlotInv
  <2>5. inode'[s].zone = 0
    <3>1. inode[s] \in Inode
      BY Moment
    <3> QED
      BY <2>3, <2>4, <3>1 DEF Allocates, Inode
  <2>6. ~GivesNumber(p, s)
    BY <2>3 DEF Allocates, GivesNumber
  <2>7. Loaded(s)'
    BY <2>3, <2>4, <2>6, LoadedMoves
  <2>8. Now(n)' = Fields(inode'[s])
    BY <2>3, <2>7, UniqueStays, NowIsNext
  <2> QED
    BY <1>3, <2>5, <2>8 DEF ZoneAt, Fields
<1>4. CASE n \notin imap /\ n \notin imap'
  BY <1>4 DEF ZoneAt
<1> QED
  BY <1>1, <1>2, <1>3, <1>4

\* There the inode has it, or no more.
LEMMA ZoneSet ==
  ASSUME IInv, IInv', TablesInv, NEW p \in Procs, Step(p), proc[p].at \in {"free_block", "getblk"},
         NEW s, NEW n, s = proc[p].ip, n = inode[s].num
  PROVE  ZoneAt(n)' = IF proc[p].at = "getblk" THEN proc[p].blk ELSE 0
<1>0. /\ s \in Slots /\ Holds(p, s) /\ n \in Numbers /\ n \in imap /\ Loaded(s)
      /\ inode \in [Slots -> Inode]
  BY BlockHolder, Moment
<1>1. inode' = [inode EXCEPT ![s].zone = IF proc[p].at = "getblk" THEN proc[p].blk ELSE 0, ![s].dirt = TRUE]
  <2>1. CASE proc[p].at = "free_block"
    BY <2>1, BlockIsFreed
  <2>2. CASE proc[p].at = "getblk"
    BY <2>2, ActionAt DEF create_block_end
  <2> QED
    BY <2>1, <2>2
<1>2. inode'[s].num = n /\ inode'[s].zone = IF proc[p].at = "getblk" THEN proc[p].blk ELSE 0
  BY <1>0, <1>1 DEF Inode
<1>3. Loaded(s)'
  BY <1>0, <1>2, LoadedMoves
<1>4. Now(n)' = Fields(inode'[s])
  BY <1>0, <1>2, <1>3, UniqueStays, NowIsNext
<1>5. imap' = imap
  BY MapMoves DEF MapDrops, MapAdds
<1> QED
  BY <1>0, <1>2, <1>4, <1>5 DEF ZoneAt, Fields

\* Blocks that are not in a file yet
LEMMA NewBlockNext ==
  ASSUME NEW p \in Procs, \A q \in Procs \ {p} : proc'[q] = proc[q], NEW z
  PROVE  NewBlock(z)' <=> \/ \E q \in Procs \ {p} : proc[q].at = "getblk" /\ proc[q].blk = z
                          \/ proc'[p].at = "getblk" /\ proc'[p].blk = z
BY DEF NewBlock

\* The map of blocks is written by free_block() and create_block().
LEMMA ZoneMapKept ==
  ASSUME NEW p \in Procs, Step(p), proc[p].at \notin {"free_block", "create_block"}
  PROVE  zmap' = zmap
<1>1. CASE proc[p].at \in InodeLabels
  <2>1. InodeStep(p) /\ ~free_block(p) /\ ~create_block(p)
    BY <1>1, ActionAt, InodeLabel
  <2> QED
    BY <2>1 DEF InodeStep, inodeVars, get_empty_inode, get_empty_inode_loop, iget_search, iget_found, read_inode,
       read_inode_end, write_inode, write_inode_end, iput, iput_repeat, sync_inodes, truncate, free_inode, new_inode,
       create_block_end
<1>2. CASE proc[p].at \notin InodeLabels
  <2>1. ~InodeStep(p)
    BY <1>2, ActionAt
  <2> QED
    BY <2>1 DEF Step, InKernel, find_entry, add_entry, iput_dir, open_found, open_inode, open_got, open_new,
       open_added, open_new_done, unlink_found, unlink_got, link_found, link_inode, link_old, link_target, link_added,
       link_count, link_drop, write_block, write_copy, write_end, Enter, Return, Continue, Opened, inodeVars
<1> QED
  BY <1>1, <1>2

\* create_block() finds a block, or gets one that is free.
LEMMA BlockIsGot ==
  ASSUME IInv, IInv', TablesInv, NEW p \in Procs, Step(p), proc[p].at = "create_block"
  PROVE  \/ zmap' = zmap /\ proc'[p].at # "getblk"
         \/ \E z \in Zones \ zmap : zmap' = zmap \cup {z} /\ proc'[p].at = "getblk" /\ proc'[p].blk = z
<1> DEFINE f == proc[p]
           free == Zones \ zmap
<1>0. f \in Process /\ StackFits(f) /\ create_block(p) /\ At(p, "create_block")
  BY Moment, ActionAt DEF create_block
<1>1. CASE inode[f.ip].zone # 0 \/ free = {}
  <2> DEFINE h == [Returns(f) EXCEPT !.blk = inode[f.ip].zone]
  <2>1. zmap' = zmap /\ Goto(p, h)
    BY <1>0, <1>1 DEF create_block
  <2>2. h.at = "write_block"
    BY <1>0, HeadsAre DEF Returns, Process
  <2> HIDE DEF h
  <2> QED
    BY <1>0, <2>1, <2>2, WentTo
<1>2. CASE ~(inode[f.ip].zone # 0 \/ free = {})
  <2>1. PICK z : z = Min(free)
    OBVIOUS
  <2>2. z \in free
    <3>1. IsFiniteSet(free) /\ free \in SUBSET Nat
      BY FS_Interval, FS_Subset, InodesAssumption DEF Zones
    <3> QED
      BY <1>2, <2>1, <3>1, MinIn
  <2> DEFINE h == [f EXCEPT !.at = "getblk", !.blk = z]
  <2>3. zmap' = zmap \cup {z} /\ Goto(p, h)
    BY <1>0, <1>2, <2>1 DEF create_block
  <2>4. h.at = "getblk" /\ h.blk = z
    BY <1>0 DEF Process
  <2> HIDE DEF h
  <2>5. proc'[p] = h
    BY <1>0, <2>3, <2>4, WentTo
  <2> QED
    BY <2>2, <2>3, <2>4, <2>5
<1> QED
  BY <1>1, <1>2

\* Every block belongs to one inode, or is about to.
LEMMA ZonesStay ==
  ASSUME IInv, IInv', TablesInv, NEW p \in Procs, Step(p)
  PROVE  ZoneInv'
<1> DEFINE f == proc[p]
           g == proc'[p]
           Gets(q) == proc[q].at = "getblk"
<1>0. /\ ZonesAgree /\ f \in Process /\ \A q \in Procs \ {p} : proc'[q] = proc[q]
  BY ZonesAgreeIs, Moment DEF TablesInv, Typed
<1>n. PICK s, n, b : s = f.ip /\ n = inode[s].num /\ b = f.blk
  OBVIOUS
<1>z. 0 \notin Zones /\ zmap' \subseteq Zones
  <2>1. 0 \notin Zones
    BY InodesAssumption DEF Zones
  <2>2. zmap' \subseteq Zones
    <3>1. zmap \subseteq Zones
      BY <1>0 DEF ZonesAgree
    <3> QED
      BY <3>1, ZoneMapKept, BlockIsFreed, BlockIsGot
  <2> QED
    BY <2>1, <2>2
<1>1. \A z : NewBlock(z)' <=> (\E q \in Procs \ {p} : Gets(q) /\ proc[q].blk = z) \/ (g.at = "getblk" /\ g.blk = z)
  BY <1>0, NewBlockNext
<1>2. \A z : NewBlock(z) <=> (\E q \in Procs \ {p} : Gets(q) /\ proc[q].blk = z) \/ (f.at = "getblk" /\ f.blk = z)
  BY DEF NewBlock
<1> SUFFICES ZonesAgree'
  <2>1. (imap \subseteq Numbers)'
    BY DEF IInv, Typed
  <2> QED
    BY <2>1, ZonesAgreeIsNext
<1>3. ASSUME \A k \in Numbers : ZoneAt(k)' = ZoneAt(k), zmap' = zmap,
             g.at # "getblk", f.at # "getblk"
      PROVE  ZonesAgree'
  <2>1. \A z : NewBlock(z)' <=> NewBlock(z)
    BY <1>1, <1>2, <1>3
  <2>2. \A q, r \in Procs : proc'[q].at = "getblk" /\ proc'[r].at = "getblk" /\ proc'[q].blk = proc'[r].blk => q = r
    BY <1>0, <1>3 DEF ZonesAgree
  <2> QED
    BY <1>0, <1>3, <2>1, <2>2 DEF ZonesAgree
<1>4. CASE f.at \notin {"free_block", "create_block", "getblk"}
  <2>1. \A k \in Numbers : ZoneAt(k)' = ZoneAt(k)
    BY <1>4, ZoneKept
  <2>2. zmap' = zmap /\ g.at # "getblk"
    BY <1>4, ZoneMapKept, BlockComesFrom
  <2> QED
    BY <1>3, <1>4, <2>1, <2>2
<1>5. CASE f.at = "create_block"
  <2>1. \A k \in Numbers : ZoneAt(k)' = ZoneAt(k)
    BY <1>5, ZoneKept
  <2>2. CASE zmap' = zmap /\ g.at # "getblk"
    BY <1>3, <1>5, <2>1, <2>2
  <2>3. ASSUME NEW z \in Zones \ zmap, zmap' = zmap \cup {z}, g.at = "getblk", g.blk = z
        PROVE  ZonesAgree'
    <3>1. \A y : NewBlock(y)' <=> NewBlock(y) \/ y = z
      BY <1>1, <1>2, <1>5, <2>3
    <3>2. \A k \in Numbers : ZoneAt(k) # z
      BY <1>0 DEF ZonesAgree
    <3>3. ~NewBlock(z)
      BY <1>0 DEF ZonesAgree
    <3>4. \A q \in Procs \ {p} : ~(proc'[q].at = "getblk" /\ proc'[q].blk = z)
      BY <1>0, <1>2, <3>3
    <3>5. \A q, r \in Procs : proc'[q].at = "getblk" /\ proc'[r].at = "getblk" /\ proc'[q].blk = proc'[r].blk => q = r
      BY <1>0, <2>3, <3>4 DEF ZonesAgree
    <3>6. \A y \in Zones : y \in zmap' <=> (\E k \in Numbers : ZoneAt(k)' = y) \/ NewBlock(y)'
      BY <1>0, <2>1, <2>3, <3>1 DEF ZonesAgree
    <3>7. \A y \in Zones : \A k \in Numbers : NewBlock(y)' => ZoneAt(k)' # y
      BY <1>0, <2>1, <3>1, <3>2 DEF ZonesAgree
    <3>8. \A m, k \in Numbers : m # k /\ ZoneAt(m)' = ZoneAt(k)' => ZoneAt(m)' = 0
      BY <1>0, <2>1 DEF ZonesAgree
    <3> QED
      BY <1>z, <3>5, <3>6, <3>7, <3>8 DEF ZonesAgree
  <2> QED
    BY <1>5, <2>2, <2>3, BlockIsGot
<1>6. CASE f.at \in {"free_block", "getblk"}
  <2>0. /\ n \in Numbers /\ ZoneAt(n) = inode[s].zone /\ b \in Zones
        /\ f.at = "free_block" => ZoneAt(n) = b
        /\ f.at = "getblk" => ZoneAt(n) = 0
    <3>1. /\ n \in Numbers /\ ZoneAt(n) = inode[s].zone /\ f.blk \in Zones
          /\ f.at = "free_block" => f.blk = inode[s].zone
          /\ f.at = "getblk" => inode[s].zone = 0
      BY <1>n, <1>6, BlockHolder
    <3> QED
      BY <1>n, <3>1
  <2>1. \A k \in Numbers \ {n} : ZoneAt(k)' = ZoneAt(k)
    BY <1>n, ZoneKept
  <2>2. g.at # "getblk"
    BY <1>6, BlockComesFrom
  <2>3. CASE f.at = "free_block"
    <3>1. ZoneAt(n)' = 0
      BY <1>n, <2>3, ZoneSet
    <3>2. zmap' = zmap \ {b}
      BY <1>n, <2>3, BlockIsFreed
    <3>3. \A y : NewBlock(y)' <=> NewBlock(y)
      BY <1>1, <1>2, <2>2, <2>3
    <3>4. ~NewBlock(b) /\ \A k \in Numbers \ {n} : ZoneAt(k) # b
      BY <1>0, <1>z, <2>0, <2>3 DEF ZonesAgree
    <3>5. \A q, r \in Procs : proc'[q].at = "getblk" /\ proc'[r].at = "getblk" /\ proc'[q].blk = proc'[r].blk => q = r
      BY <1>0, <2>2 DEF ZonesAgree
    <3>6. ASSUME NEW y \in Zones PROVE y \in zmap' <=> (\E k \in Numbers : ZoneAt(k)' = y) \/ NewBlock(y)'
      <4>1. CASE y = b
        BY <1>z, <2>0, <2>1, <3>1, <3>2, <3>3, <3>4, <4>1
      <4>2. CASE y # b
        <5>1. (\E k \in Numbers : ZoneAt(k)' = y) <=> (\E k \in Numbers : ZoneAt(k) = y)
          BY <1>z, <2>0, <2>1, <2>3, <3>1, <4>2
        <5>2. y \in zmap' <=> y \in zmap
          BY <3>2, <4>2
        <5> QED
          BY <1>0, <3>3, <5>1, <5>2 DEF ZonesAgree
      <4> QED
        BY <4>1, <4>2
    <3>7. \A y \in Zones : \A k \in Numbers : NewBlock(y)' => ZoneAt(k)' # y
      BY <1>0, <1>z, <2>1, <3>1, <3>3 DEF ZonesAgree
    <3>8. \A m, k \in Numbers : m # k /\ ZoneAt(m)' = ZoneAt(k)' => ZoneAt(m)' = 0
      BY <1>0, <2>1, <3>1 DEF ZonesAgree
    <3> QED
      BY <1>z, <3>5, <3>6, <3>7, <3>8 DEF ZonesAgree
  <2>4. CASE f.at = "getblk"
    <3>1. ZoneAt(n)' = b
      BY <1>n, <2>4, ZoneSet
    <3>2. zmap' = zmap
      BY <2>4, ZoneMapKept
    <3>3. NewBlock(b) /\ \A k \in Numbers : ZoneAt(k) # b
      BY <1>0, <1>2, <1>n, <2>0, <2>4 DEF ZonesAgree
    <3>4. \A q \in Procs \ {p} : ~(Gets(q) /\ proc[q].blk = b)
      BY <1>0, <1>n, <2>4 DEF ZonesAgree
    <3>9. \A y : NewBlock(y)' <=> NewBlock(y) /\ y # b
      BY <1>1, <1>2, <1>n, <2>2, <2>4, <3>4
    <3>5. \A q, r \in Procs : proc'[q].at = "getblk" /\ proc'[r].at = "getblk" /\ proc'[q].blk = proc'[r].blk => q = r
      BY <1>0, <2>2 DEF ZonesAgree
    <3>6. ASSUME NEW y \in Zones PROVE y \in zmap' <=> (\E k \in Numbers : ZoneAt(k)' = y) \/ NewBlock(y)'
      <4>1. CASE y = b
        BY <1>0, <2>0, <3>1, <3>2, <3>3, <4>1 DEF ZonesAgree
      <4>2. CASE y # b
        <5>1. (\E k \in Numbers : ZoneAt(k)' = y) <=> (\E k \in Numbers : ZoneAt(k) = y)
          BY <1>z, <2>0, <2>1, <2>4, <3>1, <4>2
        <5> QED
          BY <1>0, <3>2, <3>9, <4>2, <5>1 DEF ZonesAgree
      <4> QED
        BY <4>1, <4>2
    <3>7. \A y \in Zones : \A k \in Numbers : NewBlock(y)' => ZoneAt(k)' # y
      BY <1>0, <2>1, <3>1, <3>9 DEF ZonesAgree
    <3>8. \A m, k \in Numbers : m # k /\ ZoneAt(m)' = ZoneAt(k)' => ZoneAt(m)' = 0
      BY <1>0, <2>1, <3>1, <3>3 DEF ZonesAgree
    <3> QED
      BY <1>z, <3>5, <3>6, <3>7, <3>8 DEF ZonesAgree
  <2> QED
    BY <1>6, <2>3, <2>4
<1> QED
  BY <1>4, <1>5, <1>6

\* The kernel stops only when there is no slot left.
LEMMA PanicStays ==
  ASSUME IInv, IInv', TablesInv, NEW p \in Procs, Step(p)
  PROVE  PanicInv'
<1> DEFINE f == proc[p]
<1>0. panic = "" /\ IInv'
  BY Moment
<1>1. CASE panic' = panic
  BY <1>0, <1>1 DEF PanicInv
<1>2. CASE f.at = "get_empty_inode"
  BY <1>0, <1>2, ActionAt DEF get_empty_inode, Panic, Goto, PanicInv
<1>3. CASE f.at \in {"iput", "iput_again"}
  <2>1. iput(p)
    BY <1>3, ActionAt
  <2>2. panic' # "iput: trying to free free inode"
    BY DEF IInv
  <2> QED
    BY <1>0, <2>1, <2>2 DEF iput, iput_repeat, Panic, Goto, PanicInv
<1>4. CASE f.at = "free_block"
  BY <1>1, <1>4, BlockIsFreed
<1>5. CASE f.at = "free_inode"
  <2>1. free_inode(p) /\ inode[f.ip].nlinks = 0 /\ inode[f.ip].count = 1
    BY <1>5, ActionAt DEF TablesInv, ProcInv, Frees
  <2> QED
    BY <1>1, <2>1 DEF free_inode, Goto
<1>6. CASE f.at \notin {"get_empty_inode", "iput", "iput_again", "free_block", "free_inode"}
  <2>1. CASE f.at \in InodeLabels
    <3>1. InodeStep(p) /\ ~get_empty_inode(p) /\ ~iput(p) /\ ~free_block(p) /\ ~free_inode(p)
      BY <1>6, <2>1, ActionAt, InodeLabel
    <3>2. panic' = panic
      BY <3>1 DEF InodeStep, get_empty_inode_loop, iget_search, iget_found, read_inode, read_inode_end,
         write_inode, write_inode_end, sync_inodes, truncate, new_inode, create_block, create_block_end, Goto
    <3> QED
      BY <1>1, <3>2
  <2>2. CASE f.at \notin InodeLabels
    <3>1. ~InodeStep(p)
      BY <2>2, ActionAt
    <3>2. panic' = panic
      BY <3>1 DEF Step, InKernel, find_entry, add_entry, iput_dir, open_found, open_inode, open_got, open_new,
         open_added, open_new_done, unlink_found, unlink_got, link_found, link_inode, link_old, link_target, link_added,
         link_count, link_drop, write_block, write_copy, write_end, Enter, Return, Continue, Opened, Goto
    <3> QED
      BY <1>1, <3>2
  <2> QED
    BY <2>1, <2>2
<1> QED
  BY <1>2, <1>3, <1>4, <1>5, <1>6

(* The invariant holds *)

\* What is proved of each part, together
LEMMA TablesStep ==
  ASSUME IInv, IInv', TablesInv, NEW p \in Procs, Step(p)
  PROVE  TablesInv'
<1>1. calls' = calls
  BY Moment
<1>2. RaceFree(calls)'
  BY <1>1, SameCalls DEF TablesInv
<1>3. SoundDisk'
  BY DEF TablesInv, SoundDisk
<1>4. \A q \in Procs : ProcInv(q)' /\ Asked(q)' /\ OpInv(q)' /\ NamesInv(q)' /\ NewInv(q)' /\ FileInv(q)'
  BY CallsStay
<1>5. (\A s \in Slots : SlotInv(s))'
  BY TableStays
<1>6. LocksInv' /\ SyncInv'
  BY LocksStay, SyncStays
<1>7. DirInv' /\ OwnInv' /\ LinkInv'
  BY DirStays, OwnersStay, LinkStays
<1>8. DiskInv' /\ ZoneInv' /\ PanicInv'
  BY DiskStays, ZonesStay, PanicStays
<1>9. MarkedInUse' /\ UniqueInode'
  BY MarkedStays, UniqueStays
<1> QED
  BY <1>2, <1>3, <1>4, <1>5, <1>6, <1>7, <1>8, <1>9 DEF TablesInv

(* Nothing happens *)

\* The calls are the same
LEMMA StutterCalls ==
  ASSUME UNCHANGED vars, NEW p
  PROVE  /\ proc' = proc /\ inode' = inode /\ dir' = dir /\ file' = file /\ calls' = calls
         /\ cpu' = cpu /\ panic' = panic /\ d_inode' = d_inode /\ imap' = imap /\ zmap' = zmap
         /\ CallAt(proc[p])' = CallAt(proc[p]) /\ Caller(proc[p])' = Caller(proc[p])
         /\ Created(proc[p])' = Created(proc[p])
<1>1. /\ proc' = proc /\ inode' = inode /\ dir' = dir /\ file' = file /\ calls' = calls
      /\ cpu' = cpu /\ panic' = panic /\ d_inode' = d_inode /\ imap' = imap /\ zmap' = zmap
  BY DEF vars, inodeVars, procVars, fileVars
<1>2. proc'[p] = proc[p]
  BY <1>1
<1>3. CallAt(proc[p])' = CallAt(proc[p]) /\ Caller(proc[p])' = Caller(proc[p])
  BY <1>2, CallNext
<1>4. Created(proc[p])' = Created(proc[p])
  BY <1>3 DEF Created
<1> QED
  BY <1>1, <1>3, <1>4

\* and what is loaded, held, pending and new.
LEMMA StutterHolds ==
  ASSUME UNCHANGED vars
  PROVE  /\ \A s : Loaded(s)' <=> Loaded(s)
         /\ \A q, s : Holds(q, s)' <=> Holds(q, s)
         /\ \A q, n : RefersTo(q, n)' <=> RefersTo(q, n)
         /\ \A q, n : NamesInode(q, n)' <=> NamesInode(q, n)
         /\ \A n : InUse(n)' <=> InUse(n)
         /\ \A n : BeingCreated(n)' <=> BeingCreated(n)
         /\ \A n : LinksOf(n)' = LinksOf(n)
         /\ \A z : NewBlock(z)' <=> NewBlock(z)
<1>1. proc' = proc /\ inode' = inode /\ dir' = dir /\ file' = file /\ calls' = calls
  BY StutterCalls
<1>2. \A q : /\ CallAt(proc[q])' = CallAt(proc[q]) /\ Created(proc[q])' = Created(proc[q])
             /\ Mine(calls, q)' = Mine(calls, q)
  BY StutterCalls, SameCalls
<1>3. \A s : Loaded(s)' <=> Loaded(s)
  BY <1>1 DEF Loaded, Reading
<1>4. \A q, s : Holds(q, s)' <=> Holds(q, s)
  BY <1>1 DEF Holds, Own, Below
<1>5. \A q, n : HoldsInode(q, n)' <=> HoldsInode(q, n)
  BY <1>1, <1>4 DEF HoldsInode
<1>6. \A q, n : NamesInode(q, n)' <=> NamesInode(q, n)
  BY <1>1, <1>2 DEF NamesInode
<1>7. \A q, n : RefersTo(q, n)' <=> RefersTo(q, n)
  BY <1>5, <1>6 DEF RefersTo
<1>8. \A n : InUse(n)' <=> InUse(n)
  BY <1>1, <1>5 DEF InUse
<1>9. \A n : BeingCreated(n)' <=> BeingCreated(n)
  BY <1>1, <1>2 DEF BeingCreated
<1>10. \A e : Pending(e)' <=> Pending(e)
  BY <1>1, <1>2 DEF Pending
<1>11. \A n : LinksOf(n)' = LinksOf(n)
  BY <1>1, <1>10 DEF LinksOf
<1>12. \A z : NewBlock(z)' <=> NewBlock(z)
  BY <1>1 DEF NewBlock
<1> QED
  BY <1>3, <1>4, <1>6, <1>7, <1>8, <1>9, <1>11, <1>12

\* The newest copy is the same.
LEMMA StutterNow ==
  ASSUME UNCHANGED vars, UniqueInode, NEW n
  PROVE  Now(n)' = Now(n)
<1>1. inode' = inode /\ d_inode' = d_inode
  BY StutterCalls
<1>2. \A s : Loaded(s)' <=> Loaded(s)
  BY StutterHolds
<1>3. UniqueInode'
  BY <1>1 DEF UniqueInode
<1>4. CASE \E s \in Slots : Loaded(s) /\ inode[s].num = n
  <2>1. PICK s \in Slots : Loaded(s) /\ inode[s].num = n
    BY <1>4
  <2>2. Now(n) = Fields(inode[s])
    BY <2>1, NowIs
  <2>3. Loaded(s)' /\ inode'[s].num = n
    BY <2>1, <1>1, <1>2
  <2>4. Now(n)' = Fields(inode'[s])
    BY <2>3, <1>3, NowIsNext
  <2> QED
    BY <2>2, <2>4, <1>1
<1>5. CASE ~\E s \in Slots : Loaded(s) /\ inode[s].num = n
  <2>1. Now(n) = d_inode[n]
    BY <1>5, NowOnDisk
  <2>2. \A s \in Slots : ~(Loaded(s)' /\ inode'[s].num = n)
    BY <1>5, <1>1, <1>2
  <2>3. Now(n)' = d_inode'[n]
    BY <2>2, NowOnDiskNext
  <2> QED
    BY <2>1, <2>3, <1>1
<1> QED
  BY <1>4, <1>5

\* So everything still holds.
LEMMA TablesStutter ==
  ASSUME TablesInv, UNCHANGED vars
  PROVE  TablesInv'
<1>1. /\ proc' = proc /\ inode' = inode /\ dir' = dir /\ file' = file /\ calls' = calls
      /\ cpu' = cpu /\ panic' = panic /\ d_inode' = d_inode /\ imap' = imap /\ zmap' = zmap
  BY StutterCalls
<1>2. /\ Lasting(calls)' = Lasting(calls) /\ Public(calls)' = Public(calls)
      /\ \A q : Mine(calls, q)' = Mine(calls, q)
      /\ \A q : (Reaches(calls, q)' <=> Reaches(calls, q)) /\ (LinksPublic(calls, q)' <=> LinksPublic(calls, q))
      /\ RaceFree(calls)'
  BY <1>1, SameCalls DEF TablesInv
<1>3. \A q : /\ CallAt(proc[q])' = CallAt(proc[q]) /\ Caller(proc[q])' = Caller(proc[q])
             /\ Created(proc[q])' = Created(proc[q])
  BY StutterCalls
<1>4. \A n : Now(n)' = Now(n)
  BY StutterNow DEF TablesInv
<1>5. SoundDisk'
  BY DEF TablesInv, SoundDisk
<1>6. (\A s \in Slots : SlotInv(s))'
  <2>1. \A s : Loaded(s)' <=> Loaded(s)
    BY StutterHolds
  <2> QED
    BY <2>1, <1>1 DEF TablesInv, SlotInv, Fields
<1>7. \A q \in Procs : ProcInv(q)'
  BY <1>1 DEF TablesInv, ProcInv, HeadAt, Reading, Locking, Frees
<1>8. \A q \in Procs : Asked(q)' /\ OpInv(q)'
  <2>1. \A q \in Procs : Asked(q)'
    BY <1>1, <1>3 DEF TablesInv, Asked
  <2>2. \A q \in Procs : OpInv(q)'
    BY <1>1, <1>3 DEF TablesInv, OpInv, HeadAt
  <2> QED
    BY <2>1, <2>2
<1>9. \A q \in Procs : NamesInv(q)'
  <2>1. \A q, n : NamesInode(q, n)' <=> NamesInode(q, n)
    BY StutterHolds
  <2>2. \A q : SeekInv(q)' <=> SeekInv(q)
    BY <2>1, <1>1, <1>2 DEF SeekInv
  <2>3. \A q : Named(proc[q])' <=> Named(proc[q])
    BY <1>1 DEF Named
  <2> QED
    BY <2>2, <2>3, <1>1, <1>2, <1>3 DEF TablesInv, NamesInv
<1>10. \A q \in Procs : NewInv(q)'
  BY <1>1, <1>3 DEF TablesInv, NewInv
<1>11. \A q \in Procs : FileInv(q)'
  BY <1>1, <1>3 DEF TablesInv, FileInv
<1>12. LocksInv'
  BY <1>1 DEF TablesInv, LocksInv, Locking, Frees, HeadAt
<1>13. SyncInv'
  BY <1>1 DEF TablesInv, SyncInv, Does
<1>14. DirInv'
  BY <1>1, <1>2 DEF TablesInv, DirInv
<1>15. OwnInv'
  <2>1. /\ \A q, n : RefersTo(q, n)' <=> RefersTo(q, n)
        /\ \A q, n : NamesInode(q, n)' <=> NamesInode(q, n)
        /\ \A n : InUse(n)' <=> InUse(n)
    BY StutterHolds
  <2> QED
    BY <2>1, <1>1, <1>2 DEF TablesInv, OwnInv
<1>16. LinkInv'
  <2>1. (\A n : BeingCreated(n)' <=> BeingCreated(n)) /\ (\A n : LinksOf(n)' = LinksOf(n))
    BY StutterHolds
  <2> QED
    BY <2>1, <1>1, <1>4 DEF TablesInv, LinkInv
<1>17. DiskInv'
  BY <1>1 DEF TablesInv, DiskInv
<1>18. ZoneInv'
  <2>1. \A z : NewBlock(z)' <=> NewBlock(z)
    BY StutterHolds
  <2> QED
    BY <2>1, <1>1, <1>4 DEF TablesInv, ZoneInv
<1>19. PanicInv' /\ MarkedInUse' /\ UniqueInode'
  BY <1>1 DEF TablesInv, PanicInv, MarkedInUse, UniqueInode
<1> QED
  BY <1>2, <1>5, <1>6, <1>7, <1>8, <1>9, <1>10, <1>11, <1>12, <1>13, <1>14, <1>15, <1>16, <1>17, <1>18, <1>19 DEF TablesInv

(* The start *)

\* Nobody has called anything, and nothing is in memory.
LEMMA StartsIdle ==
  ASSUME Init
  PROVE  /\ \A s \in Slots : inode[s] = ZeroInode /\ ~Loaded(s)
         /\ \A p \in Procs : proc[p] = AtUser /\ file[p] = Closed
         /\ \A p \in Procs : CallAt(proc[p]) = "user" /\ Created(proc[p]) = 0
         /\ \A a : \A p \in Procs : ~HeadAt(proc[p], a)
         /\ \A p \in Procs, s \in Slots : ~Holds(p, s)
         /\ \A n : Now(n) = InitialDisk[n] /\ ~BeingCreated(n)
         /\ \A n : LinksOf(n) = {e \in Entries : InitialDir[e].ino = n}
         /\ \A z : ~NewBlock(z)
<1>1. (\A s \in Slots : inode[s] = ZeroInode) /\ dir = InitialDir /\ d_inode = InitialDisk
  BY DEF Init, InodesInit
<1>2. \A p \in Procs : proc[p] = AtUser /\ file[p] = Closed
  BY DEF Init, InodesInit
<1>3. \A s \in Slots : inode[s].num = 0
  BY <1>1 DEF ZeroInode
<1>4. \A s \in Slots : ~Loaded(s)
  BY <1>3 DEF Loaded
<1>5. \A p \in Procs : proc[p].at = "user" /\ proc[p].ip = 0 /\ proc[p].stack = <<>>
  BY <1>2 DEF AtUser
<1>6. \A p \in Procs : CallAt(proc[p]) = "user"
  BY <1>5 DEF CallAt, Caller, Frame
<1>7. \A p \in Procs : Created(proc[p]) = 0
  BY <1>6 DEF Created
<1>8. \A a : \A p \in Procs : ~HeadAt(proc[p], a)
  BY <1>5 DEF HeadAt
<1>9. \A p \in Procs, s \in Slots : ~Holds(p, s)
  <2> SUFFICES ASSUME NEW p \in Procs, NEW s \in Slots PROVE ~Holds(p, s)
    OBVIOUS
  <2>1. Own(proc[p]) = 0 /\ Below(proc[p]) = 0
    BY <1>5 DEF Own, Below, Counted, Searches
  <2>2. file[p].slot = 0
    BY <1>2 DEF Closed
  <2>3. s # 0
    BY InodesAssumption DEF Slots
  <2> QED
    BY <2>1, <2>2, <2>3 DEF Holds
<1>10. \A n : Now(n) = InitialDisk[n]
  BY <1>1, <1>4, NowOnDisk
<1>11. \A n : ~BeingCreated(n)
  BY <1>7 DEF BeingCreated
<1>12. \A e : ~Pending(e)
  BY <1>6 DEF Pending
<1>13. \A n : LinksOf(n) = {e \in Entries : InitialDir[e].ino = n}
  BY <1>1, <1>12 DEF LinksOf
<1>14. \A z : ~NewBlock(z)
  BY <1>5 DEF NewBlock
<1> QED
  BY <1>1, <1>2, <1>4, <1>6, <1>7, <1>8, <1>9, <1>10, <1>11, <1>13, <1>14

\* No process may name a public file by a name of its own.
LEMMA StartsApart ==
  ASSUME Init, RaceFree(calls), NEW e \in Entries, dir[e].ino # 0, NEW p \in Procs, dir[e].name \in Mine(calls, p)
  PROVE  /\ dir[e].ino \notin Public(calls)
         /\ \A q \in Procs : NamesInode(q, dir[e].ino) => q = p
<1>1. dir = InitialDir
  BY DEF Init
<1>2. \A q \in Procs : \A m \in Mine(calls, q) : m \notin Lasting(calls)
  BY DEF Mine
<1>3. PICK r \in Procs : \A d \in Entries : dir[d].ino = dir[e].ino => dir[d].name \in Mine(calls, r)
  <2>1. dir[e].name \notin Lasting(calls)
    BY <1>2
  <2> QED
    BY <1>1, <2>1 DEF RaceFree
<1>4. dir[e].ino \notin Public(calls)
  <2> SUFFICES ASSUME dir[e].ino \in Public(calls) PROVE FALSE
    OBVIOUS
  <2>1. PICK d \in Entries : dir[d].name \in Lasting(calls) /\ dir[d].ino = dir[e].ino
    BY <1>1 DEF Public
  <2> QED
    BY <2>1, <1>2, <1>3
<1>5. \A q \in Procs : NamesInode(q, dir[e].ino) => q = p
  <2> SUFFICES ASSUME NEW q \in Procs, NamesInode(q, dir[e].ino) PROVE q = p
    OBVIOUS
  <2>1. \A x, y \in Procs : \A m \in Mine(calls, x) : m \in Mine(calls, y) => x = y
    BY DEF RaceFree
  <2>2. r = p
    BY <1>3, <2>1
  <2>3. r = q
    BY <1>3, <2>1 DEF NamesInode
  <2> QED
    BY <2>2, <2>3
<1> QED
  BY <1>4, <1>5

\* So everything holds at the start.
LEMMA TablesStart ==
  ASSUME Init, SoundDisk, RaceFree(calls)
  PROVE  TablesInv
<1>0. /\ dir = InitialDir /\ d_inode = InitialDisk /\ panic = ""
      /\ imap = {InitialDir[e].ino : e \in Entries} \ {0}
      /\ zmap = {InitialDisk[n].zone : n \in imap} \ {0}
  BY DEF Init, InodesInit
<1>1. \A s \in Slots : inode[s] = ZeroInode
  BY StartsIdle
<1>2. \A p \in Procs : proc[p].at = "user" /\ file[p] = Closed
  BY StartsIdle DEF AtUser
<1>3. /\ DirSize \in Nat /\ Entries = 1..DirSize
      /\ InitialDir \in [Entries -> [name : Names, ino : 0..NInodes]]
      /\ InitialDisk \in [Numbers -> [nlinks : Nat, zone : 0..NZones]]
  BY FilesAssumption DEF Entries
<1>4. \A s \in Slots : SlotInv(s)
  BY <1>1, <1>3, StartsIdle DEF SlotInv, ZeroInode
<1>5. \A p \in Procs : ProcInv(p)
  BY <1>2, StartsIdle DEF ProcInv, Reading, Locking, Frees
<1>6. \A p \in Procs : Asked(p)
  BY <1>2 DEF Asked
<1>7. \A p \in Procs : OpInv(p)
  BY <1>2, StartsIdle DEF OpInv, OpenLabels, LinkLabels
<1>8. \A p \in Procs : NamesInv(p)
  BY <1>2, StartsIdle DEF NamesInv, Seeks, Got
<1>9. \A p \in Procs : NewInv(p)
  BY StartsIdle DEF NewInv
<1>10. \A p \in Procs : FileInv(p)
  BY <1>2, StartsIdle DEF FileInv, Closed
<1>11. LocksInv
  BY <1>2, StartsIdle DEF LocksInv, Locking, Frees
<1>12. SyncInv
  <2>1. \A s \in Slots : inode[s].zone = 0
    BY <1>1 DEF ZeroInode
  <2> QED
    BY <1>0, <2>1 DEF SyncInv, RaceFree
<1>13. DirInv
  <2> SUFFICES ASSUME NEW e \in Entries
               PROVE  /\ dir[e].name \in Names
                      /\ dir[e].ino # 0 =>
                           /\ dir[e].ino \in imap
                           /\ dir[e].name \in Lasting(calls) \/ \E p \in Procs : dir[e].name \in Mine(calls, p)
                      /\ dir[e].ino # 0 /\ dir[e].name \in Lasting(calls) => dir[e].ino \in Public(calls)
    BY <1>0 DEF DirInv
  <2>1. dir[e].name \in Names
    BY <1>0, <1>3
  <2>2. dir[e].ino # 0 => dir[e].ino \in imap
    BY <1>0
  <2>3. dir[e].ino # 0 /\ dir[e].name \notin Lasting(calls) => \E p \in Procs : dir[e].name \in Mine(calls, p)
    BY <1>0 DEF RaceFree
  <2>4. dir[e].ino # 0 /\ dir[e].name \in Lasting(calls) => dir[e].ino \in Public(calls)
    BY <1>0 DEF Public
  <2> QED
    BY <2>1, <2>2, <2>3, <2>4
<1>14. OwnInv
  <2>1. \A p, n : p \in Procs => (RefersTo(p, n) <=> n # 0 /\ NamesInode(p, n))
    BY StartsIdle DEF RefersTo, HoldsInode
  <2>2. \A p \in Procs : \A n : n # 0 /\ NamesInode(p, n) =>
          n \notin Public(calls) /\ \A q \in Procs : NamesInode(q, n) => q = p
    <3> SUFFICES ASSUME NEW p \in Procs, NEW n, n # 0, NamesInode(p, n)
                 PROVE  n \notin Public(calls) /\ \A q \in Procs : NamesInode(q, n) => q = p
      OBVIOUS
    <3>1. PICK e \in Entries : dir[e].ino = n /\ dir[e].name \in Mine(calls, p)
      BY DEF NamesInode
    <3> QED
      BY <3>1, StartsApart
  <2>3. 0 \notin Public(calls) /\ 0 \notin Numbers
    BY DEF Public, Numbers
  <2>4. \A n \in imap : InUse(n)
    BY <1>0 DEF InUse
  <2>5. \A p, q \in Procs : \A n \in Numbers : p # q /\ RefersTo(p, n) /\ RefersTo(q, n) => n \in Public(calls)
    BY <2>1, <2>2
  <2>6. \A p \in Procs : \A n \in Public(calls) : ~RefersTo(p, n) /\ ~NamesInode(p, n)
    BY <2>1, <2>2, <2>3
  <2> QED
    BY <2>4, <2>5, <2>6 DEF OwnInv
<1>15. imap \subseteq Numbers
  BY Starts DEF IInv, Typed
<1>16. LinkInv
  BY <1>15, StartsIdle DEF LinkInv, SoundDisk
<1>17. DiskInv
  <2> SUFFICES ASSUME NEW n \in Numbers PROVE d_inode[n].nlinks <= DirSize
    BY DEF DiskInv
  <2>1. d_inode[n].nlinks = Cardinality(LinksOf(n))
    BY <1>0, StartsIdle DEF SoundDisk
  <2>2. Cardinality(LinksOf(n)) <= DirSize
    BY LinksAre
  <2> QED
    BY <2>1, <2>2
<1>18. ZoneInv
  <2>1. \A n : Now(n) = InitialDisk[n]
    BY StartsIdle
  <2>2. \A n, k \in imap : n # k /\ Now(n).zone = Now(k).zone => Now(n).zone = 0
    <3> SUFFICES ASSUME NEW n \in imap, NEW k \in imap, n # k, Now(n).zone = Now(k).zone
                 PROVE  Now(n).zone = 0
      OBVIOUS
    <3>1. PICK e \in Entries : InitialDir[e].ino = n /\ n # 0
      BY <1>0
    <3>2. PICK d \in Entries : InitialDir[d].ino = k /\ k # 0
      BY <1>0
    <3> QED
      BY <2>1, <3>1, <3>2 DEF SoundDisk
  <2>3. zmap \subseteq Zones
    <3>1. \A n \in imap : InitialDisk[n].zone \in 0..NZones
      BY <1>3, <1>15
    <3>2. 0..NZones \ {0} \subseteq Zones
      BY InodesAssumption DEF Zones
    <3> QED
      BY <1>0, <3>1, <3>2
  <2>4. 0 \notin Zones
    BY InodesAssumption DEF Zones
  <2>5. \A z \in Zones : z \in zmap <=> \E n \in imap : Now(n).zone = z
    BY <1>0, <2>1, <2>4
  <2> QED
    BY <1>2, <2>2, <2>3, <2>5, StartsIdle DEF ZoneInv
<1>19. PanicInv
  BY <1>0 DEF PanicInv
<1>20. \A s \in Slots : inode[s].num = 0
  BY <1>1 DEF ZeroInode
<1>21. MarkedInUse /\ UniqueInode
  BY <1>20 DEF MarkedInUse, UniqueInode
<1> QED
  BY <1>4, <1>5, <1>6, <1>7, <1>8, <1>9, <1>10, <1>11, <1>12, <1>13, <1>14, <1>16, <1>17, <1>18, <1>19, <1>21
     DEF TablesInv

\* What each process names is its own, and the newest copies add up, whatever the
\* processes do as long as they do not race.
THEOREM TablesInvariance ==
  ASSUME SoundDisk, \A w \in Workloads : RaceFree(w)
  PROVE  Spec => []TablesInv
<1>1. Init => TablesInv
  BY TablesStart DEF Init
<1>2. IInv /\ IInv' /\ TablesInv /\ [Next]_vars => TablesInv'
  <2> SUFFICES ASSUME IInv, IInv', TablesInv, [Next]_vars PROVE TablesInv'
    OBVIOUS
  <2>1. ASSUME NEW p \in Procs, Step(p) PROVE TablesInv'
    BY <2>1, TablesStep
  <2>2. CASE UNCHANGED vars
    BY <2>2, TablesStutter
  <2> QED
    BY <2>1, <2>2 DEF Next, Halted, Step
<1> QED
  BY <1>1, <1>2, Invariance, PTL DEF Spec

(* What the tables hold *)

\* The processor runs a process, or nobody.
RunnerInv == cpu \in Procs \cup {Nobody}

\* A step leaves the processor with who runs, or with nobody.
LEMMA RunnerStays ==
  ASSUME IInv, RunnerInv, [Next]_vars
  PROVE  RunnerInv'
<1>1. ASSUME NEW p \in Procs, Step(p) PROVE RunnerInv'
  BY <1>1, KernelAlone DEF IInv, RunsAlone, RunnerInv
<1>2. CASE UNCHANGED vars
  BY <1>2 DEF vars, procVars, RunnerInv
<1> QED
  BY <1>1, <1>2 DEF Next, Halted, Step

\* What a call holds and what its caller holds are not the same inode.
LEMMA OneInKernel ==
  ASSUME NEW f \in Process, StackFits(f), Holding(f), Own(f) # 0
  PROVE  Own(f) # Below(f)
<1> SUFFICES ASSUME Own(f) = Below(f), Below(f) # 0 PROVE FALSE
  OBVIOUS
<1>1. f.at \in Counted \cup Searches
  BY DEF Own
<1>2. f.stack # <<>> /\ Head(f.stack).at \in Counted /\ Head(f.stack).ip # 0
  BY DEF Below
<1>3. \A s : Frame("user", s).at \notin Counted
  BY DEF Frame, Counted
<1>4. \A a : Frame(a, 0).ip = 0
  BY DEF Frame
<1>5. CASE f.at \in Top
  BY <1>2, <1>5 DEF StackFits
<1>6. CASE f.at \in Searches \cup {"read_inode", "read_bread"}
  <2>1. PICK a \in Got : f.stack = <<Frame(a, 0)>>
    BY <1>6 DEF StackFits, GetStack
  <2>2. Head(f.stack) = Frame(a, 0)
    BY <2>1
  <2> QED
    BY <1>2, <1>4, <2>2
<1>7. CASE f.at = "new_inode"
  <2>1. Head(f.stack) = Frame("open_new", 0)
    BY <1>7 DEF StackFits
  <2> QED
    BY <1>2, <1>4, <2>1
<1>8. CASE f.at \in {"iput_again", "free_inode"}
  <2>1. PICK s : f.stack = <<Frame("user", s)>>
    BY <1>8 DEF StackFits, UserStack
  <2>2. Head(f.stack) = Frame("user", s)
    BY <2>1
  <2> QED
    BY <1>2, <1>3, <2>2
<1>9. CASE f.at = "iput"
  <2>1. Head(f.stack).at # "user"
    BY <1>2 DEF Counted
  <2>2. Empty(f) = Own(f)
    BY <1>9, <2>1 DEF Empty, Own, Counted, Searches
  <2> QED
    BY <2>2 DEF Holding
<1> QED
  BY <1>1, <1>5, <1>6, <1>7, <1>8, <1>9 DEF Counted, Searches, Top

\* So a process holds an inode at most twice, and the table counts that often.
LEMMA CountsAreFew ==
  ASSUME IInv, NEW s \in Slots
  PROVE  inode[s].count <= 2 * Cardinality(Procs)
<1> DEFINE F == {p \in Procs : FileSlots[p] = s}
           O == {p \in Procs : Owns[p] = s}
           B == {p \in Procs : Belows[p] = s}
<1>1. IsFiniteSet(Procs) /\ F \in SUBSET Procs /\ O \in SUBSET Procs /\ B \in SUBSET Procs /\ O \cup B \in SUBSET Procs
  BY InodesAssumption
<1>2. Cardinality(F) <= Cardinality(Procs) /\ Cardinality(O \cup B) <= Cardinality(Procs)
  BY <1>1, FS_Subset
<1>3. IsFiniteSet(F) /\ IsFiniteSet(O) /\ IsFiniteSet(B)
  BY <1>1, FS_Subset
<1>4. /\ Cardinality(Procs) \in Nat /\ Cardinality(F) \in Nat /\ Cardinality(O) \in Nat
      /\ Cardinality(B) \in Nat
  BY <1>1, <1>3, FS_CardinalityType
<1>5. O \cap B = {}
  <2> SUFFICES ASSUME NEW p \in Procs, Own(proc[p]) = s, Below(proc[p]) = s PROVE FALSE
    BY DEF Owns, Belows
  <2>1. proc[p] \in Process /\ StackFits(proc[p]) /\ Holding(proc[p])
    BY DEF IInv, Typed, Shape, Held
  <2> QED
    BY <2>1, OneInKernel, SlotsAre
<1>6. Cardinality(O \cup B) = Cardinality(O) + Cardinality(B)
  <2>1. Cardinality(O \cup B) = Cardinality(O) + Cardinality(B) - Cardinality(O \cap B)
    BY <1>3, FS_Union
  <2>2. Cardinality(O \cap B) = 0
    BY <1>5, FS_EmptySet
  <2> QED
    BY <2>1, <2>2, <1>4
<1>7. inode[s].count = Cardinality(F) + Cardinality(O) + Cardinality(B)
  BY DEF IInv, Counts, Users
<1> HIDE DEF F, O, B
<1> QED
  BY <1>2, <1>4, <1>6, <1>7

\* The stacks are as deep as the nesting of calls in the source.
LEMMA StacksAreLow ==
  ASSUME NEW f \in Process, StackFits(f)
  PROVE  Len(f.stack) <= 4
<1> DEFINE Few == \/ f.stack = <<>>
                  \/ \E a : f.stack = <<a>>
                  \/ \E a, b : f.stack = <<a, b>>
                  \/ \E a, b, c : f.stack = <<a, b, c>>
<1>1. Few => Len(f.stack) <= 4
  <2>1. CASE f.stack = <<>>
    BY <2>1
  <2>2. ASSUME NEW a, f.stack = <<a>> PROVE Len(f.stack) <= 4
    BY <2>2
  <2>3. ASSUME NEW a, NEW b, f.stack = <<a, b>> PROVE Len(f.stack) <= 4
    BY <2>3
  <2>4. ASSUME NEW a, NEW b, NEW c, f.stack = <<a, b, c>> PROVE Len(f.stack) <= 4
    BY <2>4
  <2> QED
    BY <2>1, <2>2, <2>3, <2>4
<1>2. CASE f.at \in Top \cup {"user"}
  BY <1>1, <1>2 DEF StackFits
<1>3. CASE f.at \in {"find_entry", "add_entry", "iput_dir", "create_block", "getblk"}
  <2>1. FindStack(f) \/ AddStack(f) \/ DirStack(f) \/ BlockStack(f)
    BY <1>3 DEF StackFits
  <2>2. Few
    BY <2>1, Zenon DEF FindStack, AddStack, DirStack, BlockStack
  <2> QED
    BY <1>1, <2>2
<1>4. CASE f.at \in {"get_empty_inode", "gei_wait", "new_inode", "sync_inodes"} \cup Searches \cup {"read_inode", "read_bread"}
  <2>1. EmptyStack(f) \/ GetStack(f) \/ f.stack = <<Frame("open_new", 0)>> \/ f.stack = <<Frame("user", 0)>>
    BY <1>4 DEF StackFits
  <2>2. Few
    BY <2>1, Zenon DEF EmptyStack, GetStack
  <2> QED
    BY <1>1, <2>2
<1>5. CASE f.at \in {"iput", "iput_again", "free_inode"}
  <2>1. PutStack(f) \/ UserStack(f)
    BY <1>5 DEF StackFits
  <2>2. Few
    BY <2>1, Zenon DEF PutStack, UserStack
  <2> QED
    BY <1>1, <2>2
<1>6. CASE f.at \in {"truncate", "free_block", "write_inode", "write_bread"}
  <2>1. TruncateStack(f) \/ WriteStack(f)
    BY <1>6 DEF StackFits
  <2>2. Few
    BY <2>1, Zenon DEF TruncateStack, WriteStack
  <2> QED
    BY <1>1, <2>2
<1> QED
  BY <1>2, <1>3, <1>4, <1>5, <1>6 DEF Process, Labels, Top, Searches, Yields, Waits

\* What the invariants say of the tables
LEMMA TablesAreTyped ==
  ASSUME IInv, TablesInv, RunnerInv
  PROVE  TypeOK
<1>0. Typed
  BY DEF IInv
<1>1. inode \in [Slots -> [num : 0..NInodes, count : 0..2*Cardinality(Procs) + 1,
                           nlinks : 0..DirSize, dirt : BOOLEAN, lock : BOOLEAN, zone : 0..NZones]]
  <2>1. inode \in [Slots -> Inode]
    BY <1>0 DEF Typed
  <2>2. Cardinality(Procs) \in Nat /\ DirSize \in Nat
    BY InodesAssumption, FilesAssumption, FS_CardinalityType
  <2>3. ASSUME NEW s \in Slots
        PROVE  inode[s] \in [num : 0..NInodes, count : 0..2*Cardinality(Procs) + 1,
                             nlinks : 0..DirSize, dirt : BOOLEAN, lock : BOOLEAN, zone : 0..NZones]
    <3>1. inode[s] \in Inode
      BY <2>1
    <3>2. inode[s].count \in 0..2*Cardinality(Procs) + 1
      BY <2>2, <3>1, CountsAreFew DEF Inode
    <3>3. inode[s].nlinks \in 0..DirSize
      BY <2>2, <3>1 DEF TablesInv, SlotInv, Inode
    <3> QED
      BY <3>1, <3>2, <3>3 DEF Inode
  <2> QED
    BY <2>1, <2>3
<1>2. d_inode \in [Numbers -> [nlinks : 0..DirSize, zone : 0..NZones]]
  <2>1. d_inode \in [Numbers -> [nlinks : Nat, zone : 0..NZones]]
    BY <1>0 DEF Typed
  <2>2. \A n \in Numbers : d_inode[n].nlinks <= DirSize
    BY DEF TablesInv, DiskInv
  <2>3. DirSize \in Nat
    BY FilesAssumption
  <2>4. \A n \in Numbers : d_inode[n] \in [nlinks : 0..DirSize, zone : 0..NZones]
    BY <2>1, <2>2, <2>3
  <2> QED
    BY <2>1, <2>4
<1>3. imap \subseteq Numbers /\ zmap \subseteq Zones /\ last_inode \in Slots
  BY <1>0 DEF Typed, TablesInv, ZoneInv
<1>4. dir \in [Entries -> [name : Names, ino : 0..NInodes]]
  <2>1. dir \in [Entries -> [name : Names \cup {0}, ino : 0..NInodes]]
    BY <1>0 DEF Typed
  <2>2. \A e \in Entries : dir[e].name \in Names
    BY DEF TablesInv, DirInv
  <2>3. \A e \in Entries : dir[e] \in [name : Names, ino : 0..NInodes]
    BY <2>1, <2>2
  <2> QED
    BY <2>1, <2>3
<1>5. file \in [Procs -> [slot : 0..NR_INODE, num : 0..NInodes]]
  BY <1>0 DEF Typed, SlotOr0
<1>6. ASSUME NEW p \in Procs
      PROVE  proc[p].at \in Labels /\ proc[p].ip \in 0..NR_INODE /\ Len(proc[p].stack) <= 4
  <2>1. proc[p] \in Process /\ StackFits(proc[p])
    BY <1>0 DEF Typed, IInv, Shape
  <2> QED
    BY <2>1, StacksAreLow DEF Process, SlotOr0
<1> QED
  BY <1>1, <1>2, <1>3, <1>4, <1>5, <1>6 DEF TypeOK, RunnerInv

\* The tables hold what their fields are for, every inode in memory is marked in use,
\* and the kernel panics for no other reason than that more inodes are in use than
\* inode_table has slots: no inode and no block is freed twice, or while it is used.
THEOREM TablesStaySane ==
  ASSUME SoundDisk, \A w \in Workloads : RaceFree(w)
  PROVE  Spec => []TablesAreSane
<1>1. Init => RunnerInv
  BY DEF Init, InodesInit, RunnerInv
<1>2. IInv /\ RunnerInv /\ [Next]_vars => RunnerInv'
  BY RunnerStays
<1>3. IInv /\ TablesInv /\ RunnerInv => TablesAreSane
  BY TablesAreTyped DEF TablesAreSane, TablesInv, PanicInv
<1>4. Spec => []TablesInv
  BY TablesInvariance
<1> QED
  BY <1>1, <1>2, <1>3, <1>4, Invariance, PTL DEF Spec

\* iget() never makes a second slot for an inode.
THEOREM InodesStayUnique ==
  ASSUME SoundDisk, \A w \in Workloads : RaceFree(w)
  PROVE  Spec => []UniqueInode
<1>1. TablesInv => UniqueInode
  BY DEF TablesInv
<1>2. Spec => []TablesInv
  BY TablesInvariance
<1> QED
  BY <1>1, <1>2, PTL

(* Between calls *)

\* Between calls a process holds its open file only, and does nothing to an inode.
LEMMA QuietIs ==
  ASSUME IInv, \A p \in Procs : proc[p].at = "user"
  PROVE  /\ \A s \in Slots : Loaded(s) <=> inode[s].num # 0
         /\ \A p \in Procs, s \in Slots : Holds(p, s) <=> file[p].slot = s
         /\ \A n : ~BeingCreated(n) /\ LinksOf(n) = {e \in Entries : dir[e].ino = n}
         /\ \A z : ~NewBlock(z)
<1>1. \A p \in Procs : proc[p] = AtUser
  BY DEF IInv, Shape
<1>2. \A p \in Procs : CallAt(proc[p]) = "user"
  BY <1>1 DEF AtUser, CallAt, Caller, Frame
<1>3. \A s \in Slots : Loaded(s) <=> inode[s].num # 0
  BY DEF Loaded, Reading
<1>4. \A p \in Procs, s \in Slots : Holds(p, s) <=> file[p].slot = s
  <2> SUFFICES ASSUME NEW p \in Procs, NEW s \in Slots PROVE Holds(p, s) <=> file[p].slot = s
    OBVIOUS
  <2>1. Own(proc[p]) = 0 /\ Below(proc[p]) = 0
    BY <1>1 DEF AtUser, Own, Below, Counted, Searches
  <2>2. s # 0
    BY SlotsAre
  <2> QED
    BY <2>1, <2>2 DEF Holds
<1>5. \A n : ~BeingCreated(n)
  BY <1>2 DEF BeingCreated, Created
<1>6. \A e : ~Pending(e)
  BY <1>2 DEF Pending
<1>7. \A n : LinksOf(n) = {e \in Entries : dir[e].ino = n}
  BY <1>6 DEF LinksOf
<1>8. \A z : ~NewBlock(z)
  BY DEF NewBlock
<1> QED
  BY <1>3, <1>4, <1>5, <1>7, <1>8

\* The newest copy is the one of the invariant.
LEMMA NewestIs ==
  ASSUME IInv, TablesInv, \A p \in Procs : proc[p].at = "user", NEW n \in Numbers
  PROVE  Newest(n).nlinks = Now(n).nlinks /\ Newest(n).zone = Now(n).zone
<1>0. n # 0
  BY DEF Numbers
<1>1. CASE \E s \in Slots : inode[s].num = n
  <2> DEFINE t == CHOOSE s \in Slots : inode[s].num = n
  <2>1. t \in Slots /\ inode[t].num = n
    BY <1>1
  <2>2. Newest(n) = inode[t]
    BY <1>1 DEF Newest
  <2> HIDE DEF t
  <2>3. Loaded(t)
    BY <1>0, <2>1, QuietIs
  <2>4. Now(n) = Fields(inode[t])
    BY <2>1, <2>3, NowIs DEF TablesInv
  <2> QED
    BY <2>2, <2>4 DEF Fields
<1>2. CASE ~\E s \in Slots : inode[s].num = n
  <2>1. Newest(n) = d_inode[n]
    BY <1>2 DEF Newest
  <2>2. Now(n) = d_inode[n]
    BY <1>2, NowOnDisk
  <2> QED
    BY <2>1, <2>2
<1> QED
  BY <1>1, <1>2

\* An inode is allocated as long as it has a name or is open.
LEMMA AllocatedIs ==
  ASSUME IInv, TablesInv, \A p \in Procs : proc[p].at = "user", NEW n \in Numbers
  PROVE  n \in imap <=> LinksTo(n) > 0 \/ \E p \in Procs : file[p].num = n
<1> DEFINE L == {e \in Entries : dir[e].ino = n}
<1>0. n # 0
  BY DEF Numbers
<1>1. L = LinksOf(n) /\ LinksTo(n) = Cardinality(L)
  BY QuietIs DEF LinksTo
<1>2. LinksTo(n) > 0 <=> \E e \in Entries : dir[e].ino = n
  <2>1. IsFiniteSet(L) /\ Cardinality(L) \in Nat
    BY <1>1, LinksAre
  <2>2. Cardinality(L) = 0 <=> L = {}
    BY <2>1, FS_EmptySet
  <2> QED
    BY <1>1, <2>1, <2>2
<1>3. ASSUME n \in imap, NEW p \in Procs, HoldsInode(p, n) PROVE file[p].num = n
  <2>1. PICK s \in Slots : Holds(p, s) /\ inode[s].num = n
    BY <1>3 DEF HoldsInode
  <2>2. file[p].slot = s /\ s # 0
    BY <2>1, QuietIs, SlotsAre
  <2> QED
    BY <2>1, <2>2 DEF IInv, Held, Opens
<1>4. n \in imap => (\E e \in Entries : dir[e].ino = n) \/ \E p \in Procs : file[p].num = n
  BY <1>3 DEF TablesInv, OwnInv, InUse
<1>5. (\E e \in Entries : dir[e].ino = n) => n \in imap
  BY <1>0 DEF TablesInv, DirInv
<1>6. ASSUME NEW p \in Procs, file[p].num = n PROVE n \in imap
  <2>1. file[p].slot # 0
    BY <1>0, <1>6 DEF TablesInv, FileInv
  <2>2. file[p].slot \in Slots
    BY <2>1, SlotsAre DEF IInv, Typed
  <2>3. inode[file[p].slot].num = n
    BY <2>1, <1>6 DEF IInv, Held, Opens
  <2> QED
    BY <1>0, <2>2, <2>3 DEF TablesInv, MarkedInUse
<1> QED
  BY <1>2, <1>4, <1>5, <1>6

\* The blocks are those of the invariant.
LEMMA ZonesBetweenCalls ==
  ASSUME IInv, TablesInv, \A p \in Procs : proc[p].at = "user"
  PROVE  /\ \A n, k \in Numbers : n # k /\ ZoneOf(n) = ZoneOf(k) => ZoneOf(n) = 0
         /\ zmap = {ZoneOf(n) : n \in Numbers} \ {0}
<1>1. \A n \in Numbers : ZoneOf(n) = ZoneAt(n)
  BY NewestIs DEF ZoneOf, ZoneAt
<1>2. ZonesAgree
  BY ZonesAgreeIs DEF IInv, Typed, TablesInv
<1>3. \A n \in Numbers : ZoneAt(n) # 0 => ZoneAt(n) \in Zones
  <2> SUFFICES ASSUME NEW n \in Numbers, ZoneAt(n) # 0 PROVE ZoneAt(n) \in Zones
    OBVIOUS
  <2>1. ZoneAt(n) = Now(n).zone
    BY DEF ZoneAt
  <2>2. Now(n).zone \in 0..NZones
    <3>1. CASE \E s \in Slots : Loaded(s) /\ inode[s].num = n
      <4>1. PICK s \in Slots : Loaded(s) /\ inode[s].num = n
        BY <3>1
      <4>2. Now(n) = Fields(inode[s])
        BY <4>1, NowIs DEF TablesInv
      <4>3. inode[s] \in Inode
        BY DEF IInv, Typed
      <4> QED
        BY <4>2, <4>3 DEF Fields, Inode
    <3>2. CASE ~\E s \in Slots : Loaded(s) /\ inode[s].num = n
      <4>1. Now(n) = d_inode[n]
        BY <3>2, NowOnDisk
      <4> QED
        BY <4>1 DEF IInv, Typed
    <3> QED
      BY <3>1, <3>2
  <2>3. 0..NZones \ {0} \subseteq Zones
    BY InodesAssumption DEF Zones
  <2> QED
    BY <2>1, <2>2, <2>3
<1>4. 0 \notin Zones /\ \A z : ~NewBlock(z)
  BY InodesAssumption, QuietIs DEF Zones
<1>5. \A n, k \in Numbers : n # k /\ ZoneOf(n) = ZoneOf(k) => ZoneOf(n) = 0
  BY <1>1, <1>2 DEF ZonesAgree
<1>6. \A z : z \in zmap <=> z # 0 /\ \E n \in Numbers : ZoneAt(n) = z
  BY <1>2, <1>3, <1>4 DEF ZonesAgree
<1>7. zmap = {ZoneOf(n) : n \in Numbers} \ {0}
  BY <1>1, <1>6
<1> QED
  BY <1>5, <1>7

\* So the file system agrees with itself.
LEMMA TablesAgree ==
  ASSUME IInv, TablesInv
  PROVE  Consistent
<1> SUFFICES ASSUME \A p \in Procs : proc[p].at = "user"
             PROVE  /\ \A n \in Numbers :
                         /\ n \in imap <=> LinksTo(n) > 0 \/ \E p \in Procs : file[p].num = n
                         /\ n \in imap => Newest(n).nlinks = LinksTo(n)
                    /\ \A n, k \in Numbers : n # k /\ ZoneOf(n) = ZoneOf(k) => ZoneOf(n) = 0
                    /\ zmap = {ZoneOf(n) : n \in Numbers} \ {0}
  BY DEF Consistent
<1>1. ASSUME NEW n \in imap PROVE n \in Numbers /\ Newest(n).nlinks = LinksTo(n)
  <2>1. n \in Numbers
    BY DEF IInv, Typed
  <2>2. Now(n).nlinks = Cardinality(LinksOf(n))
    BY QuietIs DEF TablesInv, LinkInv
  <2> QED
    BY <2>1, <2>2, NewestIs, QuietIs DEF LinksTo
<1> QED
  BY <1>1, AllocatedIs, ZonesBetweenCalls

\* Between calls an inode is allocated while it has a name or is open, it counts its
\* names, and each allocated block belongs to one inode: no change of an inode is lost
\* when its slot is given away, and nothing is freed twice or never, wherever the calls
\* of the processes slept.
THEOREM CallsKeepConsistent ==
  ASSUME SoundDisk, \A w \in Workloads : RaceFree(w)
  PROVE  Spec => []Consistent
<1>1. IInv /\ TablesInv => Consistent
  BY TablesAgree
<1>2. Spec => []TablesInv
  BY TablesInvariance
<1> QED
  BY <1>1, <1>2, Invariance, PTL

==============================================================================
