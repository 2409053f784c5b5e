------------------------------ MODULE FilesProofs ------------------------------
(***************************************************************************)
(* Proofs about Files.tla, for any processes, any workload, an inode_table *)
(* of any length and any file system: the references to inodes in memory.  *)
(* FilesTables.tla goes on with what the inodes and the disk hold.         *)
(*                                                                         *)
(* A reference is kept by an open file, by a call under way, or by the     *)
(* caller of that call, in its frame.  A slot changes hands in two ways    *)
(* only: a step of p moves references of p's own and changes i_count with  *)
(* them (Moved), or it leaves all of them alone (Quiet).  So nobody else   *)
(* loses what he holds, and each step has to be looked at for p alone.     *)
(* Then comes what makes two slots hold one inode.                         *)
(*                                                                         *)
(* The rest prepares FilesTables.tla: the invariant TablesInv, and what    *)
(* one step does.  What it may do to a slot and to the process that takes  *)
(* it is noted once, on its Sheet, for all lemmas that follow; they say    *)
(* how the newest copy of an inode changes and that the other processes    *)
(* find what they have seen unchanged.                                     *)
(***************************************************************************)
EXTENDS Files, SequenceTheorems, FiniteSetTheorems, WellFoundedInduction, TLAPS

(* The inductive invariant *)

\* A slot, or none
SlotOr0 == 0..NR_INODE

\* What a process is about, between system calls and in one
Operation == {"none", "open", "creat", "mknod", "unlink", "link", "sync", "write", "close"}

Inode == [num : 0..NInodes, count : Nat, nlinks : Nat, dirt : BOOLEAN, lock : BOOLEAN, zone : 0..NZones]

Process == [at : Labels, op : Operation, name : Names \cup {0}, ip : SlotOr0, empty : SlotOr0,
            nr : 0..NInodes, blk : 0..NZones, de : 0..DirSize,
            stack : Seq([at : Labels, ip : SlotOr0])]

\* Types of what the proof looks at
Typed ==
  /\ inode \in [Slots -> Inode] /\ last_inode \in Slots
  /\ d_inode \in [Numbers -> [nlinks : Nat, zone : 0..NZones]]
  /\ imap \subseteq Numbers
  /\ dir \in [Entries -> [name : Names \cup {0}, ino : 0..NInodes]]
  /\ file \in [Procs -> [slot : SlotOr0, num : 0..NInodes]]
  /\ proc \in [Procs -> Process]
  /\ calls \in Workloads

\* Labels of the system calls themselves, and what they do with iget()'s result.
Top == {"open_found", "open_inode", "open_got", "open_done", "open_new", "open_added",
        "open_new_done", "unlink_found", "unlink_got", "link_found", "link_inode", "link_old",
        "link_target", "link_added", "link_count", "link_drop", "write_block", "bread", "copy"}

\* Labels at which iget() returns
Got == {"open_got", "unlink_got", "link_old"}

\* iget() holds an empty inode while it searches.
Searches == {"iget_search", "iget_wait"}

\* The stack of a process at each label.
FindStack(f) ==
  \/ \E a \in {"open_found", "unlink_found", "link_found"} : f.stack = <<Frame(a, 0)>>
  \/ \E s \in Slots : f.stack = <<Frame("link_target", s)>>
AddStack(f) == \E a \in {"open_added", "link_added"}, s \in Slots : f.stack = <<Frame(a, s)>>
DirStack(f) ==
  \/ \E a \in {"open_inode", "link_inode"} : f.stack = <<Frame(a, 0)>> /\ f.nr # 0
  \/ \E a \in {"open_new_done", "link_count", "link_drop"}, s \in Slots : f.stack = <<Frame(a, s)>>
EmptyStack(f) ==
  \/ \E a \in Got : f.stack = <<Frame("iget_search", 0), Frame(a, 0)>> /\ f.nr # 0
  \/ f.stack = <<Frame("new_inode", 0), Frame("open_new", 0)>>
GetStack(f) == \E a \in Got : f.stack = <<Frame(a, 0)>>
PutStack(f) ==
  \/ \E a \in Got, s \in Slots : f.stack = <<Frame(a, s)>>
  \/ f.stack = <<Frame("open_new", 0)>>
UserStack(f) == \E s \in SlotOr0 : f.stack = <<Frame("user", s)>>
TruncateStack(f) ==
  \/ \E s \in Slots : f.stack = <<Frame("open_done", s)>> /\ f.op = "creat"
  \/ \E s \in Slots, t \in SlotOr0 : f.stack = <<Frame("free_inode", s), Frame("user", t)>>
WriteStack(f) ==
  \/ f.stack = <<Frame("user", 0)>>
  \/ \E s \in Slots : f.stack = <<Frame("sync_inodes", s), Frame("user", 0)>>
  \/ \E s \in Slots, t \in SlotOr0 : f.stack = <<Frame("iput_again", s), Frame("user", t)>>
  \/ \E s \in Slots, a \in Got :
       f.stack = <<Frame("gei_wait", s), Frame("iget_search", 0), Frame(a, 0)>> /\ f.nr # 0
  \/ \E s \in Slots : f.stack = <<Frame("gei_wait", s), Frame("new_inode", 0), Frame("open_new", 0)>>
BlockStack(f) == \E s \in Slots : f.stack = <<Frame("write_block", s)>>

StackFits(f) ==
  /\ f.at \in Top \cup {"user"} => f.stack = <<>>
  /\ f.at = "find_entry" => FindStack(f)
  /\ f.at = "add_entry" => AddStack(f)
  /\ f.at = "iput_dir" => DirStack(f)
  /\ f.at \in {"get_empty_inode", "gei_wait"} => EmptyStack(f)
  /\ f.at \in Searches \cup {"read_inode", "read_bread"} => GetStack(f)
  /\ f.at = "new_inode" => f.stack = <<Frame("open_new", 0)>>
  /\ f.at = "iput" => PutStack(f) \/ UserStack(f)
  /\ f.at \in {"iput_again", "free_inode"} => UserStack(f)
  /\ f.at \in {"truncate", "free_block"} => TruncateStack(f)
  /\ f.at \in {"write_inode", "write_bread"} => WriteStack(f)
  /\ f.at = "sync_inodes" => f.stack = <<Frame("user", 0)>>
  /\ f.at \in {"create_block", "getblk"} => BlockStack(f)

\* Labels at which ip is a slot.
HasSlot == (Counted \ {"open_new"})
             \cup {"gei_wait", "iget_wait", "write_inode", "write_bread", "sync_inodes",
                  "truncate", "free_block", "create_block", "getblk"}

\* What a label says of the local variables
Shape(f) ==
  /\ StackFits(f)
  /\ f.at = "user" => f = AtUser
  /\ f.at \in HasSlot => f.ip \in Slots
  /\ f.at \in Searches => f.empty \in Slots
  /\ f.at \in Searches \cup {"open_inode", "link_inode"} => f.nr # 0
  /\ f.at = "open_done" => f.op = "creat"
  /\ f.at \in {"open_found", "unlink_found", "link_found", "open_inode", "link_inode"} => f.ip = 0

\* The references of a process in the kernel: one of its own, one in its stack.
Own(f) == IF f.at \in Counted THEN f.ip ELSE IF f.at \in Searches THEN f.empty ELSE 0
Below(f) == IF f.stack # <<>> /\ Head(f.stack).at \in Counted THEN Head(f.stack).ip ELSE 0

\* An inode that get_empty_inode() has brought, and that has no number yet.
Empty(f) ==
  IF f.at \in Searches THEN f.empty
  ELSE IF f.at = "new_inode" \/ (f.at = "iput" /\ Head(f.stack).at # "user") THEN f.ip ELSE 0

\* Labels at which the inode is the one with number nr.
Kept == {"read_inode", "read_bread", "open_got", "open_done", "open_new_done", "unlink_got", "link_old"}

\* What holds of the inodes that are held.
Holding(f) ==
  /\ Empty(f) # 0 => inode[Empty(f)].num = 0 /\ inode[Empty(f)].count = 1
  /\ Own(f) # 0 /\ Empty(f) = 0 => inode[Own(f)].num # 0
  /\ Below(f) # 0 => inode[Below(f)].num # 0
  /\ f.at \in Kept => inode[f.ip].num = f.nr
  /\ Below(f) # 0 /\ Head(f.stack).at \in Kept => inode[Below(f)].num = f.nr

\* An open file is the file that was opened.
Opens(p) == file[p].slot # 0 => inode[file[p].slot].num = file[p].num /\ file[p].num # 0

Held == \A p \in Procs : Holding(proc[p]) /\ Opens(p)

\* Only who sleeps lets others run.
Asleep == Yields \cup Waits
Runs == panic = "" => \A p \in Procs : proc[p].at \in Asleep \/ cpu = p

\* What find_entry() found is there as long as nobody else has run.
Finds(f) == f.at \in {"open_found", "unlink_found", "link_found"} => f.de = 0 \/ dir[f.de].ino # 0

\* sys_open() and sys_creat() are under way only without an open file.
OpensOnce(p) == proc[p].op \in {"open", "creat"} => file[p].slot = 0

\* References counted: one each for the open file and in the kernel
Bit(x, s) == IF x = s THEN 1 ELSE 0
Bits(p, s) == Bit(file[p].slot, s) + Bit(Own(proc[p]), s) + Bit(Below(proc[p]), s)

FileSlots == [p \in Procs |-> file[p].slot]
Owns == [p \in Procs |-> Own(proc[p])]
Belows == [p \in Procs |-> Below(proc[p])]
Users(who, s) == Cardinality({p \in Procs : who[p] = s})

\* i_count is the number of these references.
Counts == \A s \in Slots : inode[s].count = Users(FileSlots, s) + Users(Owns, s) + Users(Belows, s)

\* The invariant
IInv ==
  /\ Typed
  /\ \A p \in Procs : Shape(proc[p]) /\ Finds(proc[p]) /\ OpensOnce(p)
  /\ Runs /\ Held /\ Counts
  /\ panic # "iput: trying to free free inode"

(* Stacks of at most three frames *)

\* A stack of up to three frames: its head, and what is below.
LEMMA Stacking ==
  ASSUME NEW a, NEW b, NEW c
  PROVE  /\ Head(<<a>>) = a /\ Head(<<a, b>>) = a /\ Head(<<a, b, c>>) = a
         /\ Tail(<<a>>) = <<>> /\ Tail(<<a, b>>) = <<b>> /\ Tail(<<a, b, c>>) = <<b, c>>
         /\ <<a>> # <<>> /\ <<a, b>> # <<>> /\ <<a, b, c>> # <<>>
<1>1. Head(<<a>>) = a
  OBVIOUS
<1>2. Head(<<a, b>>) = a
  OBVIOUS
<1>3. Head(<<a, b, c>>) = a
  OBVIOUS
<1>4. Tail(<<a>>) = <<>>
  OBVIOUS
<1>5. Tail(<<a, b>>) = <<b>>
  OBVIOUS
<1>6. Tail(<<a, b, c>>) = <<b, c>>
  OBVIOUS
<1>7. <<a>> # <<>> /\ <<a, b>> # <<>> /\ <<a, b, c>> # <<>>
  OBVIOUS
<1> QED
  BY <1>1, <1>2, <1>3, <1>4, <1>5, <1>6, <1>7

\* A call out of up to two others.
LEMMA Pushing ==
  ASSUME NEW a, NEW b, NEW c, NEW st
  PROVE  /\ st = <<>> => <<a>> \o st = <<a>>
         /\ st = <<b>> => <<a>> \o st = <<a, b>>
         /\ st = <<b, c>> => <<a>> \o st = <<a, b, c>>
<1>1. <<a>> \o <<>> = <<a>>
  OBVIOUS
<1> DEFINE S == {a, b, c}
<1>2. <<a>> \o <<b>> = <<a, b>>
  <2> DEFINE l == <<a>> \o <<b>>
  <2>1. /\ <<a>> \in Seq(S) /\ <<b>> \in Seq(S) /\ <<a, b>> \in Seq(S)
        /\ Len(<<a>>) = 1 /\ Len(<<b>>) = 1 /\ Len(<<a, b>>) = 2
        /\ <<a>>[1] = a /\ <<b>>[1] = b /\ <<a, b>>[1] = a /\ <<a, b>>[2] = b
    OBVIOUS
  <2>2. /\ l \in Seq(S) /\ Len(l) = 1 + 1
        /\ \A i \in 1..1 + 1 : l[i] = IF i <= 1 THEN <<a>>[i] ELSE <<b>>[i - 1]
    BY <2>1, ConcatProperties
  <2> HIDE DEF l
  <2>3. l[1] = a /\ l[2] = b /\ Len(l) = 2
    BY <2>1, <2>2
  <2>4. \A i \in 1..2 : l[i] = <<a, b>>[i]
    BY <2>1, <2>3
  <2>5. l = <<a, b>>
    BY <2>1, <2>2, <2>3, <2>4, SeqEqual
  <2> QED
    BY <2>5 DEF l
<1>3. <<a>> \o <<b, c>> = <<a, b, c>>
  <2> DEFINE l == <<a>> \o <<b, c>>
  <2>1. /\ <<a>> \in Seq(S) /\ <<b, c>> \in Seq(S) /\ <<a, b, c>> \in Seq(S)
        /\ Len(<<a>>) = 1 /\ Len(<<b, c>>) = 2 /\ Len(<<a, b, c>>) = 3
        /\ <<a>>[1] = a /\ <<b, c>>[1] = b /\ <<b, c>>[2] = c
        /\ <<a, b, c>>[1] = a /\ <<a, b, c>>[2] = b /\ <<a, b, c>>[3] = c
    OBVIOUS
  <2>2. /\ l \in Seq(S) /\ Len(l) = 1 + 2
        /\ \A i \in 1..1 + 2 : l[i] = IF i <= 1 THEN <<a>>[i] ELSE <<b, c>>[i - 1]
    BY <2>1, ConcatProperties
  <2> HIDE DEF l
  <2>3. l[1] = a /\ l[2] = b /\ l[3] = c /\ Len(l) = 3
    BY <2>1, <2>2
  <2>4. \A i \in 1..3 : l[i] = <<a, b, c>>[i]
    BY <2>1, <2>3
  <2>5. l = <<a, b, c>>
    BY <2>1, <2>2, <2>3, <2>4, SeqEqual
  <2> QED
    BY <2>5 DEF l
<1> QED
  BY <1>1, <1>2, <1>3, Zenon

\* The slots, and 0 for none.
LEMMA SlotsAre == Slots \subseteq Nat /\ 0 \notin Slots /\ SlotOr0 = Slots \cup {0} /\ NR_INODE \in Slots
BY InodesAssumption DEF Slots, SlotOr0

\* A frame keeps the label of the caller and its inode.
LEMMA FrameIs ==
  ASSUME NEW a, NEW s
  PROVE  Frame(a, s).at = a /\ Frame(a, s).ip = s
BY DEF Frame

\* A call: the label and the slot are new, the stack has one frame more.
LEMMA CallIs ==
  ASSUME NEW f \in Process, NEW label \in Labels, NEW s \in SlotOr0, NEW ret \in Labels
  PROVE  LET g == Calls(f, label, s, ret)
         IN  /\ g \in Process
             /\ g.at = label /\ g.ip = s /\ g.stack = <<Frame(ret, f.ip)>> \o f.stack
             /\ g.op = f.op /\ g.name = f.name /\ g.empty = f.empty /\ g.nr = f.nr
             /\ g.blk = f.blk /\ g.de = f.de
<1> DEFINE T == Seq([at : Labels, ip : SlotOr0])
           new == <<Frame(ret, f.ip)>> \o f.stack
<1>1. f.stack \in T /\ f.ip \in SlotOr0
  BY DEF Process
<1>2. <<Frame(ret, f.ip)>> \in T
  BY <1>1 DEF Frame
<1>3. new \in T
  BY <1>1, <1>2, ConcatProperties
<1> HIDE DEF new, T
<1> DEFINE g == [f EXCEPT !.at = label, !.ip = s, !.stack = new]
<1>4. /\ g \in Process
      /\ g.at = label /\ g.ip = s /\ g.stack = new
      /\ g.op = f.op /\ g.name = f.name /\ g.empty = f.empty /\ g.nr = f.nr
      /\ g.blk = f.blk /\ g.de = f.de
  BY <1>3 DEF Process, T
<1>5. g = Calls(f, label, s, ret)
  BY DEF Calls, new
<1> HIDE DEF g
<1> QED
  BY <1>4, <1>5 DEF new

\* What a return changes, and what it keeps
Returned(g, f, a, s, rest) ==
  /\ g \in Process
  /\ g.at = a /\ g.ip = s /\ g.stack = rest
  /\ g.op = f.op /\ g.name = f.name /\ g.empty = f.empty /\ g.nr = f.nr
  /\ g.blk = f.blk /\ g.de = f.de

\* A return: the label and the slot come from the stack.
LEMMA ReturnIs ==
  ASSUME NEW f \in Process, NEW label \in Labels, NEW s \in SlotOr0, NEW rest,
         f.stack # <<>>, Head(f.stack) = Frame(label, s), Tail(f.stack) = rest
  PROVE  /\ LET g == Returns(f)
            IN  /\ g \in Process
                /\ g.at = label /\ g.ip = s /\ g.stack = rest
                /\ g.op = f.op /\ g.name = f.name /\ g.empty = f.empty /\ g.nr = f.nr
                /\ g.blk = f.blk /\ g.de = f.de
         /\ \A t \in SlotOr0 :
              LET g == ReturnsInode(f, t)
              IN  /\ g \in Process
                  /\ g.at = label /\ g.ip = t /\ g.stack = rest
                  /\ g.op = f.op /\ g.name = f.name /\ g.empty = f.empty /\ g.nr = f.nr
                  /\ g.blk = f.blk /\ g.de = f.de
<1> DEFINE T == Seq([at : Labels, ip : SlotOr0])
<1>1. rest \in T
  <2>1. f.stack \in T
    BY DEF Process
  <2> QED
    BY <2>1, HeadTailProperties
<1>2. Head(f.stack).at = label /\ Head(f.stack).ip = s
  BY DEF Frame
<1> HIDE DEF T
<1> DEFINE g == [f EXCEPT !.at = label, !.ip = s, !.stack = rest]
<1>3. /\ g \in Process
      /\ g.at = label /\ g.ip = s /\ g.stack = rest
      /\ g.op = f.op /\ g.name = f.name /\ g.empty = f.empty /\ g.nr = f.nr
      /\ g.blk = f.blk /\ g.de = f.de
  BY <1>1 DEF Process, T
<1>4. g = Returns(f)
  BY <1>2 DEF Returns
<1> HIDE DEF g
<1>5. ASSUME NEW t \in SlotOr0
      PROVE  LET h == ReturnsInode(f, t)
             IN  /\ h \in Process
                 /\ h.at = label /\ h.ip = t /\ h.stack = rest
                 /\ h.op = f.op /\ h.name = f.name /\ h.empty = f.empty /\ h.nr = f.nr
                 /\ h.blk = f.blk /\ h.de = f.de
  <2> DEFINE h == [g EXCEPT !.ip = t]
  <2>1. h = ReturnsInode(f, t)
    BY <1>4 DEF ReturnsInode
  <2>2. /\ h \in Process
        /\ h.at = label /\ h.ip = t /\ h.stack = rest
        /\ h.op = f.op /\ h.name = f.name /\ h.empty = f.empty /\ h.nr = f.nr
        /\ h.blk = f.blk /\ h.de = f.de
    BY <1>3 DEF Process
  <2> HIDE DEF h
  <2> QED
    BY <2>1, <2>2
<1> QED
  BY <1>3, <1>4, <1>5

\* A return from the innermost of up to three calls.
LEMMA ReturnFrom ==
  ASSUME NEW f \in Process, NEW a \in Labels, NEW s \in SlotOr0, NEW t \in SlotOr0, NEW b, NEW c
  PROVE  /\ f.stack = <<Frame(a, s)>> =>
              /\ Returned(Returns(f), f, a, s, <<>>)
              /\ Returned(ReturnsInode(f, t), f, a, t, <<>>)
         /\ f.stack = <<Frame(a, s), b>> =>
              /\ Returned(Returns(f), f, a, s, <<b>>)
              /\ Returned(ReturnsInode(f, t), f, a, t, <<b>>)
         /\ f.stack = <<Frame(a, s), b, c>> =>
              /\ Returned(Returns(f), f, a, s, <<b, c>>)
              /\ Returned(ReturnsInode(f, t), f, a, t, <<b, c>>)
<1>1. ASSUME NEW rest, f.stack # <<>>, Head(f.stack) = Frame(a, s), Tail(f.stack) = rest
      PROVE  Returned(Returns(f), f, a, s, rest) /\ Returned(ReturnsInode(f, t), f, a, t, rest)
  BY <1>1, ReturnIs DEF Returned
<1> DEFINE x == Frame(a, s)
<1> HIDE DEF x
<1>2. /\ <<x>> # <<>> /\ Head(<<x>>) = x /\ Tail(<<x>>) = <<>>
      /\ <<x, b>> # <<>> /\ Head(<<x, b>>) = x /\ Tail(<<x, b>>) = <<b>>
      /\ <<x, b, c>> # <<>> /\ Head(<<x, b, c>>) = x /\ Tail(<<x, b, c>>) = <<b, c>>
  BY Stacking
<1>3. ASSUME f.stack = <<x>>
      PROVE  Returned(Returns(f), f, a, s, <<>>) /\ Returned(ReturnsInode(f, t), f, a, t, <<>>)
  BY <1>1, <1>2, <1>3 DEF x
<1>4. ASSUME f.stack = <<x, b>>
      PROVE  Returned(Returns(f), f, a, s, <<b>>) /\ Returned(ReturnsInode(f, t), f, a, t, <<b>>)
  BY <1>1, <1>2, <1>4 DEF x
<1>5. ASSUME f.stack = <<x, b, c>>
      PROVE  Returned(Returns(f), f, a, s, <<b, c>>) /\ Returned(ReturnsInode(f, t), f, a, t, <<b, c>>)
  BY <1>1, <1>2, <1>5 DEF x
<1> QED
  BY <1>3, <1>4, <1>5 DEF x

\* The last call of a function.
LEMMA TailCallIs ==
  ASSUME NEW f \in Process, NEW label \in Labels, NEW arg \in SlotOr0, NEW s \in SlotOr0,
         NEW ret \in Labels, NEW t \in SlotOr0, f.stack = <<Frame(ret, t)>>
  PROVE  LET g == TailCalls(f, label, arg, s)
         IN  /\ g \in Process
             /\ g.at = label /\ g.ip = arg /\ g.stack = <<Frame(ret, s)>>
             /\ g.op = f.op /\ g.name = f.name /\ g.empty = f.empty /\ g.nr = f.nr
             /\ g.blk = f.blk /\ g.de = f.de
<1> DEFINE T == Seq([at : Labels, ip : SlotOr0])
           new == <<Frame(ret, s)>>
<1>1. new \in T
  BY DEF Frame
<1>2. Head(f.stack).at = ret /\ Tail(f.stack) = <<>>
  BY Stacking DEF Frame
<1>3. <<Frame(Head(f.stack).at, s)>> \o Tail(f.stack) = new
  BY <1>2, Pushing
<1> HIDE DEF new, T
<1> DEFINE g == [f EXCEPT !.at = label, !.ip = arg, !.stack = new]
<1>4. /\ g \in Process
      /\ g.at = label /\ g.ip = arg /\ g.stack = new
      /\ g.op = f.op /\ g.name = f.name /\ g.empty = f.empty /\ g.nr = f.nr
      /\ g.blk = f.blk /\ g.de = f.de
  BY <1>1 DEF Process, T
<1>5. g = TailCalls(f, label, arg, s)
  BY <1>3 DEF TailCalls
<1> HIDE DEF g
<1> QED
  BY <1>4, <1>5 DEF new

(* References, counted *)

\* Only the value of p changes.
OnlyOf(p, g, h) == \A q \in Procs \ {p} : h[q] = g[q]

\* One process leaves a slot, and comes to another.
LEMMA UsersMove ==
  ASSUME NEW g, NEW h, NEW p \in Procs, OnlyOf(p, g, h), NEW s
  PROVE  /\ Users(g, s) \in Nat /\ Users(h, s) \in Nat
         /\ Users(h, s) - Bit(h[p], s) = Users(g, s) - Bit(g[p], s)
<1> DEFINE G == {q \in Procs : g[q] = s}
           H == {q \in Procs : h[q] = s}
<1>1. IsFiniteSet(G) /\ IsFiniteSet(H)
  <2>1. IsFiniteSet(Procs) /\ G \subseteq Procs /\ H \subseteq Procs
    BY InodesAssumption
  <2> QED
    BY <2>1, FS_Subset
<1>2. Cardinality(G) \in Nat /\ Cardinality(H) \in Nat
  BY <1>1, FS_CardinalityType
<1>3. Cardinality(G \ {p}) = IF p \in G THEN Cardinality(G) - 1 ELSE Cardinality(G)
  BY <1>1, FS_RemoveElement
<1>4. Cardinality(H \ {p}) = IF p \in H THEN Cardinality(H) - 1 ELSE Cardinality(H)
  BY <1>1, FS_RemoveElement
<1>5. G \ {p} = H \ {p}
  BY DEF OnlyOf
<1>6. (p \in G <=> g[p] = s) /\ (p \in H <=> h[p] = s)
  OBVIOUS
<1> HIDE DEF G, H
<1>7. Cardinality(H) - Bit(h[p], s) = Cardinality(G) - Bit(g[p], s)
  BY <1>2, <1>3, <1>4, <1>5, <1>6 DEF Bit
<1> QED
  BY <1>2, <1>7 DEF Users, G, H

\* Two processes count twice.
LEMMA UsersOfTwo ==
  ASSUME NEW g, NEW p \in Procs, NEW q \in Procs \ {p}, NEW s
  PROVE  /\ Users(g, s) \in Nat
         /\ Users(g, s) >= Bit(g[p], s) + Bit(g[q], s)
<1> DEFINE G == {r \in Procs : g[r] = s}
           T == {r \in {p, q} : g[r] = s}
<1>1. IsFiniteSet(G)
  <2>1. IsFiniteSet(Procs) /\ G \subseteq Procs
    BY InodesAssumption
  <2> QED
    BY <2>1, FS_Subset
<1>2. T \subseteq G
  OBVIOUS
<1>3. Cardinality(T) <= Cardinality(G) /\ Cardinality(G) \in Nat
  BY <1>1, <1>2, FS_Subset, FS_CardinalityType
<1>4. T = (IF g[p] = s THEN {p} ELSE {}) \cup (IF g[q] = s THEN {q} ELSE {})
  OBVIOUS
<1>5. Cardinality(T) = Bit(g[p], s) + Bit(g[q], s)
  <2>1. Cardinality({}) = 0 /\ Cardinality({p}) = 1 /\ Cardinality({q}) = 1
    BY FS_EmptySet, FS_Singleton
  <2>2. Cardinality({p, q}) = 2
    <3>1. IsFiniteSet({p})
      BY FS_Singleton
    <3>2. q \notin {p}
      OBVIOUS
    <3>3. Cardinality({p} \cup {q}) = Cardinality({p}) + 1
      BY <3>1, <3>2, FS_AddElement
    <3>4. {p} \cup {q} = {p, q}
      OBVIOUS
    <3> QED
      BY <2>1, <3>3, <3>4
  <2>3. /\ g[p] = s /\ g[q] = s => T = {p, q}
        /\ g[p] = s /\ g[q] # s => T = {p}
        /\ g[p] # s /\ g[q] = s => T = {q}
        /\ g[p] # s /\ g[q] # s => T = {}
    OBVIOUS
  <2> HIDE DEF T
  <2> QED
    BY <2>1, <2>2, <2>3 DEF Bit
<1> QED
  BY <1>3, <1>5 DEF Users, G

\* The slot of each reference.
LEMMA RefsAre ==
  ASSUME Typed, NEW p \in Procs
  PROVE  /\ FileSlots[p] = file[p].slot /\ Owns[p] = Own(proc[p]) /\ Belows[p] = Below(proc[p])
         /\ proc[p] \in Process
         /\ file[p].slot \in SlotOr0
BY DEF FileSlots, Owns, Belows, Typed

\* A slot counts at least the references of any two processes.
LEMMA TwoHolders ==
  ASSUME Typed, Counts, NEW p \in Procs, NEW q \in Procs \ {p}, NEW s \in Slots
  PROVE  inode[s].count >= Bits(p, s) + Bits(q, s)
<1>1. /\ Users(FileSlots, s) \in Nat /\ Users(FileSlots, s) >= Bit(file[p].slot, s) + Bit(file[q].slot, s)
  BY UsersOfTwo, RefsAre
<1>2. /\ Users(Owns, s) \in Nat /\ Users(Owns, s) >= Bit(Own(proc[p]), s) + Bit(Own(proc[q]), s)
  BY UsersOfTwo, RefsAre
<1>3. /\ Users(Belows, s) \in Nat /\ Users(Belows, s) >= Bit(Below(proc[p]), s) + Bit(Below(proc[q]), s)
  BY UsersOfTwo, RefsAre
<1>4. inode[s].count = Users(FileSlots, s) + Users(Owns, s) + Users(Belows, s)
  BY DEF Counts
<1> DEFINE u == Users(FileSlots, s)
           v == Users(Owns, s)
           w == Users(Belows, s)
<1> HIDE DEF u, v, w
<1>5. /\ u \in Nat /\ v \in Nat /\ w \in Nat /\ inode[s].count = u + v + w
      /\ u >= Bit(file[p].slot, s) + Bit(file[q].slot, s)
      /\ v >= Bit(Own(proc[p]), s) + Bit(Own(proc[q]), s)
      /\ w >= Bit(Below(proc[p]), s) + Bit(Below(proc[q]), s)
  BY <1>1, <1>2, <1>3, <1>4 DEF u, v, w
<1>6. \A x : Bit(x, s) \in Nat
  BY DEF Bit
<1> QED
  BY <1>5, <1>6 DEF Bits

\* Nobody else holds a slot whose references are all p's own.
LEMMA Alone ==
  ASSUME Typed, Counts, NEW p \in Procs, NEW q \in Procs \ {p}, NEW s \in Slots,
         inode[s].count <= Bits(p, s)
  PROVE  s \notin {file[q].slot, Own(proc[q]), Below(proc[q])}
<1>1. \A x : Bit(x, s) \in {0, 1}
  BY DEF Bit
<1>2. Bits(p, s) \in Nat /\ Bits(q, s) \in Nat
  BY <1>1 DEF Bits
<1>3. inode[s].count >= Bits(p, s) + Bits(q, s)
  BY TwoHolders
<1>4. inode[s].count \in Nat
  BY DEF Typed, Inode
<1>5. Bits(q, s) = 0
  BY <1>2, <1>3, <1>4
<1> QED
  BY <1>1, <1>5 DEF Bits, Bit

\* Whoever holds a slot counts.
LEMMA UsersOfOne ==
  ASSUME NEW g, NEW p \in Procs, NEW s
  PROVE  Users(g, s) \in Nat /\ Users(g, s) >= Bit(g[p], s)
<1> DEFINE G == {r \in Procs : g[r] = s}
<1>1. IsFiniteSet(G)
  <2>1. IsFiniteSet(Procs) /\ G \subseteq Procs
    BY InodesAssumption
  <2> QED
    BY <2>1, FS_Subset
<1>2. Cardinality(G) \in Nat /\ (Cardinality(G) = 0 <=> G = {})
  BY <1>1, FS_CardinalityType, FS_EmptySet
<1>3. g[p] = s => G # {}
  OBVIOUS
<1> HIDE DEF G
<1>4. Cardinality(G) \in Nat /\ Cardinality(G) >= Bit(g[p], s)
  BY <1>2, <1>3 DEF Bit
<1> QED
  BY <1>4 DEF Users, G

\* A slot counts at least the references of one process.
LEMMA HolderCounts ==
  ASSUME Typed, Counts, NEW p \in Procs, NEW s \in Slots
  PROVE  inode[s].count \in Nat /\ Bits(p, s) \in 0..3 /\ inode[s].count >= Bits(p, s)
<1> DEFINE u == Users(FileSlots, s)
           v == Users(Owns, s)
           w == Users(Belows, s)
<1>1. u \in Nat /\ u >= Bit(file[p].slot, s)
  BY UsersOfOne, RefsAre
<1>2. v \in Nat /\ v >= Bit(Own(proc[p]), s)
  BY UsersOfOne, RefsAre
<1>3. w \in Nat /\ w >= Bit(Below(proc[p]), s)
  BY UsersOfOne, RefsAre
<1>4. inode[s].count = u + v + w
  BY DEF Counts
<1> HIDE DEF u, v, w
<1>5. \A x : Bit(x, s) \in {0, 1}
  BY DEF Bit
<1> QED
  BY <1>1, <1>2, <1>3, <1>4, <1>5 DEF Bits

\* Counts stay right when a count changes with the references of the process.
LEMMA CountsMove ==
  ASSUME Typed, Counts, Typed', NEW p \in Procs,
         \A q \in Procs \ {p} : proc'[q] = proc[q] /\ file'[q] = file[q],
         \A s \in Slots : inode'[s].count - Bits(p, s)' = inode[s].count - Bits(p, s)
  PROVE  Counts'
<1> SUFFICES ASSUME NEW s \in Slots
             PROVE  inode'[s].count = Users(FileSlots', s) + Users(Owns', s) + Users(Belows', s)
  BY DEF Counts, Users
<1> DEFINE u == Users(FileSlots, s)
           v == Users(Owns, s)
           w == Users(Belows, s)
           u1 == Users(FileSlots', s)
           v1 == Users(Owns', s)
           w1 == Users(Belows', s)
<1>0. /\ \A q \in Procs : FileSlots[q] = file[q].slot /\ Owns[q] = Own(proc[q]) /\ Belows[q] = Below(proc[q])
      /\ \A q \in Procs : FileSlots'[q] = file'[q].slot /\ Owns'[q] = Own(proc'[q]) /\ Belows'[q] = Below(proc'[q])
  BY DEF FileSlots, Owns, Belows, Own, Below
<1>a. PICK F, F1, O, O1, B, B1 :
        /\ F = FileSlots /\ F1 = FileSlots' /\ O = Owns /\ O1 = Owns' /\ B = Belows /\ B1 = Belows'
  OBVIOUS
<1>b. \A q \in Procs \ {p} : F1[q] = F[q] /\ O1[q] = O[q] /\ B1[q] = B[q]
  BY <1>0, <1>a
<1>1. u \in Nat /\ u1 \in Nat /\ u1 - Bit(file'[p].slot, s) = u - Bit(file[p].slot, s)
  <2>0. OnlyOf(p, F, F1)
    BY <1>b DEF OnlyOf
  <2>1. Users(F1, s) - Bit(F1[p], s) = Users(F, s) - Bit(F[p], s) /\ Users(F, s) \in Nat /\ Users(F1, s) \in Nat
    BY <2>0, UsersMove
  <2> QED
    BY <1>0, <1>a, <2>1
<1>2. v \in Nat /\ v1 \in Nat /\ v1 - Bit(Own(proc'[p]), s) = v - Bit(Own(proc[p]), s)
  <2>0. OnlyOf(p, O, O1)
    BY <1>b DEF OnlyOf
  <2>1. Users(O1, s) - Bit(O1[p], s) = Users(O, s) - Bit(O[p], s) /\ Users(O, s) \in Nat /\ Users(O1, s) \in Nat
    BY <2>0, UsersMove
  <2> QED
    BY <1>0, <1>a, <2>1
<1>3. w \in Nat /\ w1 \in Nat /\ w1 - Bit(Below(proc'[p]), s) = w - Bit(Below(proc[p]), s)
  <2>0. OnlyOf(p, B, B1)
    BY <1>b DEF OnlyOf
  <2>1. Users(B1, s) - Bit(B1[p], s) = Users(B, s) - Bit(B[p], s) /\ Users(B, s) \in Nat /\ Users(B1, s) \in Nat
    BY <2>0, UsersMove
  <2> QED
    BY <1>0, <1>a, <2>1
<1>4. inode[s].count = u + v + w
  BY DEF Counts
<1>5. inode[s].count \in Nat /\ inode'[s].count \in Nat
  BY DEF Typed, Inode
<1>6. \A x : Bit(x, s) \in {0, 1}
  BY DEF Bit
<1>7. /\ Bits(p, s) = Bit(file[p].slot, s) + Bit(Own(proc[p]), s) + Bit(Below(proc[p]), s)
      /\ Bits(p, s)' = Bit(file'[p].slot, s) + Bit(Own(proc'[p]), s) + Bit(Below(proc'[p]), s)
  BY DEF Bits, Bit, Own, Below
<1>8. inode'[s].count - Bits(p, s)' = inode[s].count - Bits(p, s)
  OBVIOUS
<1> HIDE DEF u, v, w, u1, v1, w1
<1>9. inode'[s].count = u1 + v1 + w1
  BY <1>1, <1>2, <1>3, <1>4, <1>5, <1>6, <1>7, <1>8
<1> QED
  BY <1>9 DEF u1, v1, w1

(* Steps that keep the invariant *)

\* The references of a process in state f, with an open file at slot x
BitsOf(x, f, s) == Bit(x, s) + Bit(Own(f), s) + Bit(Below(f), s)

\* Everything but the processes.
Tables ==
  /\ inode \in [Slots -> Inode] /\ last_inode \in Slots
  /\ d_inode \in [Numbers -> [nlinks : Nat, zone : 0..NZones]]
  /\ imap \subseteq Numbers
  /\ dir \in [Entries -> [name : Names \cup {0}, ino : 0..NInodes]]
  /\ file \in [Procs -> [slot : SlotOr0, num : 0..NInodes]]
  /\ calls \in Workloads

\* The process that f describes may run.
Fits(f) ==
  /\ f \in Process
  /\ StackFits(f)
  /\ f.at \in HasSlot => f.ip \in Slots
  /\ f.at \in Searches => f.empty \in Slots
  /\ f.at \in Searches \cup {"open_inode", "link_inode"} => f.nr # 0
  /\ f.at = "open_done" => f.op = "creat"
  /\ f.at \in {"open_found", "unlink_found", "link_found", "open_inode", "link_inode"} => f.ip = 0

\* What Goto() makes of f
Stays(f) == IF f.at = "user" THEN AtUser ELSE f

\* A slot changes hands only by who holds all of it, and its count with the references.
Moved(p, f) ==
  \A s \in Slots :
    /\ inode'[s].num = inode[s].num \/ inode[s].count <= Bits(p, s)
    /\ inode'[s].count = inode[s].count \/ Bits(p, s) >= 1 \/ inode[s].num # 0 \/ inode[s].count = 0
    /\ inode'[s].count - BitsOf(file'[p].slot, f, s) = inode[s].count - Bits(p, s)

\* What a process at user level forgets when its call ends holds nothing.
LEMMA StaysFits ==
  ASSUME NEW f, Fits(f)
  PROVE  /\ Stays(f) \in Process /\ Shape(Stays(f))
         /\ Own(Stays(f)) = Own(f) /\ Below(Stays(f)) = Below(f) /\ Empty(Stays(f)) = Empty(f)
         /\ Stays(f).at = f.at
<1>1. CASE f.at # "user"
  BY <1>1 DEF Stays, Fits, Shape
<1>2. CASE f.at = "user"
  <2>1. f.stack = <<>>
    BY <1>2 DEF Fits, StackFits
  <2>2. Stays(f) = AtUser
    BY <1>2 DEF Stays
  <2>3. /\ Own(f) = 0 /\ Below(f) = 0 /\ Empty(f) = 0
    BY <1>2, <2>1 DEF Own, Below, Empty, Counted, Searches
  <2>4. AtUser.at = "user" /\ AtUser.stack = <<>>
    BY DEF AtUser
  <2>5. /\ Own(AtUser) = 0 /\ Below(AtUser) = 0 /\ Empty(AtUser) = 0
    BY <2>4 DEF Own, Below, Empty, Counted, Searches
  <2>6. AtUser \in Process
    <3>1. <<>> \in Seq([at : Labels, ip : SlotOr0])
      BY EmptySeq
    <3>2. 0 \in SlotOr0 /\ 0 \in 0..NInodes /\ 0 \in 0..NZones /\ 0 \in 0..DirSize
      BY InodesAssumption, FilesAssumption DEF SlotOr0
    <3>3. "user" \in Labels
      BY DEF Labels, Yields
    <3> QED
      BY <3>1, <3>2, <3>3 DEF Process, AtUser, Operation
  <2>7. Shape(AtUser)
    BY <2>4 DEF Shape, StackFits, HasSlot, Counted, Searches
  <2> QED
    BY <1>2, <2>2, <2>3, <2>4, <2>5, <2>6, <2>7
<1> QED
  BY <1>1, <1>2

\* What a process holds is a slot, or nothing.
LEMMA HoldsAre ==
  ASSUME NEW f \in Process
  PROVE  Own(f) \in SlotOr0 /\ Below(f) \in SlotOr0
<1>1. 0 \in SlotOr0
  BY SlotsAre
<1>2. f.ip \in SlotOr0 /\ f.empty \in SlotOr0 /\ f.stack \in Seq([at : Labels, ip : SlotOr0])
  BY DEF Process
<1>3. f.stack # <<>> => Head(f.stack) \in [at : Labels, ip : SlotOr0]
  BY <1>2, HeadTailProperties
<1>4. f.stack # <<>> => Head(f.stack).ip \in SlotOr0
  BY <1>3
<1> HIDE DEF SlotOr0
<1> QED
  BY <1>1, <1>2, <1>4 DEF Own, Below

\* p runs at a label, by itself.
LEMMA GotoIs ==
  ASSUME IInv, NEW p \in Procs, NEW label, At(p, label), NEW f, Goto(p, f), Fits(f)
  PROVE  /\ proc' = [proc EXCEPT ![p] = Stays(f)] /\ panic = "" /\ panic' = ""
         /\ proc'[p] = Stays(f)
         /\ \A q \in Procs \ {p} : proc'[q] = proc[q] /\ proc[q].at \in Asleep
         /\ f.at \in Asleep \/ cpu' = p
<1>1. proc' = [proc EXCEPT ![p] = Stays(f)] /\ panic = "" /\ panic' = ""
  BY DEF Goto, Stays, At
<1>2. proc \in [Procs -> Process]
  BY DEF IInv, Typed
<1>3. proc'[p] = Stays(f) /\ \A q \in Procs \ {p} : proc'[q] = proc[q]
  BY <1>1, <1>2
<1>4. \A q \in Procs \ {p} : proc[q].at \in Asleep
  <2>1. cpu \in {p, Nobody}
    BY DEF At
  <2> QED
    BY <1>1, <2>1, InodesAssumption DEF IInv, Runs
<1>5. f.at \in Asleep \/ cpu' = p
  BY DEF Goto, Blocked, Asleep
<1> QED
  BY <1>1, <1>3, <1>4, <1>5

\* What the others hold stays as it is.
LEMMA OthersHold ==
  ASSUME IInv, NEW p \in Procs, NEW f, Moved(p, f), NEW q \in Procs \ {p},
         proc'[q] = proc[q], file'[q] = file[q]
  PROVE  Holding(proc[q])' /\ Opens(q)'
<1> DEFINE o == Own(proc[q])
           b == Below(proc[q])
           e == Empty(proc[q])
           x == file[q].slot
<1>1. Holding(proc[q]) /\ Opens(q) /\ Shape(proc[q])
  BY DEF IInv, Held
<1>2. o \in SlotOr0 /\ b \in SlotOr0 /\ x \in SlotOr0
  <2>1. proc[q] \in Process /\ file[q].slot \in SlotOr0
    BY DEF IInv, Typed
  <2>2. o \in SlotOr0 /\ b \in SlotOr0
    BY <2>1, HoldsAre
  <2> QED
    BY <2>1, <2>2
<1>3. e # 0 => e = o
  BY <1>1 DEF Empty, Own, Shape, Searches, Counted
<1>4. proc[q].at \in Kept => proc[q].ip = o /\ o # 0
  BY <1>1, SlotsAre DEF Own, Kept, Shape, HasSlot, Counted
<1>5. \A s \in Slots : s \in {o, b, x} => inode'[s].num = inode[s].num
  <2> TAKE s \in Slots
  <2>1. inode[s].count <= Bits(p, s) => s \notin {x, o, b}
    BY Alone DEF IInv
  <2> QED
    BY <2>1 DEF Moved
<1>6. e # 0 => inode'[e].count = inode[e].count
  <2> HAVE e # 0
  <2>1. e = o /\ e \in Slots /\ inode[e].num = 0 /\ inode[e].count = 1
    BY <1>1, <1>2, <1>3, SlotsAre DEF Holding
  <2>2. Bits(q, e) >= 1 /\ Bits(p, e) \in 0..3
    <3>1. \A y : Bit(y, e) \in {0, 1}
      BY DEF Bit
    <3>2. Bit(o, e) = 1
      BY <2>1 DEF Bit
    <3>3. Bits(q, e) = Bit(x, e) + Bit(o, e) + Bit(b, e)
      BY DEF Bits
    <3>4. Bits(q, e) >= 1
      <4> HIDE DEF e, o, x, b
      <4> QED
        BY <3>1, <3>2, <3>3
    <3>5. Bits(p, e) \in 0..3
      BY <2>1, HolderCounts DEF IInv
    <3> QED
      BY <3>4, <3>5
  <2>3. inode[e].count >= Bits(p, e) + Bits(q, e) /\ Bits(q, e) \in 0..3
    BY <2>1, TwoHolders, HolderCounts DEF IInv
  <2>4. Bits(p, e) = 0
    BY <2>1, <2>2, <2>3
  <2> QED
    BY <2>1, <2>4 DEF Moved
<1>7. /\ Own(proc[q])' = o /\ Below(proc[q])' = b /\ Empty(proc[q])' = e /\ file'[q].slot = x
  BY DEF Own, Below, Empty
<1>8. Opens(q)'
  <2>1. x # 0 => inode'[x].num = file[q].num /\ file[q].num # 0
    BY <1>1, <1>2, <1>5, SlotsAre DEF Opens
  <2> QED
    BY <1>7, <2>1 DEF Opens
<1>9. Holding(proc[q])'
  <2>1. e # 0 => inode'[e].num = 0 /\ inode'[e].count = 1
    BY <1>1, <1>2, <1>3, <1>5, <1>6, SlotsAre DEF Holding
  <2>2. o # 0 /\ e = 0 => inode'[o].num # 0
    BY <1>1, <1>2, <1>5, SlotsAre DEF Holding
  <2>3. b # 0 => inode'[b].num # 0
    BY <1>1, <1>2, <1>5, SlotsAre DEF Holding
  <2>4. proc[q].at \in Kept => inode'[proc[q].ip].num = proc[q].nr
    BY <1>1, <1>2, <1>4, <1>5, SlotsAre DEF Holding
  <2>5. b # 0 /\ Head(proc[q].stack).at \in Kept => inode'[b].num = proc[q].nr
    BY <1>1, <1>2, <1>5, SlotsAre DEF Holding
  <2> HIDE DEF o, b, e, x
  <2> QED
    BY <1>7, <2>1, <2>2, <2>3, <2>4, <2>5 DEF Holding
<1> QED
  BY <1>8, <1>9

\* Shapes are of processes alone.
LEMMA ShapePrimed ==
  ASSUME NEW q, Shape(proc'[q])
  PROVE  Shape(proc[q])'
BY DEF Shape, StackFits, FindStack, AddStack, DirStack, EmptyStack, GetStack, PutStack, UserStack,
       TruncateStack, WriteStack, BlockStack

\* A step of p that moves references.
LEMMA Moves ==
  ASSUME IInv, NEW p \in Procs, NEW label, At(p, label), NEW f, Goto(p, f), Fits(f), Tables', Moved(p, f),
         \A q \in Procs \ {p} : file'[q] = file[q],
         Holding(Stays(f))', Opens(p)',
         Finds(f)', f.op \in {"open", "creat"} /\ f.at # "user" => file'[p].slot = 0
  PROVE  IInv'
<1>1. /\ proc' = [proc EXCEPT ![p] = Stays(f)] /\ panic = "" /\ panic' = ""
      /\ proc'[p] = Stays(f)
      /\ \A q \in Procs \ {p} : proc'[q] = proc[q] /\ proc[q].at \in Asleep
      /\ f.at \in Asleep \/ cpu' = p
  BY GotoIs
<1>2. /\ Stays(f) \in Process /\ Shape(Stays(f))
      /\ Own(Stays(f)) = Own(f) /\ Below(Stays(f)) = Below(f) /\ Empty(Stays(f)) = Empty(f)
      /\ Stays(f).at = f.at
  BY StaysFits
<1>3. Typed'
  BY <1>1, <1>2 DEF Tables, Typed, IInv
<1>4. ASSUME NEW q \in Procs PROVE Shape(proc[q])' /\ Finds(proc[q])' /\ OpensOnce(q)'
  <2>1. CASE q = p
    <3>1. Shape(proc[q])'
      BY <1>1, <1>2, <2>1, ShapePrimed
    <3>2. Finds(proc[q])'
      <4>1. CASE f.at = "user"
        BY <1>1, <1>2, <2>1, <4>1 DEF Finds
      <4>2. CASE f.at # "user"
        <5>1. proc'[p] = f
          BY <1>1, <4>2 DEF Stays
        <5> QED
          BY <5>1, <2>1 DEF Finds
      <4> QED
        BY <4>1, <4>2
    <3>3. OpensOnce(q)'
      <4>1. CASE f.at = "user"
        <5>1. proc'[q] = AtUser
          BY <1>1, <2>1, <4>1 DEF Stays
        <5>2. AtUser.op = "none"
          BY DEF AtUser
        <5>3. proc'[q].op \notin {"open", "creat"}
          BY <5>1, <5>2
        <5> QED
          BY <5>3 DEF OpensOnce
      <4>2. CASE f.at # "user"
        BY <1>1, <2>1, <4>2 DEF OpensOnce, Stays
      <4> QED
        BY <4>1, <4>2
    <3> QED
      BY <3>1, <3>2, <3>3
  <2>2. CASE q # p
    <3>1. proc'[q] = proc[q] /\ file'[q] = file[q] /\ proc[q].at \in Asleep
      BY <1>1, <2>2
    <3>2. Shape(proc[q]) /\ OpensOnce(q)
      BY DEF IInv
    <3>3. Shape(proc[q])'
      BY <3>1, <3>2, ShapePrimed
    <3>4. Finds(proc[q])'
      BY <3>1 DEF Finds, Asleep, Yields, Waits
    <3>5. OpensOnce(q)'
      BY <3>1, <3>2 DEF OpensOnce
    <3> QED
      BY <3>3, <3>4, <3>5
  <2> QED
    BY <2>1, <2>2
<1>5. Runs'
  <2> SUFFICES ASSUME NEW q \in Procs PROVE proc'[q].at \in Asleep \/ cpu' = q
    BY DEF Runs, Asleep, Yields, Waits
  <2> QED
    BY <1>1, <1>2
<1>6. Held'
  <2> SUFFICES ASSUME NEW q \in Procs PROVE Holding(proc[q])' /\ Opens(q)'
    BY DEF Held, Holding, Opens
  <2>1. CASE q = p
    <3>1. Holding(proc[q])'
      BY <1>1, <2>1 DEF Holding, Own, Below, Empty
    <3> QED
      BY <2>1, <3>1
  <2>2. CASE q # p
    BY <1>1, <2>2, OthersHold
  <2> QED
    BY <2>1, <2>2
<1>7. Counts'
  <2>1. \A q \in Procs \ {p} : proc'[q] = proc[q] /\ file'[q] = file[q]
    BY <1>1
  <2>2. \A s \in Slots : inode'[s].count - Bits(p, s)' = inode[s].count - Bits(p, s)
    <3> TAKE s \in Slots
    <3>1. Own(proc'[p]) = Own(f) /\ Below(proc'[p]) = Below(f)
      BY <1>1, <1>2
    <3>2. Own(proc[p])' = Own(f) /\ Below(proc[p])' = Below(f)
      BY <3>1 DEF Own, Below
    <3>3. Bits(p, s)' = BitsOf(file'[p].slot, f, s)
      BY <3>2 DEF Bits, BitsOf, Bit
    <3> QED
      BY <3>3 DEF Moved
  <2> QED
    BY <1>3, <2>1, <2>2, CountsMove DEF IInv
<1> QED
  BY <1>1, <1>3, <1>4, <1>5, <1>6, <1>7 DEF IInv

\* The inode p is to bring is the one it holds.
Keeps(f) ==
  /\ f.at \in Kept => inode[f.ip].num = f.nr
  /\ Below(f) # 0 /\ Head(f.stack).at \in Kept => inode[Below(f)].num = f.nr

\* The same references, wherever they are kept.
SameRefs(f, g) ==
  /\ Empty(g) = Empty(f)
  /\ \/ Own(g) = Own(f) /\ Below(g) = Below(f)
     \/ Own(g) = Below(f) /\ Below(g) = Own(f) /\ Empty(f) = 0

\* What holders see of the inodes stays.
SameHeld == \A s \in Slots : inode'[s].num = inode[s].num /\ inode'[s].count = inode[s].count

\* A step that takes and gives back nothing.
LEMMA Quiet ==
  ASSUME IInv, NEW p \in Procs, NEW label, At(p, label), NEW f, Goto(p, f), Fits(f), Tables', SameHeld,
         SameRefs(proc[p], f), Keeps(f), file' = file,
         Finds(f)', f.op \in {"open", "creat"} /\ f.at # "user" => file[p].slot = 0
  PROVE  IInv'
<1> DEFINE o == Own(f)
           b == Below(f)
           g == proc[p]
<1>1. Moved(p, f)
  <2> SUFFICES ASSUME NEW s \in Slots
               PROVE  BitsOf(file[p].slot, f, s) = Bits(p, s)
    <3>1. ASSUME NEW s \in Slots PROVE BitsOf(file[p].slot, f, s) = Bits(p, s)
      OBVIOUS
    <3>2. ASSUME NEW s \in Slots
          PROVE  /\ inode'[s].num = inode[s].num /\ inode'[s].count = inode[s].count
                 /\ inode'[s].count - BitsOf(file'[p].slot, f, s) = inode[s].count - Bits(p, s)
      BY <3>1 DEF SameHeld
    <3> QED
      BY <3>2 DEF Moved
  <2>1. \A x : Bit(x, s) \in {0, 1}
    BY DEF Bit
  <2>2. /\ BitsOf(file[p].slot, f, s) = Bit(file[p].slot, s) + Bit(o, s) + Bit(b, s)
        /\ Bits(p, s) = Bit(file[p].slot, s) + Bit(Own(g), s) + Bit(Below(g), s)
    BY DEF BitsOf, Bits
  <2>3. \/ o = Own(g) /\ b = Below(g)
        \/ o = Below(g) /\ b = Own(g)
    BY DEF SameRefs
  <2> HIDE DEF o, b, g
  <2> QED
    BY <2>1, <2>2, <2>3
<1>2. /\ Stays(f) \in Process /\ Shape(Stays(f))
      /\ Own(Stays(f)) = Own(f) /\ Below(Stays(f)) = Below(f) /\ Empty(Stays(f)) = Empty(f)
      /\ Stays(f).at = f.at
  BY StaysFits
<1>3. o \in SlotOr0 /\ b \in SlotOr0
  BY HoldsAre DEF Fits
<1>4. Empty(f) # 0 => Empty(f) = o
  BY DEF Empty, Own, Fits, Searches, Counted
<1>5. Holding(g) /\ Opens(p)
  BY DEF IInv, Held
<1>6. /\ Empty(f) # 0 => inode'[Empty(f)].num = 0 /\ inode'[Empty(f)].count = 1
      /\ o # 0 /\ Empty(f) = 0 => inode'[o].num # 0
      /\ b # 0 => inode'[b].num # 0
  <2>1. /\ Empty(f) # 0 => inode[Empty(f)].num = 0 /\ inode[Empty(f)].count = 1
        /\ o # 0 /\ Empty(f) = 0 => inode[o].num # 0
        /\ b # 0 => inode[b].num # 0
    BY <1>5 DEF Holding, SameRefs
  <2> HIDE DEF o, b
  <2> QED
    BY <2>1, <1>3, <1>4, SlotsAre DEF SameHeld
<1>7. f.at \in Kept => inode'[f.ip].num = f.nr
  <2>1. f.at \in Kept => f.ip \in Slots
    BY DEF Fits, Kept, HasSlot, Counted
  <2> QED
    BY <2>1 DEF SameHeld, Keeps
<1>8. b # 0 /\ Head(f.stack).at \in Kept => inode'[b].num = f.nr
  BY <1>3, SlotsAre DEF SameHeld, Keeps
<1>9. Holding(Stays(f))'
  <2> HIDE DEF o, b
  <2>1. CASE f.at = "user"
    <3>1. Stays(f) = AtUser /\ o = 0 /\ b = 0 /\ Empty(f) = 0
      BY <2>1 DEF Stays, Own, Below, Empty, Fits, StackFits, Counted, Searches, o, b
    <3>2. AtUser.at = "user" /\ AtUser.stack = <<>>
      BY DEF AtUser
    <3>3. Own(AtUser) = 0 /\ Below(AtUser) = 0 /\ Empty(AtUser) = 0
      BY <3>2 DEF Own, Below, Empty, Counted, Searches
    <3>4. Holding(AtUser)'
      BY <3>2, <3>3 DEF Holding, Own, Below, Empty, Kept
    <3> QED
      BY <3>1, <3>4 DEF Holding, Own, Below, Empty, Stays
  <2>2. CASE f.at # "user"
    <3>1. Stays(f) = f
      BY <2>2 DEF Stays
    <3> QED
      BY <3>1, <1>6, <1>7, <1>8 DEF Holding, o, b, Own, Below, Empty, Stays
  <2> QED
    BY <2>1, <2>2
<1>10. Opens(p)'
  <2>1. file \in [Procs -> [slot : SlotOr0, num : 0..NInodes]]
    BY DEF IInv, Typed
  <2> QED
    BY <1>5, <2>1, SlotsAre DEF Opens, SameHeld
<1> QED
  BY <1>1, <1>9, <1>10, Moves

(* The process that runs *)

\* The greatest of some numbers is one of them.
LEMMA MaxIn ==
  ASSUME NEW S \in SUBSET Nat, IsFiniteSet(S), S # {}
  PROVE  Max(S) \in S
<1> DEFINE Over(x) == {y \in S : y > x}
           T == {Over(x) : x \in S}
<1>1. T \subseteq FiniteSubsetsOf(S) /\ T # {}
  <2>1. T \subseteq SUBSET S /\ T # {}
    OBVIOUS
  <2>2. FiniteSubsetsOf(S) = SUBSET S
    BY FS_FiniteSubsetsOfFinite, Zenon
  <2> QED BY <2>1, <2>2, Zenon
<1>2. PICK m \in T : \A n \in T : ~(<<n, m>> \in StrictSubsetOrdering(S))
  BY <1>1, FS_StrictSubsetOrderingWellFounded, WFMin
<1>3. PICK x \in S : m = Over(x)
  OBVIOUS
<1>4. \A y \in S : x >= y
  <2>1. SUFFICES ASSUME NEW y \in S, ~(x >= y) PROVE FALSE
    OBVIOUS
  <2>2. y \in Over(x) /\ y \notin Over(y)
    BY <2>1
  <2>4. \A z \in S : z > y => z > x
    BY <2>1
  <2>5. Over(y) \subseteq Over(x)
    BY <2>4
  <2>3. <<Over(y), Over(x)>> \in StrictSubsetOrdering(S)
    BY <2>2, <2>5, Zenon DEF StrictSubsetOrdering
  <2> QED BY <1>2, <1>3, <2>3
<1> QED BY <1>4 DEF Max

\* The least of some numbers is one of them.
LEMMA MinIn ==
  ASSUME NEW S \in SUBSET Nat, IsFiniteSet(S), S # {}
  PROVE  Min(S) \in S
<1> DEFINE Under(x) == {y \in S : y < x}
           T == {Under(x) : x \in S}
<1>1. T \subseteq FiniteSubsetsOf(S) /\ T # {}
  <2>1. T \subseteq SUBSET S /\ T # {}
    OBVIOUS
  <2>2. FiniteSubsetsOf(S) = SUBSET S
    BY FS_FiniteSubsetsOfFinite, Zenon
  <2> QED BY <2>1, <2>2, Zenon
<1>2. PICK m \in T : \A n \in T : ~(<<n, m>> \in StrictSubsetOrdering(S))
  BY <1>1, FS_StrictSubsetOrderingWellFounded, WFMin
<1>3. PICK x \in S : m = Under(x)
  OBVIOUS
<1>4. \A y \in S : x =< y
  <2>1. SUFFICES ASSUME NEW y \in S, ~(x =< y) PROVE FALSE
    OBVIOUS
  <2>2. y \in Under(x) /\ y \notin Under(y)
    BY <2>1
  <2>4. \A z \in S : z < y => z < x
    BY <2>1
  <2>5. Under(y) \subseteq Under(x)
    BY <2>4
  <2>3. <<Under(y), Under(x)>> \in StrictSubsetOrdering(S)
    BY <2>2, <2>5, Zenon DEF StrictSubsetOrdering
  <2> QED BY <1>2, <1>3, <2>3
<1> QED BY <1>4 DEF Min

\* get_empty_inode() and iget() choose a slot of those they look for.
LEMMA SlotsSet ==
  ASSUME NEW S, S \subseteq Slots, S # {}
  PROVE  Min(S) \in S /\ Max(S) \in S
<1>1. IsFiniteSet(Slots)
  BY FS_Interval, InodesAssumption DEF Slots
<1>2. IsFiniteSet(S) /\ S \in SUBSET Nat
  BY <1>1, FS_Subset, SlotsAre
<1> QED
  BY <1>2, MinIn, MaxIn

\* What the invariant says of the process that runs.
LEMMA Here ==
  ASSUME IInv, NEW p \in Procs
  PROVE  /\ proc[p] \in Process /\ Shape(proc[p]) /\ Holding(proc[p]) /\ Opens(p)
         /\ Finds(proc[p]) /\ OpensOnce(p) /\ Tables /\ file[p].slot \in SlotOr0
BY DEF IInv, Typed, Tables, Held

\* A step that changes no table.
LEMMA Idle ==
  ASSUME IInv, inode' = inode, last_inode' = last_inode, d_inode' = d_inode, imap' = imap,
         dir' = dir, file' = file, calls' = calls
  PROVE  Tables' /\ SameHeld
BY DEF IInv, Typed, Tables, SameHeld, Inode

\* Only a panic of iput() would be one of the table of inodes.
LEMMA Panics ==
  ASSUME IInv, NEW p, NEW msg, Panic(p, msg), msg \notin {"", "iput: trying to free free inode"},
         inode' = inode, last_inode' = last_inode, d_inode' = d_inode, imap' = imap,
         dir' = dir, file' = file, calls' = calls
  PROVE  IInv'
<1>1. proc' = proc /\ cpu' = cpu /\ panic' = msg
  BY DEF Panic
<1>2. Typed'
  BY <1>1 DEF IInv, Typed
<1>3. \A q \in Procs : (Shape(proc[q]) /\ Finds(proc[q]) /\ OpensOnce(q))'
  <2> TAKE q \in Procs
  <2>1. Shape(proc[q]) /\ Finds(proc[q]) /\ OpensOnce(q)
    BY DEF IInv
  <2>2. Shape(proc[q])'
    <3>1. proc'[q] = proc[q] /\ Shape(proc[q])
      BY <1>1, <2>1
    <3> QED
      BY <3>1, ShapePrimed
  <2>3. Finds(proc[q])'
    BY <1>1, <2>1 DEF Finds
  <2>4. OpensOnce(q)'
    BY <1>1, <2>1 DEF OpensOnce
  <2> QED
    BY <2>2, <2>3, <2>4
<1>4. Held' /\ Counts' /\ Runs'
  <2>1. Held /\ Counts
    BY DEF IInv
  <2>2. Held'
    BY <1>1, <2>1 DEF Held, Holding, Opens, Own, Below, Empty
  <2>3. FileSlots' = FileSlots /\ Owns' = Owns /\ Belows' = Belows
    BY <1>1 DEF FileSlots, Owns, Belows, Own, Below
  <2>4. Counts'
    BY <1>1, <2>1, <2>3 DEF Counts, Users
  <2> QED
    BY <1>1, <2>2, <2>4 DEF Runs
<1> QED
  BY <1>1, <1>2, <1>3, <1>4 DEF IInv

\* Each slot the search looks at.
LEMMA NthIs ==
  ASSUME IInv, NEW i \in Slots
  PROVE  Nth(i) \in Slots
<1>1. last_inode \in Nat /\ i \in Nat \ {0} /\ NR_INODE \in Nat \ {0}
  <2>1. last_inode \in Slots
    BY DEF IInv, Typed
  <2> QED
    BY <2>1, InodesAssumption DEF Slots
<1> DEFINE x == last_inode + i - 1
<1>2. x \in Nat
  BY <1>1
<1> HIDE DEF x
<1>3. x % NR_INODE \in 0..NR_INODE - 1
  BY <1>1, <1>2
<1>4. (x % NR_INODE) + 1 \in 1..NR_INODE
  BY <1>1, <1>3
<1> QED
  BY <1>4 DEF Nth, x, Slots

\* Another label, and another slot.
LEMMA Goes ==
  ASSUME NEW g \in Process, NEW a \in Labels, NEW s \in SlotOr0
  PROVE  /\ LET f == [g EXCEPT !.at = a]
            IN  /\ f \in Process /\ f.at = a /\ f.ip = g.ip /\ f.stack = g.stack /\ f.nr = g.nr
                /\ f.op = g.op /\ f.empty = g.empty /\ f.de = g.de /\ f.blk = g.blk /\ f.name = g.name
         /\ LET f == [g EXCEPT !.at = a, !.ip = s]
            IN  /\ f \in Process /\ f.at = a /\ f.ip = s /\ f.stack = g.stack /\ f.nr = g.nr
                /\ f.op = g.op /\ f.empty = g.empty /\ f.de = g.de /\ f.blk = g.blk /\ f.name = g.name
BY DEF Process

\* The callers of get_empty_inode() hold nothing yet.
LEMMA EmptyBelow ==
  ASSUME NEW f, EmptyStack(f)
  PROVE  Below(f) = 0
BY Stacking, FrameIs DEF EmptyStack, Below, Counted

(* fs/inode.c: get_empty_inode(), iget(), read_inode() *)

\* get_empty_inode() chooses a slot without taking it, or panics when all are used.
LEMMA KeepsGetEmptyInode ==
  ASSUME IInv, NEW p \in Procs, get_empty_inode(p), UNCHANGED fileVars
  PROVE  IInv'
<1> DEFINE unused == {i \in Slots : Unused(i)}
           ready == {i \in Slots : Ready(i)}
           i == IF ready # {} THEN Min(ready) ELSE Max(unused)
<1>g. PICK g : g = proc[p]
  OBVIOUS
<1>0. At(p, "get_empty_inode") /\ g.at = "get_empty_inode" /\ dir' = dir /\ file' = file /\ calls' = calls
  BY <1>g DEF get_empty_inode, At, fileVars
<1>1. CASE unused = {}
  <2>1. Panic(p, "No free inodes in mem") /\ UNCHANGED inodeVars
    BY <1>1 DEF get_empty_inode
  <2> QED
    BY <1>0, <2>1, Panics DEF inodeVars
<1>2. CASE unused # {}
  <2>n. PICK n : n = Nth(i)
    OBVIOUS
  <2>f. PICK f : f = [g EXCEPT !.at = "gei_wait", !.ip = n]
    OBVIOUS
  <2>1. /\ last_inode' = IF ready # {} THEN n ELSE last_inode
        /\ UNCHANGED <<inode, d_inode, imap, zmap>>
        /\ Goto(p, f)
    BY <1>2, <1>g, <2>n, <2>f DEF get_empty_inode
  <2>2. i \in Slots
    <3>1. ready # {} => Min(ready) \in ready
      BY SlotsSet
    <3>2. Max(unused) \in unused
      BY <1>2, SlotsSet
    <3> QED
      BY <3>1, <3>2
  <2>3. n \in Slots
    BY <2>2, <2>n, NthIs
  <2>4. g \in Process /\ Shape(g) /\ Tables /\ OpensOnce(p)
    BY <1>g, Here
  <2>5. Tables' /\ SameHeld
    BY <1>0, <2>1, <2>3, <2>4 DEF Tables, SameHeld
  <2>6. /\ f \in Process /\ f.at = "gei_wait" /\ f.ip = n /\ f.stack = g.stack
        /\ f.nr = g.nr /\ f.op = g.op
    <3>1. n \in SlotOr0 /\ "gei_wait" \in Labels
      BY <2>3, SlotsAre DEF Labels, Waits
    <3> QED
      BY <2>4, <2>f, <3>1, Goes
  <2>a. EmptyStack(g) /\ EmptyStack(f)
    <3>1. EmptyStack(g)
      BY <1>0, <2>4 DEF Shape, StackFits
    <3> QED
      BY <3>1, <2>6 DEF EmptyStack
  <2>b. Below(g) = 0 /\ Below(f) = 0
    BY <2>a, EmptyBelow
  <2>7. Fits(f)
    BY <2>a, <2>3, <2>6 DEF Fits, StackFits, HasSlot, Searches, Counted, Top
  <2>8. SameRefs(g, f) /\ Keeps(f)
    BY <1>0, <2>6, <2>b DEF SameRefs, Keeps, Own, Empty, Counted, Searches, Kept
  <2>9. Finds(f)'
    BY <2>6 DEF Finds
  <2> QED
    BY <1>0, <1>g, <2>1, <2>4, <2>5, <2>6, <2>7, <2>8, <2>9, Quiet DEF OpensOnce
<1> QED
  BY <1>1, <1>2

\* One inode changes; what others may hold of it stays.
OneInode(s, r) == inode' = [inode EXCEPT ![s] = r]

\* The tables, when one inode changes.
LEMMA TablesKeep ==
  ASSUME IInv, NEW s \in Slots, NEW r \in Inode, OneInode(s, r),
         last_inode' = last_inode, d_inode' = d_inode, imap' \subseteq Numbers,
         dir' = dir, file' = file, calls' = calls
  PROVE  /\ Tables' /\ inode'[s] = r
         /\ \A t \in Slots \ {s} : inode'[t] = inode[t]
         /\ r.num = inode[s].num /\ r.count = inode[s].count => SameHeld
<1>1. inode \in [Slots -> Inode]
  BY DEF IInv, Typed
<1>2. inode' \in [Slots -> Inode] /\ inode'[s] = r /\ \A t \in Slots \ {s} : inode'[t] = inode[t]
  BY <1>1 DEF OneInode
<1>3. Tables'
  BY <1>2 DEF IInv, Typed, Tables
<1>4. r.num = inode[s].num /\ r.count = inode[s].count => SameHeld
  BY <1>2 DEF SameHeld
<1> QED
  BY <1>2, <1>3, <1>4

\* A cleared inode, free and taken.
LEMMA ZeroIs ==
  /\ ZeroInode \in Inode /\ ZeroInode.num = 0 /\ ZeroInode.count = 0
  /\ LET r == [ZeroInode EXCEPT !.count = 1] IN r \in Inode /\ r.num = 0 /\ r.count = 1
<1>1. 0 \in 0..NInodes /\ 0 \in 0..NZones /\ 0 \in Nat /\ 1 \in Nat
  BY InodesAssumption
<1>2. ZeroInode \in Inode /\ ZeroInode.num = 0 /\ ZeroInode.count = 0
  BY <1>1 DEF ZeroInode, Inode
<1> QED
  BY <1>1, <1>2 DEF Inode

\* The return of get_empty_inode() to iget() and to new_inode()
LEMMA BringsInode ==
  ASSUME NEW g \in Process, EmptyStack(g), NEW s \in Slots
  PROVE  \E f \in Process :
           /\ f = [ReturnsInode(g, s) EXCEPT !.empty = s]
           /\ f.empty = s /\ f.op = g.op /\ f.nr = g.nr
           /\ \/ f.at = "iget_search" /\ GetStack(f) /\ f.nr # 0
              \/ f.at = "new_inode" /\ f.ip = s /\ f.stack = <<Frame("open_new", 0)>>
           /\ Below(f) = 0
<1>1. 0 \in SlotOr0 /\ s \in SlotOr0 /\ "iget_search" \in Labels /\ "new_inode" \in Labels
  BY SlotsAre DEF Labels
<1>h. PICK h : h = ReturnsInode(g, s)
  OBVIOUS
<1>2. h \in Process /\ h.ip = s /\ h.nr = g.nr /\ h.op = g.op
                           /\ \/ h.at = "iget_search" /\ \E a \in Got : h.stack = <<Frame(a, 0)>> /\ h.nr # 0
                              \/ h.at = "new_inode" /\ h.stack = <<Frame("open_new", 0)>>
  <2>1. CASE \E a \in Got : g.stack = <<Frame("iget_search", 0), Frame(a, 0)>> /\ g.nr # 0
    <3>1. PICK a \in Got : g.stack = <<Frame("iget_search", 0), Frame(a, 0)>> /\ g.nr # 0
      BY <2>1
    <3>2. Returned(h, g, "iget_search", s, <<Frame(a, 0)>>)
      BY <1>1, <1>h, <3>1, ReturnFrom
    <3> QED
      BY <3>1, <3>2 DEF Returned
  <2>2. CASE g.stack = <<Frame("new_inode", 0), Frame("open_new", 0)>>
    <3>2. Returned(h, g, "new_inode", s, <<Frame("open_new", 0)>>)
      BY <1>1, <1>h, <2>2, ReturnFrom
    <3> QED
      BY <3>2 DEF Returned
  <2> QED
    BY <2>1, <2>2 DEF EmptyStack
<1> DEFINE f == [h EXCEPT !.empty = s]
<1>3. f \in Process /\ f.at = h.at /\ f.ip = h.ip /\ f.stack = h.stack /\ f.empty = s /\ f.op = h.op /\ f.nr = h.nr
  BY <1>1, <1>2 DEF Process
<1>4. f = [ReturnsInode(g, s) EXCEPT !.empty = s]
  BY <1>h
<1> HIDE DEF f
<1>5. Below(f) = 0
  BY <1>2, <1>3, Stacking, FrameIs DEF Below
<1> QED
  BY <1>2, <1>3, <1>4, <1>5 DEF GetStack

\* get_empty_inode() takes the slot only when its count is still 0 behind the
\* waits for i_lock and for write_inode(): nobody holds the inode that it clears.
LEMMA KeepsGetEmptyInodeLoop ==
  ASSUME IInv, NEW p \in Procs, get_empty_inode_loop(p), UNCHANGED fileVars
  PROVE  IInv'
<1>g. PICK g : g = proc[p]
  OBVIOUS
<1>s. PICK s : s = g.ip
  OBVIOUS
<1>0. /\ At(p, "gei_wait") /\ g.at = "gei_wait" /\ dir' = dir /\ file' = file /\ calls' = calls
      /\ last_inode' = last_inode /\ d_inode' = d_inode /\ imap' = imap
  BY <1>g DEF get_empty_inode_loop, At, fileVars
<1>1. g \in Process /\ Shape(g) /\ Tables /\ OpensOnce(p) /\ Opens(p) /\ file[p].slot \in SlotOr0
  BY <1>g, Here
<1>2. s \in Slots /\ EmptyStack(g) /\ Below(g) = 0
  <2>1. s \in Slots /\ EmptyStack(g)
    BY <1>s, <1>0, <1>1 DEF Shape, StackFits, HasSlot
  <2> QED
    BY <2>1, EmptyBelow
<1>3. CASE inode[s].dirt
  <2>f. PICK f : f = Calls(g, "write_inode", s, "gei_wait")
    OBVIOUS
  <2>1. inode' = inode /\ Goto(p, f)
    BY <1>3, <1>g, <1>s, <2>f DEF get_empty_inode_loop
  <2>2. Tables' /\ SameHeld
    BY <1>0, <2>1, Idle
  <2>3. /\ f \in Process /\ f.at = "write_inode" /\ f.ip = s
        /\ f.stack = <<Frame("gei_wait", s)>> \o g.stack /\ f.nr = g.nr /\ f.op = g.op
    <3>1. s \in SlotOr0 /\ "gei_wait" \in Labels /\ "write_inode" \in Labels
      BY <1>2, SlotsAre DEF Labels, Waits
    <3> QED
      BY <1>1, <1>s, <2>f, <3>1, CallIs
  <2>4. WriteStack(f) /\ Below(f) = 0
    <3>1. CASE g.stack = <<Frame("new_inode", 0), Frame("open_new", 0)>>
      <4>1. f.stack = <<Frame("gei_wait", s), Frame("new_inode", 0), Frame("open_new", 0)>>
        BY <2>3, <3>1, Pushing
      <4> QED
        BY <1>2, <4>1, Stacking, FrameIs DEF WriteStack, Below, Counted
    <3>2. CASE \E a \in Got : g.stack = <<Frame("iget_search", 0), Frame(a, 0)>> /\ g.nr # 0
      <4>1. PICK a \in Got : g.stack = <<Frame("iget_search", 0), Frame(a, 0)>> /\ g.nr # 0
        BY <3>2
      <4>2. f.stack = <<Frame("gei_wait", s), Frame("iget_search", 0), Frame(a, 0)>> /\ f.nr # 0
        BY <2>3, <4>1, Pushing
      <4> QED
        BY <1>2, <4>2, Stacking, FrameIs DEF WriteStack, Below, Counted
    <3> QED
      BY <1>2, <3>1, <3>2 DEF EmptyStack
  <2>5. Fits(f)
    BY <1>2, <2>3, <2>4 DEF Fits, StackFits, HasSlot, Searches, Counted, Top
  <2>6. SameRefs(g, f) /\ Keeps(f)
    BY <1>0, <1>2, <2>3, <2>4 DEF SameRefs, Keeps, Own, Empty, Counted, Searches, Kept
  <2>7. Finds(f)'
    BY <2>3 DEF Finds
  <2> QED
    BY <1>0, <1>1, <1>g, <2>1, <2>2, <2>3, <2>5, <2>6, <2>7, Quiet DEF OpensOnce
<1>4. CASE ~inode[s].dirt /\ inode[s].count # 0
  <2>f. PICK f : f = [g EXCEPT !.at = "get_empty_inode", !.ip = 0]
    OBVIOUS
  <2>1. inode' = inode /\ Goto(p, f)
    BY <1>4, <1>g, <1>s, <2>f DEF get_empty_inode_loop
  <2>2. Tables' /\ SameHeld
    BY <1>0, <2>1, Idle
  <2>3. /\ f \in Process /\ f.at = "get_empty_inode"
        /\ f.stack = g.stack /\ f.nr = g.nr /\ f.op = g.op
    <3>1. 0 \in SlotOr0 /\ "get_empty_inode" \in Labels
      BY SlotsAre DEF Labels
    <3> QED
      BY <1>1, <2>f, <3>1, Goes
  <2>4. EmptyStack(f) /\ Below(f) = 0
    <3>1. EmptyStack(f)
      BY <1>2, <2>3 DEF EmptyStack
    <3> QED
      BY <3>1, EmptyBelow
  <2>5. Fits(f)
    BY <2>3, <2>4 DEF Fits, StackFits, HasSlot, Searches, Counted, Top
  <2>6. SameRefs(g, f) /\ Keeps(f)
    BY <1>0, <1>2, <2>3, <2>4 DEF SameRefs, Keeps, Own, Empty, Counted, Searches, Kept
  <2>7. Finds(f)'
    BY <2>3 DEF Finds
  <2> QED
    BY <1>0, <1>1, <1>g, <2>1, <2>2, <2>3, <2>5, <2>6, <2>7, Quiet DEF OpensOnce
<1>5. CASE ~inode[s].dirt /\ inode[s].count = 0
  <2>f. PICK f \in Process :
           /\ f = [ReturnsInode(g, s) EXCEPT !.empty = s]
           /\ f.empty = s /\ f.op = g.op /\ f.nr = g.nr
           /\ \/ f.at = "iget_search" /\ GetStack(f) /\ f.nr # 0
              \/ f.at = "new_inode" /\ f.ip = s /\ f.stack = <<Frame("open_new", 0)>>
           /\ Below(f) = 0
    BY <1>1, <1>2, BringsInode
  <2>r. PICK r : r = [ZeroInode EXCEPT !.count = 1]
    OBVIOUS
  <2>1. OneInode(s, r) /\ Goto(p, f)
    BY <1>5, <1>g, <1>s, <2>f, <2>r DEF get_empty_inode_loop, OneInode
  <2>2. r \in Inode /\ r.num = 0 /\ r.count = 1
    BY <2>r, ZeroIs
  <2>3. /\ Tables' /\ inode'[s] = r
        /\ \A t \in Slots \ {s} : inode'[t] = inode[t]
    BY <1>0, <1>1, <1>2, <2>1, <2>2, TablesKeep DEF Tables
  <2>4. Own(f) = s /\ Empty(f) = s /\ Own(g) = 0
    BY <1>0, <2>f DEF Own, Empty, Counted, Searches
  <2>5. Fits(f)
    BY <1>2, <2>f DEF Fits, StackFits, HasSlot, Searches, Counted, Top
  <2>6. \A t \in Slots : Bits(p, t) = Bit(file[p].slot, t) /\ Bits(p, t) <= inode[t].count /\ inode[t].count \in Nat
    <3> TAKE t \in Slots
    <3>1. Bit(0, t) = 0 /\ Bit(file[p].slot, t) \in {0, 1}
      BY SlotsAre DEF Bit
    <3>2. Bits(p, t) = Bit(file[p].slot, t)
      BY <1>g, <1>2, <2>4, <3>1 DEF Bits
    <3> QED
      BY <3>2, HolderCounts DEF IInv
  <2>7. file[p].slot # s
    BY <1>2, <1>5, <2>6 DEF Bit
  <2>8. Moved(p, f)
    <3> SUFFICES ASSUME NEW t \in Slots
                 PROVE  /\ inode'[t].num = inode[t].num \/ inode[t].count <= Bits(p, t)
                        /\ inode'[t].count = inode[t].count \/ inode[t].count = 0
                        /\ inode'[t].count - BitsOf(file[p].slot, f, t) = inode[t].count - Bits(p, t)
      BY <1>0 DEF Moved
    <3>1. BitsOf(file[p].slot, f, t) = Bit(file[p].slot, t) + Bit(s, t) + Bit(0, t)
      BY <2>4, <2>f DEF BitsOf
    <3>2. Bit(file[p].slot, t) \in {0, 1} /\ Bit(0, t) = 0 /\ Bit(s, t) = IF s = t THEN 1 ELSE 0
      BY SlotsAre DEF Bit
    <3>3. CASE t = s
      BY <1>5, <2>2, <2>3, <2>6, <3>1, <3>2, <3>3
    <3>4. CASE t # s
      BY <2>3, <2>6, <3>1, <3>2, <3>4
    <3> QED
      BY <3>3, <3>4
  <2>9. Holding(f)'
    <3>1. f.at \notin Kept
      BY <2>f DEF Kept
    <3> QED
      BY <1>2, <2>2, <2>3, <2>4, <2>f, <3>1, SlotsAre DEF Holding, Own, Below, Empty
  <2>10. Opens(p)'
    BY <1>0, <1>1, <2>3, <2>7, SlotsAre DEF Opens
  <2>11. Finds(f)'
    BY <2>f DEF Finds
  <2>12. Stays(f) = f
    BY <2>f DEF Stays
  <2> QED
    BY <1>0, <1>1, <1>g, <2>1, <2>3, <2>5, <2>8, <2>9, <2>10, <2>11, <2>12, <2>f, Moves DEF OpensOnce
<1> QED
  BY <1>3, <1>4, <1>5

\* Behind get_empty_inode(): GetStack is one frame, on which nothing is held yet.
LEMMA GetBelow ==
  ASSUME NEW f, GetStack(f)
  PROVE  Below(f) = 0
BY Stacking, FrameIs DEF GetStack, Below

\* iget() gives the empty inode its number when no slot has the number.
LEMMA KeepsIgetSearch ==
  ASSUME IInv, NEW p \in Procs, iget_search(p), UNCHANGED fileVars
  PROVE  IInv'
<1>g. PICK g : g = proc[p]
  OBVIOUS
<1> DEFINE found == {s \in Slots : inode[s].num = g.nr}
<1>0. /\ At(p, "iget_search") /\ g.at = "iget_search" /\ dir' = dir /\ file' = file /\ calls' = calls
      /\ last_inode' = last_inode /\ d_inode' = d_inode /\ imap' = imap
  BY <1>g DEF iget_search, At, fileVars
<1>1. /\ g \in Process /\ Shape(g) /\ Tables /\ OpensOnce(p) /\ Opens(p) /\ file[p].slot \in SlotOr0
      /\ Holding(g)
  BY <1>g, Here
<1>2. /\ GetStack(g) /\ Below(g) = 0 /\ g.nr # 0 /\ g.empty \in Slots
      /\ Own(g) = g.empty /\ Empty(g) = g.empty /\ g.nr \in 0..NInodes
      /\ inode[g.empty].num = 0 /\ inode[g.empty].count = 1
  <2>1. GetStack(g) /\ g.nr # 0 /\ g.empty \in Slots
    BY <1>0, <1>1 DEF Shape, StackFits, HasSlot, Searches
  <2>2. Own(g) = g.empty /\ Empty(g) = g.empty
    BY <1>0 DEF Own, Empty, Counted, Searches
  <2>3. g.nr \in 0..NInodes
    BY <1>1 DEF Process
  <2>4. inode[g.empty].num = 0 /\ inode[g.empty].count = 1
    BY <1>1, <2>1, <2>2, SlotsAre DEF Holding
  <2> QED
    BY <2>1, <2>2, <2>3, <2>4, GetBelow
<1>3. CASE found # {}
  <2>n. PICK n : n = Min(found)
    OBVIOUS
  <2>f. PICK f : f = [g EXCEPT !.at = "iget_wait", !.ip = n]
    OBVIOUS
  <2>1. inode' = inode /\ Goto(p, f)
    BY <1>3, <1>g, <2>f, <2>n DEF iget_search
  <2>2. Tables' /\ SameHeld
    BY <1>0, <2>1, Idle
  <2>3. n \in Slots
    BY <1>3, <2>n, SlotsSet
  <2>4. /\ f \in Process /\ f.at = "iget_wait" /\ f.ip = n
        /\ f.stack = g.stack /\ f.nr = g.nr /\ f.op = g.op /\ f.empty = g.empty
    <3>1. n \in SlotOr0 /\ "iget_wait" \in Labels
      BY <2>3, SlotsAre DEF Labels, Waits
    <3> QED
      BY <1>1, <2>f, <3>1, Goes
  <2>5. GetStack(f) /\ Below(f) = 0
    <3>1. GetStack(f)
      BY <1>2, <2>4 DEF GetStack
    <3> QED
      BY <3>1, GetBelow
  <2>6. Fits(f)
    BY <1>2, <2>3, <2>4, <2>5 DEF Fits, StackFits, HasSlot, Searches, Counted, Top
  <2>7. SameRefs(g, f) /\ Keeps(f)
    BY <1>0, <1>2, <2>4, <2>5 DEF SameRefs, Keeps, Own, Empty, Counted, Searches, Kept
  <2>8. Finds(f)'
    BY <2>4 DEF Finds
  <2> QED
    BY <1>0, <1>1, <1>g, <2>1, <2>2, <2>4, <2>6, <2>7, <2>8, Quiet DEF OpensOnce
<1>4. CASE found = {}
  <2>s. PICK s \in Slots : s = g.empty
    BY <1>2
  <2>f. PICK f : f = [g EXCEPT !.at = "read_inode", !.ip = s]
    OBVIOUS
  <2>r. PICK r : r = [inode[s] EXCEPT !.num = g.nr]
    OBVIOUS
  <2>1. OneInode(s, r) /\ Goto(p, f)
    BY <1>4, <1>g, <2>s, <2>f, <2>r DEF iget_search, OneInode
  <2>2. r \in Inode /\ r.num = g.nr /\ r.count = 1
    <3>1. inode[s] \in Inode /\ inode[s].count = 1
      BY <1>1, <1>2, <2>s DEF Tables
    <3> QED
      BY <2>r, <1>2, <3>1 DEF Inode
  <2>3. /\ Tables' /\ inode'[s] = r
        /\ \A t \in Slots \ {s} : inode'[t] = inode[t]
    BY <1>0, <1>1, <2>1, <2>2, TablesKeep DEF Tables
  <2>4. /\ f \in Process /\ f.at = "read_inode" /\ f.ip = s
        /\ f.stack = g.stack /\ f.nr = g.nr /\ f.op = g.op /\ f.empty = g.empty
    <3>1. s \in SlotOr0 /\ "read_inode" \in Labels
      BY SlotsAre DEF Labels, Waits
    <3> QED
      BY <1>1, <2>f, <3>1, Goes
  <2>5. GetStack(f) /\ Below(f) = 0 /\ Own(f) = s /\ Empty(f) = 0
    <3>1. GetStack(f)
      BY <1>2, <2>4 DEF GetStack
    <3> QED
      BY <2>4, <3>1, GetBelow DEF Own, Empty, Counted, Searches
  <2>6. Fits(f)
    BY <2>4, <2>5 DEF Fits, StackFits, HasSlot, Searches, Counted, Top
  <2>7. \A t \in Slots : Bits(p, t) = BitsOf(file[p].slot, f, t) /\ Bits(p, t) \in 0..3
    BY <1>g, <1>2, <2>s, <2>5, HolderCounts DEF Bits, BitsOf, IInv
  <2>8. Bits(p, s) >= 1 /\ file[p].slot # s
    <3>1. Bits(p, s) = Bit(file[p].slot, s) + 1
      <4>1. Bit(s, s) = 1 /\ Bit(0, s) = 0 /\ Bit(file[p].slot, s) \in {0, 1}
        BY SlotsAre DEF Bit
      <4>2. Bits(p, s) = Bit(file[p].slot, s) + Bit(s, s) + Bit(0, s)
        BY <1>g, <1>2, <2>s DEF Bits
      <4> QED
        BY <4>1, <4>2
    <3>2. Bits(p, s) <= 1
      BY <1>2, <2>s, HolderCounts DEF IInv
    <3> QED
      BY <3>1, <3>2 DEF Bit
  <2>9. Moved(p, f)
    <3>1. inode'[s].count = inode[s].count /\ inode[s].count <= Bits(p, s)
      BY <1>2, <2>2, <2>3, <2>8, <2>7, <2>s
    <3> SUFFICES ASSUME NEW t \in Slots
                 PROVE  /\ inode'[t].num = inode[t].num \/ inode[t].count <= Bits(p, t)
                        /\ inode'[t].count = inode[t].count
      BY <1>0, <2>7 DEF Moved
    <3> QED
      BY <2>3, <3>1
  <2>10. Holding(f)'
    <3>1. Below(f)' = 0 /\ Own(f)' = s /\ Empty(f)' = 0
      BY <2>5 DEF Below, Own, Empty
    <3> QED
      BY <1>2, <2>2, <2>3, <2>4, <3>1 DEF Holding
  <2>11. Opens(p)'
    BY <1>0, <1>1, <2>3, <2>8, SlotsAre DEF Opens
  <2>12. Finds(f)' /\ Stays(f) = f
    BY <2>4 DEF Finds, Stays
  <2> QED
    BY <1>0, <1>1, <1>g, <2>1, <2>3, <2>4, <2>6, <2>9, <2>10, <2>11, <2>12, Moves DEF OpensOnce
<1> QED
  BY <1>3, <1>4

\* A reference counts one for its slot.
LEMMA BitIs ==
  ASSUME NEW s \in Slots, NEW x
  PROVE  Bit(x, s) \in {0, 1} /\ (Bit(x, s) = 1 <=> x = s) /\ Bit(0, s) = 0 /\ Bit(s, s) = 1
BY SlotsAre DEF Bit

\* iget() takes the inode it found when it still has the number, and iput() is
\* called for the empty one.
LEMMA KeepsIgetFound ==
  ASSUME IInv, NEW p \in Procs, iget_found(p), UNCHANGED fileVars
  PROVE  IInv'
<1>g. PICK g : g = proc[p]
  OBVIOUS
<1>0. /\ At(p, "iget_wait") /\ g.at = "iget_wait" /\ dir' = dir /\ file' = file /\ calls' = calls
      /\ last_inode' = last_inode /\ d_inode' = d_inode /\ imap' = imap
  BY <1>g DEF iget_found, At, fileVars
<1>1. /\ g \in Process /\ Shape(g) /\ Tables /\ OpensOnce(p) /\ Opens(p) /\ file[p].slot \in SlotOr0
      /\ Holding(g)
  BY <1>g, Here
<1>2. /\ GetStack(g) /\ Below(g) = 0 /\ g.nr # 0 /\ g.empty \in Slots /\ g.ip \in Slots
      /\ Own(g) = g.empty /\ Empty(g) = g.empty
      /\ inode[g.empty].num = 0 /\ inode[g.empty].count = 1
  <2>1. GetStack(g) /\ g.nr # 0 /\ g.empty \in Slots /\ g.ip \in Slots
    BY <1>0, <1>1 DEF Shape, StackFits, HasSlot, Searches
  <2>2. Own(g) = g.empty /\ Empty(g) = g.empty
    BY <1>0 DEF Own, Empty, Counted, Searches
  <2>3. inode[g.empty].num = 0 /\ inode[g.empty].count = 1
    BY <1>1, <2>1, <2>2, SlotsAre DEF Holding
  <2> QED
    BY <2>1, <2>2, <2>3, GetBelow
<1>3. CASE inode[g.ip].num # g.nr
  <2>f. PICK f : f = [g EXCEPT !.at = "iget_search"]
    OBVIOUS
  <2>1. inode' = inode /\ Goto(p, f)
    BY <1>3, <1>g, <2>f DEF iget_found
  <2>2. Tables' /\ SameHeld
    BY <1>0, <2>1, Idle
  <2>3. /\ f \in Process /\ f.at = "iget_search"
        /\ f.stack = g.stack /\ f.nr = g.nr /\ f.op = g.op /\ f.empty = g.empty
    <3>1. 0 \in SlotOr0 /\ "iget_search" \in Labels
      BY SlotsAre DEF Labels
    <3> QED
      BY <1>1, <2>f, <3>1, Goes
  <2>4. GetStack(f) /\ Below(f) = 0
    <3>1. GetStack(f)
      BY <1>2, <2>3 DEF GetStack
    <3> QED
      BY <3>1, GetBelow
  <2>5. Fits(f)
    BY <1>2, <2>3, <2>4 DEF Fits, StackFits, HasSlot, Searches, Counted, Top
  <2>6. SameRefs(g, f) /\ Keeps(f)
    BY <1>0, <1>2, <2>3, <2>4 DEF SameRefs, Keeps, Own, Empty, Counted, Searches, Kept
  <2>7. Finds(f)'
    BY <2>3 DEF Finds
  <2> QED
    BY <1>0, <1>1, <1>g, <2>1, <2>2, <2>3, <2>5, <2>6, <2>7, Quiet DEF OpensOnce
<1>4. CASE inode[g.ip].num = g.nr
  <2>s. PICK s \in Slots, e \in Slots : s = g.ip /\ e = g.empty
    BY <1>2
  <2>f. PICK f : f = TailCalls(g, "iput", e, s)
    OBVIOUS
  <2>r. PICK r : r = [inode[s] EXCEPT !.count = @ + 1]
    OBVIOUS
  <2>a. PICK a \in Got : g.stack = <<Frame(a, 0)>>
    BY <1>2 DEF GetStack
  <2>1. OneInode(s, r) /\ Goto(p, f)
    BY <1>4, <1>g, <2>s, <2>f, <2>r DEF iget_found, OneInode
  <2>2. /\ r \in Inode /\ r.num = g.nr /\ r.count = inode[s].count + 1 /\ inode[s].count \in Nat
        /\ inode[s].num = g.nr
    <3>1. inode[s] \in Inode /\ inode[s].num = g.nr
      BY <1>1, <1>4, <2>s DEF Tables
    <3> QED
      BY <2>r, <3>1 DEF Inode
  <2>3. /\ Tables' /\ inode'[s] = r
        /\ \A t \in Slots \ {s} : inode'[t] = inode[t]
    BY <1>0, <1>1, <2>1, <2>2, TablesKeep DEF Tables
  <2>4. /\ f \in Process /\ f.at = "iput" /\ f.ip = e
        /\ f.stack = <<Frame(a, s)>> /\ f.nr = g.nr /\ f.op = g.op
    <3>1. s \in SlotOr0 /\ e \in SlotOr0 /\ 0 \in SlotOr0 /\ "iput" \in Labels /\ a \in Labels
      BY SlotsAre DEF Labels, Waits, Got
    <3> QED
      BY <1>1, <2>a, <2>f, <3>1, TailCallIs
  <2>5. Below(f) = s /\ Own(f) = e /\ Empty(f) = e /\ Head(f.stack).at = a
    <3>1. Head(f.stack) = Frame(a, s) /\ f.stack # <<>>
      BY <2>4, Stacking
    <3>2. Head(f.stack).at = a /\ Head(f.stack).ip = s /\ a \in Counted /\ a # "user"
      BY <3>1, FrameIs DEF Got, Counted
    <3> QED
      BY <2>4, <3>1, <3>2 DEF Below, Own, Empty, Counted, Searches
  <2>6. Fits(f)
    <3>1. PutStack(f)
      BY <2>4 DEF PutStack
    <3> QED
      BY <2>4, <3>1 DEF Fits, StackFits, HasSlot, Searches, Counted, Top
  <2>7. s # e
    BY <1>2, <2>2, <2>s
  <2>8. Moved(p, f)
    <3> SUFFICES ASSUME NEW t \in Slots
                 PROVE  /\ inode'[t].num = inode[t].num
                        /\ inode'[t].count = inode[t].count \/ inode[t].num # 0
                        /\ inode'[t].count - BitsOf(file[p].slot, f, t) = inode[t].count - Bits(p, t)
      BY <1>0 DEF Moved
    <3>1. Bits(p, t) = Bit(file[p].slot, t) + Bit(e, t)
      <4>1. Bits(p, t) = Bit(file[p].slot, t) + Bit(e, t) + Bit(0, t)
        BY <1>g, <1>2, <2>s DEF Bits
      <4> QED
        BY <4>1, BitIs
    <3>2. BitsOf(file[p].slot, f, t) = Bit(file[p].slot, t) + Bit(e, t) + Bit(s, t)
      BY <2>5 DEF BitsOf
    <3>3. Bit(file[p].slot, t) \in {0, 1} /\ Bit(e, t) \in {0, 1} /\ Bit(s, t) = IF s = t THEN 1 ELSE 0
      BY DEF Bit
    <3>4. inode[t].count \in Nat
      BY HolderCounts DEF IInv
    <3> QED
      BY <1>2, <2>2, <2>3, <3>1, <3>2, <3>3, <3>4
  <2>9. Holding(f)'
    <3>1. Below(f)' = s /\ Own(f)' = e /\ Empty(f)' = e
      BY <2>5 DEF Below, Own, Empty
    <3>2. f.at \notin Kept
      BY <2>4 DEF Kept
    <3> QED
      BY <1>2, <2>s, <2>2, <2>3, <2>4, <2>7, <3>1, <3>2, SlotsAre DEF Holding
  <2>10. Opens(p)'
    BY <1>0, <1>1, <2>2, <2>3, SlotsAre DEF Opens
  <2>11. Finds(f)' /\ Stays(f) = f
    BY <2>4 DEF Finds, Stays
  <2> QED
    BY <1>0, <1>1, <1>g, <2>1, <2>3, <2>4, <2>6, <2>8, <2>9, <2>10, <2>11, Moves DEF OpensOnce
<1> QED
  BY <1>3, <1>4

\* read_inode() locks an inode that stays what it is.
LEMMA KeepsReadInode ==
  ASSUME IInv, NEW p \in Procs, read_inode(p), UNCHANGED fileVars
  PROVE  IInv'
<1>g. PICK g : g = proc[p]
  OBVIOUS
<1>0. /\ At(p, "read_inode") /\ g.at = "read_inode" /\ dir' = dir /\ file' = file /\ calls' = calls
      /\ last_inode' = last_inode /\ d_inode' = d_inode /\ imap' = imap
  BY <1>g DEF read_inode, At, fileVars
<1>1. /\ g \in Process /\ Shape(g) /\ Tables /\ OpensOnce(p) /\ Holding(g)
  BY <1>g, Here
<1>2. GetStack(g) /\ g.ip \in Slots
  BY <1>0, <1>1 DEF Shape, StackFits, HasSlot, Counted
<1>s. PICK s \in Slots : s = g.ip
  BY <1>2
<1>f. PICK f : f = [g EXCEPT !.at = "read_bread"]
  OBVIOUS
<1>r. PICK r : r = [inode[s] EXCEPT !.lock = TRUE]
  OBVIOUS
<1>3. OneInode(s, r) /\ Goto(p, f)
  BY <1>g, <1>s, <1>f, <1>r DEF read_inode, OneInode
<1>4. r \in Inode /\ r.num = inode[s].num /\ r.count = inode[s].count
  <2>1. inode[s] \in Inode
    BY <1>1 DEF Tables
  <2> QED
    BY <1>r, <2>1 DEF Inode
<1>5. Tables' /\ SameHeld
  BY <1>0, <1>1, <1>3, <1>4, TablesKeep DEF Tables
<1>6. /\ f \in Process /\ f.at = "read_bread" /\ f.ip = s
      /\ f.stack = g.stack /\ f.nr = g.nr /\ f.op = g.op
  <2>1. s \in SlotOr0 /\ "read_bread" \in Labels
    BY SlotsAre DEF Labels, Yields
  <2> QED
    BY <1>1, <1>s, <1>f, <2>1, Goes
<1>7. GetStack(f) /\ Below(f) = 0 /\ Below(g) = 0
  <2>1. GetStack(f)
    BY <1>2, <1>6 DEF GetStack
  <2> QED
    BY <2>1, <1>2, GetBelow
<1>8. Fits(f)
  BY <1>6, <1>7 DEF Fits, StackFits, HasSlot, Searches, Counted, Top
<1>9. SameRefs(g, f)
  BY <1>0, <1>s, <1>6, <1>7 DEF SameRefs, Own, Empty, Counted, Searches
<1>10. Keeps(f)
  BY <1>0, <1>1, <1>s, <1>6, <1>7 DEF Keeps, Holding, Kept
<1>11. Finds(f)'
  BY <1>6 DEF Finds
<1> QED
  BY <1>0, <1>1, <1>g, <1>3, <1>5, <1>6, <1>8, <1>9, <1>10, <1>11, Quiet DEF OpensOnce

\* read_inode() fills in what holders do not look at, and iget() is done.
LEMMA KeepsReadInodeEnd ==
  ASSUME IInv, NEW p \in Procs, read_inode_end(p), UNCHANGED fileVars
  PROVE  IInv'
<1>g. PICK g : g = proc[p]
  OBVIOUS
<1>0. /\ At(p, "read_bread") /\ g.at = "read_bread" /\ dir' = dir /\ file' = file /\ calls' = calls
      /\ last_inode' = last_inode /\ d_inode' = d_inode /\ imap' = imap
  BY <1>g DEF read_inode_end, At, fileVars
<1>1. /\ g \in Process /\ Shape(g) /\ Tables /\ OpensOnce(p) /\ Holding(g)
  BY <1>g, Here
<1>2. GetStack(g) /\ g.ip \in Slots
  BY <1>0, <1>1 DEF Shape, StackFits, HasSlot, Counted
<1>s. PICK s \in Slots : s = g.ip
  BY <1>2
<1>a. PICK a \in Got : g.stack = <<Frame(a, 0)>>
  BY <1>2 DEF GetStack
<1>f. PICK f : f = ReturnsInode(g, s)
  OBVIOUS
<1>r. PICK r : r = [inode[s] EXCEPT !.lock = FALSE, !.nlinks = d_inode[inode[s].num].nlinks,
                                    !.zone = d_inode[inode[s].num].zone]
  OBVIOUS
<1>3. OneInode(s, r) /\ Goto(p, f)
  <2>1. inode' = [inode EXCEPT ![s].lock = FALSE,
                               ![s].nlinks = d_inode[inode[s].num].nlinks,
                               ![s].zone = d_inode[inode[s].num].zone]
    BY <1>g, <1>s DEF read_inode_end
  <2>2. inode \in [Slots -> Inode]
    BY <1>1 DEF Tables
  <2>3. OneInode(s, r)
    BY <1>r, <2>1, <2>2 DEF OneInode, Inode
  <2> QED
    BY <2>3, <1>g, <1>s, <1>f DEF read_inode_end
<1>4. r \in Inode /\ r.num = inode[s].num /\ r.count = inode[s].count
  <2>1. inode[s] \in Inode
    BY <1>1 DEF Tables
  <2>2. Own(g) = s /\ Empty(g) = 0
    BY <1>0, <1>s DEF Own, Empty, Counted, Searches
  <2>3. inode[s].num # 0
    BY <1>1, <2>2, SlotsAre DEF Holding
  <2>4. inode[s].num \in Numbers
    BY <2>1, <2>3, InodesAssumption DEF Inode, Numbers
  <2>5. d_inode[inode[s].num] \in [nlinks : Nat, zone : 0..NZones]
    BY <1>1, <2>4 DEF Tables
  <2> QED
    BY <1>r, <2>1, <2>5 DEF Inode
<1>5. Tables' /\ SameHeld
  BY <1>0, <1>1, <1>3, <1>4, TablesKeep DEF Tables
<1>6. /\ f \in Process /\ f.at = a /\ f.ip = s
      /\ f.stack = <<>> /\ f.nr = g.nr /\ f.op = g.op
  <2>1. s \in SlotOr0 /\ 0 \in SlotOr0 /\ a \in Labels
    BY SlotsAre DEF Labels, Got
  <2>2. Returned(f, g, a, s, <<>>)
    BY <1>1, <1>a, <1>f, <2>1, ReturnFrom
  <2> QED
    BY <2>2 DEF Returned
<1>7. Below(f) = 0 /\ Below(g) = 0
  BY <1>2, <1>6, GetBelow DEF Below
<1>8. Fits(f)
  BY <1>6 DEF Fits, StackFits, HasSlot, Searches, Counted, Top, Got
<1>9. SameRefs(g, f)
  BY <1>0, <1>s, <1>6, <1>7 DEF SameRefs, Own, Empty, Counted, Searches, Got
<1>10. Keeps(f)
  BY <1>0, <1>1, <1>s, <1>6, <1>7 DEF Keeps, Holding, Kept
<1>11. Finds(f)'
  BY <1>6 DEF Finds, Got
<1> QED
  BY <1>0, <1>1, <1>g, <1>3, <1>5, <1>6, <1>8, <1>9, <1>10, <1>11, Quiet DEF OpensOnce

(* fs/inode.c: write_inode(), iput(), sync_inodes() *)

\* The return of write_inode() to each of its callers
LEMMA WriteReturns ==
  ASSUME NEW g \in Process, WriteStack(g), g.at \in {"write_inode", "write_bread"},
         NEW f, f = Returns(g)
  PROVE  /\ Fits(f) /\ SameRefs(g, f) /\ f.op = g.op
         /\ f.at \in {"user", "sync_inodes", "iput_again", "gei_wait"} /\ Below(f) = 0
<1>0. /\ 0 \in SlotOr0 /\ Slots \subseteq SlotOr0
      /\ {"user", "sync_inodes", "iput_again", "gei_wait"} \subseteq Labels
  BY SlotsAre DEF Labels, Yields, Waits
<1>1. Own(g) = 0 /\ Empty(g) = 0
  BY DEF Own, Empty, Counted, Searches
<1>2. ASSUME NEW s \in SlotOr0, NEW a \in {"user", "sync_inodes", "gei_wait"}, NEW st,
             Returned(f, g, a, s, st), Below(g) = 0,
             StackFits(f), a # "user" => s \in Slots, Below(f) = 0
      PROVE  Fits(f) /\ SameRefs(g, f)
  BY <1>1, <1>2 DEF Returned, Fits, SameRefs, Own, Empty, HasSlot, Searches, Counted
<1>3. CASE g.stack = <<Frame("user", 0)>>
  <2>1. Returned(f, g, "user", 0, <<>>)
    BY <1>0, <1>3, ReturnFrom
  <2>2. StackFits(f) /\ Below(f) = 0
    BY <2>1 DEF Returned, StackFits, Searches, Top, Below
  <2>3. Below(g) = 0
    BY <1>3, Stacking, FrameIs DEF Below
  <2>4. Fits(f) /\ SameRefs(g, f)
    BY <1>0, <1>2, <2>1, <2>2, <2>3
  <2> QED
    BY <2>1, <2>2, <2>4 DEF Returned
<1>4. CASE \E s \in Slots : g.stack = <<Frame("sync_inodes", s), Frame("user", 0)>>
  <2>s. PICK s \in Slots : g.stack = <<Frame("sync_inodes", s), Frame("user", 0)>>
    BY <1>4
  <2>1. Returned(f, g, "sync_inodes", s, <<Frame("user", 0)>>)
    BY <1>0, <2>s, ReturnFrom
  <2>2. StackFits(f) /\ Below(f) = 0
    BY <2>1, Stacking, FrameIs DEF Returned, StackFits, Searches, Top, Below, Counted
  <2>3. Below(g) = 0
    BY <2>s, Stacking, FrameIs DEF Below, Counted
  <2>4. Fits(f) /\ SameRefs(g, f)
    BY <1>0, <1>2, <2>1, <2>2, <2>3
  <2> QED
    BY <2>1, <2>2, <2>4 DEF Returned
<1>5. CASE \E s \in Slots, t \in SlotOr0 : g.stack = <<Frame("iput_again", s), Frame("user", t)>>
  <2>s. PICK s \in Slots, t \in SlotOr0 : g.stack = <<Frame("iput_again", s), Frame("user", t)>>
    BY <1>5
  <2>1. Returned(f, g, "iput_again", s, <<Frame("user", t)>>)
    BY <1>0, <2>s, ReturnFrom
  <2>2. UserStack(f) /\ Below(f) = 0
    BY <2>1, Stacking, FrameIs DEF Returned, UserStack, Below, Counted
  <2>3. Below(g) = s /\ Own(f) = s /\ Empty(f) = 0
    <3>1. Below(g) = s
      BY <2>s, Stacking, FrameIs DEF Below, Counted
    <3> QED
      BY <3>1, <2>1 DEF Own, Empty, Returned, Counted, Searches
  <2>4. Fits(f)
    BY <2>1, <2>2 DEF Returned, Fits, StackFits, HasSlot, Searches, Counted, Top
  <2> QED
    BY <1>1, <2>1, <2>2, <2>3, <2>4 DEF Returned, SameRefs
<1>6. CASE \E s \in Slots, a \in Got :
             g.stack = <<Frame("gei_wait", s), Frame("iget_search", 0), Frame(a, 0)>> /\ g.nr # 0
  <2>s. PICK s \in Slots, a \in Got :
             g.stack = <<Frame("gei_wait", s), Frame("iget_search", 0), Frame(a, 0)>> /\ g.nr # 0
    BY <1>6
  <2>1. Returned(f, g, "gei_wait", s, <<Frame("iget_search", 0), Frame(a, 0)>>)
    BY <1>0, <2>s, ReturnFrom
  <2>2. EmptyStack(f)
    BY <2>1, <2>s DEF Returned, EmptyStack
  <2>3. StackFits(f) /\ Below(f) = 0
    BY <2>1, <2>2, EmptyBelow DEF Returned, StackFits, Searches, Top
  <2>4. Below(g) = 0
    BY <2>s, Stacking, FrameIs DEF Below, Counted
  <2>5. Fits(f) /\ SameRefs(g, f)
    BY <1>0, <1>2, <2>1, <2>3, <2>4
  <2> QED
    BY <2>1, <2>3, <2>5 DEF Returned
<1>7. CASE \E s \in Slots :
             g.stack = <<Frame("gei_wait", s), Frame("new_inode", 0), Frame("open_new", 0)>>
  <2>s. PICK s \in Slots :
             g.stack = <<Frame("gei_wait", s), Frame("new_inode", 0), Frame("open_new", 0)>>
    BY <1>7
  <2>1. Returned(f, g, "gei_wait", s, <<Frame("new_inode", 0), Frame("open_new", 0)>>)
    BY <1>0, <2>s, ReturnFrom
  <2>2. EmptyStack(f)
    BY <2>1, <2>s DEF Returned, EmptyStack
  <2>3. StackFits(f) /\ Below(f) = 0
    BY <2>1, <2>2, EmptyBelow DEF Returned, StackFits, Searches, Top
  <2>4. Below(g) = 0
    BY <2>s, Stacking, FrameIs DEF Below, Counted
  <2>5. Fits(f) /\ SameRefs(g, f)
    BY <1>0, <1>2, <2>1, <2>3, <2>4
  <2> QED
    BY <2>1, <2>3, <2>5 DEF Returned
<1> QED
  BY <1>3, <1>4, <1>5, <1>6, <1>7 DEF WriteStack

\* write_inode() returns at once, or locks the inode.
LEMMA KeepsWriteInode ==
  ASSUME IInv, NEW p \in Procs, write_inode(p), UNCHANGED fileVars
  PROVE  IInv'
<1>g. PICK g : g = proc[p]
  OBVIOUS
<1>0. /\ At(p, "write_inode") /\ g.at = "write_inode" /\ dir' = dir /\ file' = file /\ calls' = calls
      /\ last_inode' = last_inode /\ d_inode' = d_inode /\ imap' = imap
  BY <1>g DEF write_inode, At, fileVars
<1>1. /\ g \in Process /\ Shape(g) /\ Tables /\ OpensOnce(p)
  BY <1>g, Here
<1>2. WriteStack(g) /\ g.ip \in Slots
  BY <1>0, <1>1 DEF Shape, StackFits, HasSlot
<1>s. PICK s \in Slots : s = g.ip
  BY <1>2
<1>3. CASE ~inode[s].dirt \/ inode[s].num = 0
  <2>f. PICK f : f = Returns(g)
    OBVIOUS
  <2>1. inode' = inode /\ Goto(p, f)
    BY <1>3, <1>g, <1>s, <2>f DEF write_inode
  <2>2. Tables' /\ SameHeld
    BY <1>0, <2>1, Idle
  <2>3. /\ Fits(f) /\ SameRefs(g, f) /\ f.op = g.op
        /\ f.at \in {"user", "sync_inodes", "iput_again", "gei_wait"} /\ Below(f) = 0
    BY <1>0, <1>1, <1>2, <2>f, WriteReturns
  <2>4. Keeps(f) /\ Finds(f)'
    BY <2>3 DEF Keeps, Kept, Finds
  <2> QED
    BY <1>0, <1>1, <1>g, <2>1, <2>2, <2>3, <2>4, Quiet DEF OpensOnce
<1>4. CASE ~(~inode[s].dirt \/ inode[s].num = 0)
  <2>f. PICK f : f = [g EXCEPT !.at = "write_bread"]
    OBVIOUS
  <2>r. PICK r : r = [inode[s] EXCEPT !.lock = TRUE]
    OBVIOUS
  <2>1. OneInode(s, r) /\ Goto(p, f)
    BY <1>4, <1>g, <1>s, <2>f, <2>r DEF write_inode, OneInode
  <2>2. r \in Inode /\ r.num = inode[s].num /\ r.count = inode[s].count
    <3>1. inode[s] \in Inode
      BY <1>1 DEF Tables
    <3> QED
      BY <2>r, <3>1 DEF Inode
  <2>3. Tables' /\ SameHeld
    BY <1>0, <1>1, <2>1, <2>2, TablesKeep DEF Tables
  <2>4. /\ f \in Process /\ f.at = "write_bread" /\ f.ip = s
        /\ f.stack = g.stack /\ f.nr = g.nr /\ f.op = g.op
    <3>1. s \in SlotOr0 /\ "write_bread" \in Labels
      BY SlotsAre DEF Labels, Yields
    <3> QED
      BY <1>1, <1>s, <2>f, <3>1, Goes
  <2>5. WriteStack(f)
    BY <1>2, <2>4 DEF WriteStack
  <2>6. Fits(f)
    BY <2>4, <2>5 DEF Fits, StackFits, HasSlot, Searches, Counted, Top
  <2>7. SameRefs(g, f)
    BY <1>0, <2>4 DEF SameRefs, Own, Below, Empty, Counted, Searches
  <2>8. Keeps(f)
    <3>1. Below(f) # 0 => Head(f.stack).at \notin Kept
      BY <2>5, Stacking, FrameIs DEF WriteStack, Below, Counted, Kept
    <3> QED
      BY <2>4, <3>1 DEF Keeps, Kept
  <2>9. Finds(f)'
    BY <2>4 DEF Finds
  <2> QED
    BY <1>0, <1>1, <1>g, <2>1, <2>3, <2>4, <2>6, <2>7, <2>8, <2>9, Quiet DEF OpensOnce
<1> QED
  BY <1>3, <1>4

\* write_inode() unlocks the inode, and goes back to whoever wanted it written.
LEMMA KeepsWriteInodeEnd ==
  ASSUME IInv, NEW p \in Procs, write_inode_end(p), UNCHANGED fileVars
  PROVE  IInv'
<1>g. PICK g : g = proc[p]
  OBVIOUS
<1>0. /\ At(p, "write_bread") /\ g.at = "write_bread" /\ dir' = dir /\ file' = file /\ calls' = calls
      /\ last_inode' = last_inode /\ imap' = imap
  BY <1>g DEF write_inode_end, At, fileVars
<1>1. /\ g \in Process /\ Shape(g) /\ Tables /\ OpensOnce(p)
  BY <1>g, Here
<1>2. WriteStack(g) /\ g.ip \in Slots
  BY <1>0, <1>1 DEF Shape, StackFits, HasSlot
<1>s. PICK s \in Slots : s = g.ip
  BY <1>2
<1>f. PICK f : f = Returns(g)
  OBVIOUS
<1>r. PICK r : r = [inode[s] EXCEPT !.lock = FALSE, !.dirt = FALSE]
  OBVIOUS
<1>3. OneInode(s, r) /\ Goto(p, f)
  <2>1. inode' = [inode EXCEPT ![s].lock = FALSE, ![s].dirt = FALSE]
    BY <1>g, <1>s DEF write_inode_end
  <2>2. inode \in [Slots -> Inode]
    BY <1>1 DEF Tables
  <2>3. OneInode(s, r)
    BY <1>r, <2>1, <2>2 DEF OneInode, Inode
  <2> QED
    BY <2>3, <1>g, <1>f DEF write_inode_end
<1>4. r \in Inode /\ r.num = inode[s].num /\ r.count = inode[s].count /\ inode[s] \in Inode
  <2>1. inode[s] \in Inode
    BY <1>1 DEF Tables
  <2> QED
    BY <1>r, <2>1 DEF Inode
<1>5. Tables' /\ SameHeld
  <2>1. inode' \in [Slots -> Inode] /\ SameHeld
    BY <1>1, <1>3, <1>4 DEF Tables, OneInode, SameHeld
  <2>2. d_inode' \in [Numbers -> [nlinks : Nat, zone : 0..NZones]]
    <3> DEFINE x == [nlinks |-> inode[s].nlinks, zone |-> inode[s].zone]
               n == DiskIndex(inode[s].num)
    <3>1. d_inode' = [d_inode EXCEPT ![n] = x]
      BY <1>g, <1>s DEF write_inode_end
    <3>2. x \in [nlinks : Nat, zone : 0..NZones]
      BY <1>4 DEF Inode
    <3> HIDE DEF x, n
    <3> QED
      BY <1>1, <3>1, <3>2 DEF Tables
  <2> QED
    BY <1>0, <1>1, <2>1, <2>2 DEF Tables
<1>6. /\ Fits(f) /\ SameRefs(g, f) /\ f.op = g.op
      /\ f.at \in {"user", "sync_inodes", "iput_again", "gei_wait"} /\ Below(f) = 0
  BY <1>0, <1>1, <1>2, <1>f, WriteReturns
<1>7. Keeps(f) /\ Finds(f)'
  BY <1>6 DEF Keeps, Kept, Finds
<1> QED
  BY <1>0, <1>1, <1>g, <1>3, <1>5, <1>6, <1>7, Quiet DEF OpensOnce

\* Only one inode changes.
SameBut(s) == \A t \in Slots \ {s} : inode'[t] = inode[t]

\* A reference is given back: the end of iput().
LEMMA Drops ==
  ASSUME IInv, NEW p \in Procs, NEW label, At(p, label), NEW f, Goto(p, f), Fits(f), Tables', NEW s \in Slots,
         Own(proc[p]) = s, Own(f) = Below(proc[p]), Below(f) = 0, Empty(f) = 0,
         inode'[s].count = inode[s].count - 1, inode'[s].num = inode[s].num \/ inode[s].count <= 1,
         SameBut(s), f.at \in Kept => inode[f.ip].num = f.nr, file' = file,
         Finds(f)', f.op \in {"open", "creat"} /\ f.at # "user" => file[p].slot = 0
  PROVE  IInv'
<1>g. PICK g : g = proc[p]
  OBVIOUS
<1>o. PICK b, x : b = Below(g) /\ x = file[p].slot
  OBVIOUS
<1>1. /\ g \in Process /\ Shape(g) /\ Holding(g) /\ Opens(p) /\ b \in SlotOr0 /\ x \in SlotOr0
  BY <1>g, <1>o, Here, HoldsAre
<1>2. \A t \in Slots : /\ Bits(p, t) = Bit(x, t) + Bit(s, t) + Bit(b, t)
                       /\ BitsOf(x, f, t) = Bit(x, t) + Bit(b, t) + Bit(0, t)
                       /\ Bits(p, t) <= inode[t].count /\ inode[t].count \in Nat
  <2>1. \A t \in Slots : Bits(p, t) <= inode[t].count /\ inode[t].count \in Nat
    BY HolderCounts DEF IInv
  <2> QED
    BY <1>g, <1>o, <2>1 DEF Bits, BitsOf
<1>3. s \in {x, b} => inode'[s].num = inode[s].num
  <2> HAVE s \in {x, b}
  <2>1. Bits(p, s) >= 2
    <3>1. Bit(x, s) \in {0, 1} /\ Bit(b, s) \in {0, 1} /\ Bit(s, s) = 1
      BY BitIs
    <3>2. Bit(x, s) = 1 \/ Bit(b, s) = 1
      BY DEF Bit
    <3>3. Bits(p, s) = Bit(x, s) + Bit(s, s) + Bit(b, s)
      BY <1>2
    <3> QED
      BY <3>1, <3>2, <3>3
  <2>2. Bits(p, s) <= inode[s].count /\ inode[s].count \in Nat /\ Bits(p, s) \in 0..3
    BY <1>2, HolderCounts DEF IInv
  <2>3. ~(inode[s].count <= 1)
    BY <2>1, <2>2
  <2> QED
    BY <2>3
<1>4. \A t \in Slots : t \in {x, b} => inode'[t].num = inode[t].num
  BY <1>3 DEF SameBut
<1>5. Moved(p, f)
  <2> SUFFICES ASSUME NEW t \in Slots
               PROVE  /\ inode'[t].num = inode[t].num \/ inode[t].count <= Bits(p, t)
                      /\ inode'[t].count = inode[t].count \/ Bits(p, t) >= 1
                      /\ inode'[t].count - BitsOf(x, f, t) = inode[t].count - Bits(p, t)
    BY <1>o DEF Moved
  <2>1. /\ Bits(p, t) = Bit(x, t) + Bit(s, t) + Bit(b, t)
        /\ BitsOf(x, f, t) = Bit(x, t) + Bit(b, t) + Bit(0, t)
        /\ inode[t].count \in Nat
    BY <1>2
  <2>2. /\ Bit(x, t) \in {0, 1} /\ Bit(b, t) \in {0, 1} /\ Bit(0, t) = 0
        /\ Bit(s, t) = IF s = t THEN 1 ELSE 0
    BY BitIs DEF Bit
  <2>3. CASE t = s
    BY <2>1, <2>2, <2>3
  <2>4. CASE t # s
    <3>1. inode'[t] = inode[t]
      BY <2>4 DEF SameBut
    <3> QED
      BY <2>1, <2>2, <2>4, <3>1
  <2> QED
    BY <2>3, <2>4
<1>6. Opens(p)'
  BY <1>o, <1>1, <1>4, SlotsAre DEF Opens
<1>7. Holding(Stays(f))'
  <2>1. CASE f.at = "user"
    <3>1. Stays(f) = AtUser
      BY <2>1 DEF Stays
    <3>2. AtUser.at = "user" /\ AtUser.stack = <<>>
      BY DEF AtUser
    <3>3. Own(AtUser) = 0 /\ Below(AtUser) = 0 /\ Empty(AtUser) = 0
      BY <3>2 DEF Own, Below, Empty, Counted, Searches
    <3>4. Holding(AtUser)'
      BY <3>2, <3>3 DEF Holding, Own, Below, Empty, Kept
    <3> QED
      BY <3>1, <3>4 DEF Holding, Own, Below, Empty, Stays
  <2>2. CASE f.at # "user"
    <3>1. Stays(f) = f
      BY <2>2 DEF Stays
    <3>2. Own(f)' = b /\ Below(f)' = 0 /\ Empty(f)' = 0
      BY <1>g, <1>o DEF Own, Below, Empty
    <3>3. b # 0 => b \in Slots /\ inode'[b].num = inode[b].num /\ inode[b].num # 0
      BY <1>1, <1>4, <1>o, SlotsAre DEF Holding
    <3>4. f.at \in Kept => f.ip = b /\ b # 0
      BY <1>g, <1>o, SlotsAre DEF Own, Kept, Counted, Fits, HasSlot
    <3>5. Holding(f)'
      BY <3>2, <3>3, <3>4 DEF Holding
    <3> QED
      BY <3>1, <3>5 DEF Holding, Own, Below, Empty, Stays
  <2> QED
    BY <2>1, <2>2
<1> QED
  BY <1>5, <1>6, <1>7, <1>o, Moves

\* The last call of a system call returns to the user.
LEMMA UserReturns ==
  ASSUME NEW g \in Process, UserStack(g), NEW f, f = Returns(g)
  PROVE  /\ Fits(f) /\ f.at = "user" /\ Own(f) = 0 /\ Below(f) = 0 /\ Empty(f) = 0 /\ Below(g) = 0
<1>1. PICK t \in SlotOr0 : g.stack = <<Frame("user", t)>>
  BY DEF UserStack
<1>2. Returned(f, g, "user", t, <<>>)
  <2>1. "user" \in Labels /\ 0 \in SlotOr0
    BY SlotsAre DEF Labels, Yields
  <2> QED
    BY <1>1, <2>1, ReturnFrom
<1>3. Below(g) = 0
  BY <1>1, Stacking, FrameIs DEF Below, Counted
<1> QED
  BY <1>2, <1>3 DEF Returned, Fits, StackFits, Own, Below, Empty, Counted, Searches, HasSlot, Top

\* iput() gives a reference back, and does not panic.
LEMMA KeepsIput ==
  ASSUME IInv, NEW p \in Procs, iput(p), UNCHANGED fileVars
  PROVE  IInv'
<1>g. PICK g : g = proc[p]
  OBVIOUS
<1>0. /\ At(p, g.at) /\ g.at \in {"iput", "iput_again"} /\ dir' = dir /\ file' = file /\ calls' = calls
  BY <1>g DEF iput, At, fileVars
<1>1. /\ g \in Process /\ Shape(g) /\ Tables /\ OpensOnce(p) /\ Holding(g)
  BY <1>g, Here
<1>2. g.ip \in Slots /\ Own(g) = g.ip
  BY <1>0, <1>1 DEF Shape, HasSlot, Counted, Own
<1>s. PICK s \in Slots : s = g.ip
  BY <1>2
<1>c. inode[s] \in Inode /\ inode[s].count \in Nat \ {0}
  <2>1. inode[s] \in Inode /\ inode[s].count \in Nat
    BY <1>1 DEF Tables, Inode
  <2>2. Bits(p, s) = Bit(file[p].slot, s) + Bit(s, s) + Bit(Below(g), s)
    BY <1>g, <1>s, <1>2 DEF Bits
  <2>3. Bit(file[p].slot, s) \in {0, 1} /\ Bit(s, s) = 1 /\ Bit(Below(g), s) \in {0, 1}
    BY BitIs
  <2>4. Bits(p, s) >= 1 /\ Bits(p, s) \in 0..3
    BY <2>2, <2>3
  <2>5. Bits(p, s) <= inode[s].count
    BY HolderCounts DEF IInv
  <2> QED
    BY <2>1, <2>4, <2>5
<1>r. PICK r : r = [inode[s] EXCEPT !.count = @ - 1]
  OBVIOUS
<1>3. r \in Inode /\ r.num = inode[s].num /\ r.count = inode[s].count - 1
  BY <1>r, <1>c DEF Inode
<1>4. ASSUME inode' = [inode EXCEPT ![s].count = @ - 1], last_inode' = last_inode, d_inode' = d_inode, imap' = imap
      PROVE  Tables' /\ inode'[s] = r /\ SameBut(s)
  <2>1. OneInode(s, r)
    BY <1>4, <1>r DEF OneInode
  <2> QED
    BY <1>0, <1>1, <1>3, <1>4, <2>1, TablesKeep DEF Tables, SameBut
<1>5. CASE g.at = "iput" /\ inode[s].num = 0
  <2>f. PICK f : f = Returns(g)
    OBVIOUS
  <2>1. /\ inode' = [inode EXCEPT ![s].count = @ - 1] /\ last_inode' = last_inode /\ d_inode' = d_inode
        /\ imap' = imap /\ Goto(p, f)
    BY <1>5, <1>c, <1>g, <1>s, <2>f DEF iput
  <2>2. PutStack(g)
    <3>1. Empty(g) # 0
      BY <1>1, <1>2, <1>5, <1>s, SlotsAre DEF Holding
    <3>2. Head(g.stack).at # "user"
      BY <1>5, <3>1 DEF Empty, Searches
    <3>3. ~UserStack(g)
      BY <3>2, Stacking, FrameIs DEF UserStack
    <3> QED
      BY <1>1, <1>5, <3>3 DEF Shape, StackFits
  <2>3. /\ Fits(f) /\ Own(f) = Below(g) /\ Below(f) = 0 /\ Empty(f) = 0
        /\ f.op = g.op /\ f.at \in Got \cup {"open_new"} /\ (f.at \in Kept => inode[f.ip].num = f.nr)
    <3>0. "open_new" \in Labels /\ Got \subseteq Labels /\ 0 \in SlotOr0 /\ Slots \subseteq SlotOr0
      BY SlotsAre DEF Labels, Got
    <3>1. CASE \E a \in Got, t \in Slots : g.stack = <<Frame(a, t)>>
      <4>1. PICK a \in Got, t \in Slots : g.stack = <<Frame(a, t)>>
        BY <3>1
      <4>2. Returned(f, g, a, t, <<>>)
        BY <1>1, <2>f, <3>0, <4>1, ReturnFrom
      <4>3. Below(g) = t /\ Head(g.stack).at = a
        BY <4>1, Stacking, FrameIs DEF Below, Got, Counted
      <4>4. Fits(f) /\ Own(f) = t /\ Below(f) = 0 /\ Empty(f) = 0
        BY <4>2 DEF Returned, Fits, StackFits, HasSlot, Searches, Counted, Top, Got, Own, Below, Empty
      <4>5. inode[f.ip].num = f.nr
        BY <1>1, <4>2, <4>3, SlotsAre DEF Returned, Holding, Got, Kept
      <4> QED
        BY <4>2, <4>3, <4>4, <4>5 DEF Returned
    <3>2. CASE g.stack = <<Frame("open_new", 0)>>
      <4>2. Returned(f, g, "open_new", 0, <<>>)
        BY <1>1, <2>f, <3>0, <3>2, ReturnFrom
      <4>3. Below(g) = 0
        BY <3>2, Stacking, FrameIs DEF Below
      <4>4. Fits(f) /\ Own(f) = 0 /\ Below(f) = 0 /\ Empty(f) = 0
        BY <4>2 DEF Returned, Fits, StackFits, HasSlot, Searches, Counted, Top, Own, Below, Empty
      <4> QED
        BY <4>2, <4>3, <4>4 DEF Returned, Kept
    <3> QED
      BY <2>2, <3>1, <3>2 DEF PutStack
  <2>4. Tables' /\ inode'[s] = r /\ SameBut(s)
    BY <1>4, <2>1
  <2>5. Finds(f)'
    BY <2>3 DEF Finds, Got
  <2>6. inode'[s].count = inode[s].count - 1 /\ inode'[s].num = inode[s].num
    BY <1>3, <2>4
  <2>7. f.op \in {"open", "creat"} => file[p].slot = 0
    BY <1>1, <1>g, <2>3 DEF OpensOnce
  <2> QED
    BY <1>0, <1>2, <1>g, <1>s, <2>1, <2>3, <2>4, <2>5, <2>6, <2>7, Drops
<1>6. CASE ~(g.at = "iput" /\ inode[s].num = 0)
  <2>1. iput_repeat(p)
    BY <1>6, <1>c, <1>g, <1>s DEF iput
  <2>2. last_inode' = last_inode /\ d_inode' = d_inode /\ imap' = imap
    BY <2>1 DEF iput_repeat
  <2>3. UserStack(g) /\ Empty(g) = 0
    <3>1. CASE g.at = "iput"
      <4>1. Empty(g) = 0
        <5>1. Empty(g) \in {0, s}
          BY <1>s, <3>1 DEF Empty, Searches
        <5>2. inode[s].num # 0
          BY <1>6, <3>1
        <5> QED
          BY <1>1, <5>1, <5>2 DEF Holding
      <4>2. Head(g.stack).at = "user"
        BY <1>2, <3>1, <4>1, SlotsAre DEF Empty, Searches
      <4>3. ~PutStack(g)
        BY <4>2, Stacking, FrameIs DEF PutStack, Got
      <4> QED
        BY <1>1, <3>1, <4>1, <4>3 DEF Shape, StackFits
    <3>2. CASE g.at = "iput_again"
      BY <1>1, <3>2 DEF Shape, StackFits, Empty, Searches
    <3> QED
      BY <1>0, <3>1, <3>2
  <2>4. PICK t \in SlotOr0 : g.stack = <<Frame("user", t)>>
    BY <2>3 DEF UserStack
  <2>5. Below(g) = 0
    BY <2>4, Stacking, FrameIs DEF Below, Counted
  <2>6. ASSUME inode' = [inode EXCEPT ![s].count = @ - 1], Goto(p, Returns(g)) PROVE IInv'
    <3>f. PICK f : f = Returns(g)
      OBVIOUS
    <3>1. Fits(f) /\ f.at = "user" /\ Own(f) = 0 /\ Below(f) = 0 /\ Empty(f) = 0
      BY <1>1, <2>3, <3>f, UserReturns
    <3>2. Tables' /\ inode'[s] = r /\ SameBut(s)
      BY <1>4, <2>2, <2>6
    <3>3. inode'[s].count = inode[s].count - 1 /\ inode'[s].num = inode[s].num
      BY <1>3, <3>2
    <3>4. Finds(f)' /\ f.at \notin Kept
      BY <3>1 DEF Finds, Kept
    <3> QED
      BY <1>0, <1>2, <1>g, <1>s, <2>5, <2>6, <3>f, <3>1, <3>2, <3>3, <3>4, Drops
  <2>7. ASSUME NEW ret \in {"free_inode", "iput_again"}, NEW label \in {"truncate", "write_inode"},
               ret = "free_inode" <=> label = "truncate",
               inode' = inode, Goto(p, Calls(g, label, s, ret))
        PROVE  IInv'
    <3>f. PICK f : f = Calls(g, label, s, ret)
      OBVIOUS
    <3>1. /\ f \in Process /\ f.at = label /\ f.ip = s
          /\ f.stack = <<Frame(ret, s)>> \o g.stack /\ f.nr = g.nr /\ f.op = g.op
      <4>1. s \in SlotOr0 /\ label \in Labels /\ ret \in Labels
        BY SlotsAre DEF Labels, Waits
      <4> QED
        BY <1>1, <1>s, <3>f, <4>1, CallIs
    <3>2. f.stack = <<Frame(ret, s), Frame("user", t)>>
      BY <2>4, <3>1, Pushing
    <3>3. Below(f) = s /\ Head(f.stack).at = ret
      BY <3>2, Stacking, FrameIs DEF Below, Counted
    <3>4. /\ label = "truncate" => TruncateStack(f)
          /\ label = "write_inode" => WriteStack(f)
      BY <2>7, <3>2 DEF TruncateStack, WriteStack
    <3>5. Fits(f)
      BY <3>1, <3>4 DEF Fits, StackFits, HasSlot, Searches, Counted, Top
    <3>6. SameRefs(g, f)
      <4>1. Own(f) = 0 /\ Empty(f) = 0
        BY <3>1 DEF Own, Empty, Counted, Searches
      <4> QED
        BY <1>2, <1>s, <2>3, <2>5, <3>3, <4>1 DEF SameRefs
    <3>7. Keeps(f) /\ Finds(f)'
      BY <3>1, <3>3 DEF Keeps, Kept, Finds
    <3>8. Tables' /\ SameHeld
      BY <1>0, <2>2, <2>7, Idle
    <3>9. f.op \in {"open", "creat"} => file[p].slot = 0
      BY <1>1, <1>g, <3>1 DEF OpensOnce
    <3> QED
      BY <1>0, <1>g, <2>7, <3>f, <3>5, <3>6, <3>7, <3>8, <3>9, Quiet
  <2>8. \/ inode' = [inode EXCEPT ![s].count = @ - 1] /\ Goto(p, Returns(g))
        \/ inode' = inode /\ Goto(p, Calls(g, "truncate", s, "free_inode"))
        \/ inode' = inode /\ Goto(p, Calls(g, "write_inode", s, "iput_again"))
    BY <2>1, <1>g, <1>s DEF iput_repeat
  <2>9. CASE inode' = inode /\ Goto(p, Calls(g, "truncate", s, "free_inode"))
    BY <2>7, <2>9
  <2>10. CASE inode' = inode /\ Goto(p, Calls(g, "write_inode", s, "iput_again"))
    BY <2>7, <2>10
  <2> QED
    BY <2>6, <2>8, <2>9, <2>10
<1> QED
  BY <1>5, <1>6

\* sync_inodes() writes inodes that others hold, without holding them.
LEMMA KeepsSyncInodes ==
  ASSUME IInv, NEW p \in Procs, sync_inodes(p), UNCHANGED fileVars
  PROVE  IInv'
<1>g. PICK g : g = proc[p]
  OBVIOUS
<1>0. /\ At(p, "sync_inodes") /\ g.at = "sync_inodes" /\ dir' = dir /\ file' = file /\ calls' = calls
      /\ inode' = inode /\ last_inode' = last_inode /\ d_inode' = d_inode /\ imap' = imap
  BY <1>g DEF sync_inodes, At, fileVars, inodeVars
<1>1. /\ g \in Process /\ Shape(g) /\ Tables /\ OpensOnce(p)
  BY <1>g, Here
<1>2. g.stack = <<Frame("user", 0)>> /\ g.ip \in Slots
  BY <1>0, <1>1 DEF Shape, StackFits, HasSlot
<1>s. PICK s \in Slots : s = g.ip
  BY <1>2
<1>n. PICK n : n = NextSlot(p)
  OBVIOUS
<1>3. /\ n \in Process /\ n.op = g.op /\ n.nr = g.nr
      /\ \/ n.at = "sync_inodes" /\ n.ip \in Slots /\ n.stack = <<Frame("user", 0)>>
         \/ n.at = "user" /\ n.ip = 0 /\ n.stack = <<>>
  <2>1. CASE s < NR_INODE
    <3>1. s + 1 \in Slots /\ s + 1 \in SlotOr0
      BY <2>1, InodesAssumption DEF Slots, SlotOr0
    <3>x. PICK x \in Slots : x = s + 1
      BY <3>1
    <3>2. n = [g EXCEPT !.ip = x]
      BY <1>g, <1>n, <1>s, <2>1, <3>x DEF NextSlot
    <3>3. x \in SlotOr0
      BY <3>1, <3>x
    <3>4. n \in Process /\ n.op = g.op /\ n.nr = g.nr /\ n.at = g.at /\ n.ip = x /\ n.stack = g.stack
      BY <1>1, <3>2, <3>3 DEF Process
    <3> QED
      BY <1>0, <1>2, <3>4
  <2>2. CASE ~(s < NR_INODE)
    <3>1. n = Returns(g)
      BY <1>g, <1>n, <1>s, <2>2 DEF NextSlot
    <3>2. Returned(n, g, "user", 0, <<>>)
      <4>1. "user" \in Labels /\ 0 \in SlotOr0
        BY SlotsAre DEF Labels, Yields
      <4> QED
        BY <1>1, <1>2, <3>1, <4>1, ReturnFrom
    <3> QED
      BY <3>2 DEF Returned
  <2> QED
    BY <2>1, <2>2
<1>4. Below(g) = 0 /\ Own(g) = 0 /\ Empty(g) = 0
  BY <1>0, <1>2, Stacking, FrameIs DEF Below, Own, Empty, Counted, Searches
<1>5. Tables' /\ SameHeld
  BY <1>0, Idle
<1>6. CASE inode[s].dirt
  <2>f. PICK f : f = Calls(n, "write_inode", s, n.at)
    OBVIOUS
  <2>1. Goto(p, f)
    BY <1>6, <1>g, <1>s, <1>n, <2>f DEF sync_inodes
  <2>2. /\ f \in Process /\ f.at = "write_inode" /\ f.ip = s
        /\ f.stack = <<Frame(n.at, n.ip)>> \o n.stack /\ f.nr = g.nr /\ f.op = g.op
    <3>1. s \in SlotOr0 /\ "write_inode" \in Labels /\ n.at \in Labels
      BY <1>3, SlotsAre DEF Labels, Waits, Yields
    <3> QED
      BY <1>3, <2>f, <3>1, CallIs
  <2>3. WriteStack(f) /\ Below(f) = 0
    <3>1. CASE n.at = "user" /\ n.ip = 0 /\ n.stack = <<>>
      <4>1. f.stack = <<Frame("user", 0)>>
        BY <2>2, <3>1, Pushing
      <4> QED
        BY <4>1, Stacking, FrameIs DEF WriteStack, Below
    <3>2. CASE n.at = "sync_inodes" /\ n.ip \in Slots /\ n.stack = <<Frame("user", 0)>>
      <4>1. f.stack = <<Frame("sync_inodes", n.ip), Frame("user", 0)>>
        BY <2>2, <3>2, Pushing
      <4> QED
        BY <3>2, <4>1, Stacking, FrameIs DEF WriteStack, Below, Counted
    <3> QED
      BY <1>3, <3>1, <3>2
  <2>4. Fits(f)
    BY <2>2, <2>3 DEF Fits, StackFits, HasSlot, Searches, Counted, Top
  <2>5. SameRefs(g, f) /\ Keeps(f)
    BY <1>4, <2>2, <2>3 DEF SameRefs, Keeps, Own, Empty, Counted, Searches, Kept
  <2>6. Finds(f)'
    BY <2>2 DEF Finds
  <2> QED
    BY <1>0, <1>1, <1>5, <1>g, <2>1, <2>2, <2>4, <2>5, <2>6, Quiet DEF OpensOnce
<1>7. CASE ~inode[s].dirt
  <2>1. Goto(p, n)
    BY <1>7, <1>g, <1>s, <1>n DEF sync_inodes
  <2>2. Below(n) = 0 /\ Own(n) = 0 /\ Empty(n) = 0
    BY <1>3, Stacking, FrameIs DEF Below, Own, Empty, Counted, Searches
  <2>3. Fits(n)
    BY <1>3 DEF Fits, StackFits, HasSlot, Searches, Counted, Top
  <2>4. SameRefs(g, n) /\ Keeps(n) /\ Finds(n)'
    BY <1>3, <1>4, <2>2 DEF SameRefs, Keeps, Kept, Finds
  <2> QED
    BY <1>0, <1>1, <1>3, <1>5, <1>g, <2>1, <2>3, <2>4, Quiet DEF OpensOnce
<1> QED
  BY <1>6, <1>7

(* fs/truncate.c and fs/bitmap.c *)

\* The return of truncate() to sys_creat() and to iput()
LEMMA TruncateReturns ==
  ASSUME NEW g \in Process, TruncateStack(g), g.at \in {"truncate", "free_block"},
         inode[Below(g)].num = g.nr \/ Head(g.stack).at \notin Kept,
         NEW f \in Process, f.op = g.op, f.nr = g.nr,
         f.at = Returns(g).at, f.ip = Returns(g).ip, f.stack = Returns(g).stack
  PROVE  Fits(f) /\ SameRefs(g, f) /\ Keeps(f) /\ f.at \in {"open_done", "free_inode"}
<1>0. {"open_done", "free_inode"} \subseteq Labels /\ Slots \subseteq SlotOr0 /\ 0 \in SlotOr0
  BY SlotsAre DEF Labels
<1>1. Own(g) = 0 /\ Empty(g) = 0
  BY DEF Own, Empty, Counted, Searches
<1>2. CASE \E s \in Slots : g.stack = <<Frame("open_done", s)>> /\ g.op = "creat"
  <2>s. PICK s \in Slots : g.stack = <<Frame("open_done", s)>> /\ g.op = "creat"
    BY <1>2
  <2>1. f.at = "open_done" /\ f.ip = s /\ f.stack = <<>>
    <3>1. Returned(Returns(g), g, "open_done", s, <<>>)
      BY <1>0, <2>s, ReturnFrom
    <3> QED
      BY <3>1 DEF Returned
  <2>2. Below(g) = s /\ Head(g.stack).at = "open_done"
    BY <2>s, Stacking, FrameIs DEF Below, Counted
  <2>3. Below(f) = 0 /\ Own(f) = s /\ Empty(f) = 0
    BY <2>1 DEF Below, Own, Empty, Counted, Searches
  <2>4. Fits(f)
    BY <2>1, <2>s DEF Fits, StackFits, HasSlot, Searches, Counted, Top
  <2> QED
    BY <1>1, <2>1, <2>2, <2>3, <2>4 DEF SameRefs, Keeps, Kept
<1>3. CASE \E s \in Slots, t \in SlotOr0 : g.stack = <<Frame("free_inode", s), Frame("user", t)>>
  <2>s. PICK s \in Slots, t \in SlotOr0 : g.stack = <<Frame("free_inode", s), Frame("user", t)>>
    BY <1>3
  <2>1. f.at = "free_inode" /\ f.ip = s /\ f.stack = <<Frame("user", t)>>
    <3>1. Returned(Returns(g), g, "free_inode", s, <<Frame("user", t)>>)
      BY <1>0, <2>s, ReturnFrom
    <3> QED
      BY <3>1 DEF Returned
  <2>2. Below(g) = s
    BY <2>s, Stacking, FrameIs DEF Below, Counted
  <2>3. Below(f) = 0 /\ Own(f) = s /\ Empty(f) = 0
    BY <2>1, Stacking, FrameIs DEF Below, Own, Empty, Counted, Searches
  <2>4. Fits(f)
    BY <2>1 DEF Fits, StackFits, HasSlot, Searches, Counted, Top, UserStack
  <2> QED
    BY <1>1, <2>1, <2>2, <2>3, <2>4 DEF SameRefs, Keeps, Kept
<1> QED
  BY <1>2, <1>3 DEF TruncateStack

\* The callers of truncate() keep their inode in the stack.
LEMMA TruncateIs ==
  ASSUME NEW g \in Process, TruncateStack(g)
  PROVE  /\ Returns(g) \in Process /\ Returns(g).op = g.op /\ Returns(g).nr = g.nr
         /\ Below(g) # 0
<1>0. {"open_done", "free_inode"} \subseteq Labels /\ Slots \subseteq SlotOr0 /\ 0 \in SlotOr0 /\ 0 \notin Slots
  BY SlotsAre DEF Labels
<1>2. CASE \E s \in Slots : g.stack = <<Frame("open_done", s)>> /\ g.op = "creat"
  <2>s. PICK s \in Slots : g.stack = <<Frame("open_done", s)>> /\ g.op = "creat"
    BY <1>2
  <2>1. Returned(Returns(g), g, "open_done", s, <<>>)
    BY <1>0, <2>s, ReturnFrom
  <2>2. Below(g) = s
    BY <2>s, Stacking, FrameIs DEF Below, Counted
  <2> QED
    BY <1>0, <2>1, <2>2 DEF Returned
<1>3. CASE \E s \in Slots, t \in SlotOr0 : g.stack = <<Frame("free_inode", s), Frame("user", t)>>
  <2>s. PICK s \in Slots, t \in SlotOr0 : g.stack = <<Frame("free_inode", s), Frame("user", t)>>
    BY <1>3
  <2>1. Returned(Returns(g), g, "free_inode", s, <<Frame("user", t)>>)
    BY <1>0, <2>s, ReturnFrom
  <2>2. Below(g) = s
    BY <2>s, Stacking, FrameIs DEF Below, Counted
  <2> QED
    BY <1>0, <2>1, <2>2 DEF Returned
<1> QED
  BY <1>2, <1>3 DEF TruncateStack

\* truncate() changes the zone of an inode that stays held.
LEMMA KeepsTruncate ==
  ASSUME IInv, NEW p \in Procs, truncate(p), UNCHANGED fileVars
  PROVE  IInv'
<1>g. PICK g : g = proc[p]
  OBVIOUS
<1>0. /\ At(p, "truncate") /\ g.at = "truncate" /\ dir' = dir /\ file' = file /\ calls' = calls
      /\ last_inode' = last_inode /\ d_inode' = d_inode /\ imap' = imap
  BY <1>g DEF truncate, At, fileVars
<1>1. /\ g \in Process /\ Shape(g) /\ Tables /\ OpensOnce(p) /\ Holding(g)
  BY <1>g, Here
<1>2. TruncateStack(g) /\ g.ip \in Slots
  BY <1>0, <1>1 DEF Shape, StackFits, HasSlot
<1>s. PICK s \in Slots : s = g.ip
  BY <1>2
<1>3. inode[s] \in Inode
  BY <1>1 DEF Tables
<1>4. CASE inode[s].zone # 0
  <2>f. PICK f : f = [g EXCEPT !.at = "free_block", !.blk = inode[s].zone]
    OBVIOUS
  <2>1. inode' = inode /\ Goto(p, f)
    BY <1>4, <1>g, <1>s, <2>f DEF truncate
  <2>2. Tables' /\ SameHeld
    BY <1>0, <2>1, Idle
  <2>3. /\ f \in Process /\ f.at = "free_block" /\ f.ip = s
        /\ f.stack = g.stack /\ f.nr = g.nr /\ f.op = g.op
    <3>1. PICK z \in 0..NZones : z = inode[s].zone
      BY <1>3 DEF Inode
    <3>2. "free_block" \in Labels
      BY DEF Labels, Yields
    <3> QED
      BY <1>1, <1>s, <2>f, <3>1, <3>2 DEF Process
  <2>4. TruncateStack(f)
    BY <1>2, <2>3 DEF TruncateStack
  <2>5. Fits(f)
    BY <2>3, <2>4 DEF Fits, StackFits, HasSlot, Searches, Counted, Top
  <2>6. SameRefs(g, f) /\ Keeps(f)
    BY <1>0, <1>1, <2>3 DEF SameRefs, Keeps, Holding, Own, Below, Empty, Counted, Searches, Kept
  <2>7. Finds(f)'
    BY <2>3 DEF Finds
  <2> QED
    BY <1>0, <1>1, <1>g, <2>1, <2>2, <2>3, <2>5, <2>6, <2>7, Quiet DEF OpensOnce
<1>5. CASE inode[s].zone = 0
  <2>f. PICK f : f = Returns(g)
    OBVIOUS
  <2>r. PICK r : r = [inode[s] EXCEPT !.dirt = TRUE]
    OBVIOUS
  <2>1. OneInode(s, r) /\ Goto(p, f)
    BY <1>5, <1>g, <1>s, <2>f, <2>r DEF truncate, OneInode
  <2>2. r \in Inode /\ r.num = inode[s].num /\ r.count = inode[s].count
    BY <2>r, <1>3 DEF Inode
  <2>3. Tables' /\ SameHeld
    BY <1>0, <1>1, <2>1, <2>2, TablesKeep DEF Tables
  <2>4. f \in Process /\ f.op = g.op /\ f.nr = g.nr
    BY <1>1, <1>2, <2>f, TruncateIs
  <2>5. inode[Below(g)].num = g.nr \/ Head(g.stack).at \notin Kept
    BY <1>1, <1>2, TruncateIs DEF Holding
  <2>6. Fits(f) /\ SameRefs(g, f) /\ Keeps(f) /\ f.at \in {"open_done", "free_inode"}
    BY <1>0, <1>1, <1>2, <2>f, <2>4, <2>5, TruncateReturns
  <2>7. Finds(f)'
    BY <2>6 DEF Finds
  <2> QED
    BY <1>0, <1>1, <1>g, <2>1, <2>3, <2>4, <2>6, <2>7, Quiet DEF OpensOnce
<1> QED
  BY <1>4, <1>5

\* truncate() goes on behind free_block().
LEMMA KeepsFreeBlock ==
  ASSUME IInv, NEW p \in Procs, free_block(p), UNCHANGED fileVars
  PROVE  IInv'
<1>g. PICK g : g = proc[p]
  OBVIOUS
<1> DEFINE bad == ~BufferInUse(p, g.blk) /\ g.blk \notin zmap
<1>0. /\ At(p, "free_block") /\ g.at = "free_block" /\ dir' = dir /\ file' = file /\ calls' = calls
      /\ last_inode' = last_inode /\ d_inode' = d_inode /\ imap' = imap
  BY <1>g DEF free_block, At, fileVars
<1>1. /\ g \in Process /\ Shape(g) /\ Tables /\ OpensOnce(p) /\ Holding(g)
  BY <1>g, Here
<1>2. TruncateStack(g) /\ g.ip \in Slots
  BY <1>0, <1>1 DEF Shape, StackFits, HasSlot
<1>s. PICK s \in Slots : s = g.ip
  BY <1>2
<1>3. inode[s] \in Inode
  BY <1>1 DEF Tables
<1>4. CASE bad
  <2>1. Panic(p, "free_block: bit already cleared") /\ inode' = inode
    BY <1>4, <1>g DEF free_block
  <2> QED
    BY <1>0, <2>1, Panics
<1>5. CASE ~bad
  <2>h. PICK h : h = Returns(g)
    OBVIOUS
  <2>f. PICK f : f = [h EXCEPT !.blk = 0]
    OBVIOUS
  <2>r. PICK r : r = [inode[s] EXCEPT !.zone = 0, !.dirt = TRUE]
    OBVIOUS
  <2>1. OneInode(s, r) /\ Goto(p, f)
    <3>1. inode' = [inode EXCEPT ![s].zone = 0, ![s].dirt = TRUE] /\ Goto(p, f)
      BY <1>5, <1>g, <1>s, <2>h, <2>f DEF free_block
    <3>2. inode \in [Slots -> Inode]
      BY <1>1 DEF Tables
    <3> QED
      BY <2>r, <3>1, <3>2 DEF OneInode, Inode
  <2>2. r \in Inode /\ r.num = inode[s].num /\ r.count = inode[s].count
    <3>1. 0 \in 0..NZones
      BY InodesAssumption
    <3> QED
      BY <2>r, <1>3, <3>1 DEF Inode
  <2>3. Tables' /\ SameHeld
    BY <1>0, <1>1, <2>1, <2>2, TablesKeep DEF Tables
  <2>4. h \in Process /\ h.op = g.op /\ h.nr = g.nr
    BY <1>1, <1>2, <2>h, TruncateIs
  <2>a. f \in Process /\ f.op = g.op /\ f.nr = g.nr /\ f.at = h.at /\ f.ip = h.ip /\ f.stack = h.stack
    <3>1. 0 \in 0..NZones
      BY InodesAssumption
    <3> QED
      BY <2>f, <2>4, <3>1 DEF Process
  <2>5. inode[Below(g)].num = g.nr \/ Head(g.stack).at \notin Kept
    BY <1>1, <1>2, TruncateIs DEF Holding
  <2>6. Fits(f) /\ SameRefs(g, f) /\ Keeps(f) /\ f.at \in {"open_done", "free_inode"}
    BY <1>0, <1>1, <1>2, <2>h, <2>a, <2>5, TruncateReturns
  <2>7. Finds(f)'
    BY <2>6 DEF Finds
  <2> QED
    BY <1>0, <1>1, <1>g, <2>1, <2>3, <2>a, <2>6, <2>7, Quiet DEF OpensOnce
<1> QED
  BY <1>4, <1>5

\* The end of iput() for a file without links
LEMMA KeepsFreeInode ==
  ASSUME IInv, NEW p \in Procs, free_inode(p), UNCHANGED fileVars
  PROVE  IInv'
<1>g. PICK g : g = proc[p]
  OBVIOUS
<1>0. /\ At(p, "free_inode") /\ g.at = "free_inode" /\ dir' = dir /\ file' = file /\ calls' = calls
      /\ last_inode' = last_inode /\ d_inode' = d_inode
  BY <1>g DEF free_inode, At, fileVars
<1>1. /\ g \in Process /\ Shape(g) /\ Tables /\ Holding(g)
  BY <1>g, Here
<1>2. UserStack(g) /\ g.ip \in Slots
  BY <1>0, <1>1 DEF Shape, StackFits, HasSlot, Counted
<1>s. PICK s \in Slots : s = g.ip
  BY <1>2
<1>3. Own(g) = s /\ Empty(g) = 0 /\ inode[s].num # 0
  <2>1. Own(g) = s /\ Empty(g) = 0
    BY <1>0, <1>s DEF Own, Empty, Counted, Searches
  <2> QED
    BY <1>1, <2>1, SlotsAre DEF Holding
<1>4. CASE inode[s].num # 0 /\ (inode[s].count > 1 \/ inode[s].nlinks # 0)
  <2>1. Panic(p, "free_inode") /\ inode' = inode /\ imap' = imap
    BY <1>4, <1>g, <1>s DEF free_inode
  <2> QED
    BY <1>0, <2>1, Panics
<1>5. CASE ~(inode[s].num # 0 /\ (inode[s].count > 1 \/ inode[s].nlinks # 0))
  <2>f. PICK f : f = Returns(g)
    OBVIOUS
  <2>1. OneInode(s, ZeroInode) /\ imap' = imap \ {inode[s].num} /\ Goto(p, f)
    BY <1>5, <1>g, <1>s, <2>f DEF free_inode, OneInode
  <2>2. imap' \subseteq Numbers
    BY <1>1, <2>1 DEF Tables
  <2>3. Tables' /\ inode'[s] = ZeroInode /\ SameBut(s)
    BY <1>0, <2>1, <2>2, ZeroIs, TablesKeep DEF SameBut
  <2>4. Fits(f) /\ f.at = "user" /\ Own(f) = 0 /\ Below(f) = 0 /\ Empty(f) = 0 /\ Below(g) = 0
    BY <1>1, <1>2, <2>f, UserReturns
  <2>5. inode[s].count = 1
    <3>1. Bits(p, s) = Bit(file[p].slot, s) + Bit(s, s) + Bit(0, s)
      BY <1>g, <1>3, <2>4 DEF Bits
    <3>2. Bit(file[p].slot, s) \in {0, 1} /\ Bit(s, s) = 1 /\ Bit(0, s) = 0
      BY BitIs
    <3>3. inode[s].count \in Nat /\ Bits(p, s) <= inode[s].count
      BY HolderCounts DEF IInv
    <3>4. ~(inode[s].count > 1)
      BY <1>3, <1>5
    <3> QED
      BY <3>1, <3>2, <3>3, <3>4
  <2>6. inode'[s].count = inode[s].count - 1 /\ inode[s].count <= 1
    BY <2>3, <2>5, ZeroIs
  <2>7. Finds(f)' /\ f.at \notin Kept
    BY <2>4 DEF Finds, Kept
  <2> QED
    BY <1>0, <1>3, <1>g, <2>1, <2>3, <2>4, <2>6, <2>7, Drops
<1> QED
  BY <1>4, <1>5

\* new_inode() takes a number for the inode that get_empty_inode() has brought.
LEMMA KeepsNewInode ==
  ASSUME IInv, NEW p \in Procs, new_inode(p), UNCHANGED fileVars
  PROVE  IInv'
<1>g. PICK g : g = proc[p]
  OBVIOUS
<1> DEFINE free == Numbers \ imap
<1>0. /\ At(p, "new_inode") /\ g.at = "new_inode" /\ dir' = dir /\ file' = file /\ calls' = calls
      /\ last_inode' = last_inode /\ d_inode' = d_inode
  BY <1>g DEF new_inode, At, fileVars
<1>1. /\ g \in Process /\ Shape(g) /\ Tables /\ Holding(g) /\ OpensOnce(p) /\ Opens(p)
      /\ file[p].slot \in SlotOr0
  BY <1>g, Here
<1>2. g.stack = <<Frame("open_new", 0)>> /\ g.ip \in Slots
  BY <1>0, <1>1 DEF Shape, StackFits, HasSlot, Counted
<1>s. PICK s \in Slots : s = g.ip
  BY <1>2
<1>3. /\ Own(g) = s /\ Empty(g) = s /\ Below(g) = 0
      /\ inode[s].num = 0 /\ inode[s].count = 1 /\ inode[s] \in Inode
  <2>1. Own(g) = s /\ Empty(g) = s
    BY <1>0, <1>s DEF Own, Empty, Counted, Searches
  <2>2. Below(g) = 0
    BY <1>2, Stacking, FrameIs DEF Below
  <2> QED
    BY <1>1, <2>1, <2>2, SlotsAre DEF Holding, Tables
<1>4. {"open_new", "iput"} \subseteq Labels /\ s \in SlotOr0 /\ 0 \in SlotOr0
  BY SlotsAre DEF Labels, Waits
<1>5. CASE free = {}
  <2>f. PICK f : f = TailCalls(g, "iput", s, 0)
    OBVIOUS
  <2>1. inode' = inode /\ imap' = imap /\ Goto(p, f)
    BY <1>5, <1>g, <1>s, <2>f DEF new_inode
  <2>2. Tables' /\ SameHeld
    BY <1>0, <2>1, Idle
  <2>3. /\ f \in Process /\ f.at = "iput" /\ f.ip = s
        /\ f.stack = <<Frame("open_new", 0)>> /\ f.nr = g.nr /\ f.op = g.op
    BY <1>1, <1>2, <1>4, <2>f, TailCallIs
  <2>4. Own(f) = s /\ Empty(f) = s /\ Below(f) = 0
    <3>1. Head(f.stack).at = "open_new" /\ Head(f.stack).ip = 0
      BY <2>3, Stacking, FrameIs
    <3> QED
      BY <2>3, <3>1 DEF Own, Empty, Below, Counted, Searches
  <2>5. Fits(f)
    BY <2>3 DEF Fits, StackFits, HasSlot, Searches, Counted, Top, PutStack
  <2>6. SameRefs(g, f) /\ Keeps(f) /\ Finds(f)'
    BY <1>3, <2>3, <2>4 DEF SameRefs, Keeps, Kept, Finds
  <2> QED
    BY <1>0, <1>1, <1>g, <2>1, <2>2, <2>3, <2>5, <2>6, Quiet DEF OpensOnce
<1>6. CASE free # {}
  <2>n. PICK n \in Numbers : n = Min(free)
    <3>1. IsFiniteSet(Numbers) /\ Numbers \subseteq Nat
      BY FS_Interval, InodesAssumption DEF Numbers
    <3>2. IsFiniteSet(free) /\ free \in SUBSET Nat
      BY <3>1, FS_Subset
    <3>3. Min(free) \in free
      BY <1>6, <3>2, MinIn
    <3> QED
      BY <3>3
  <2>f. PICK f : f = ReturnsInode(g, s)
    OBVIOUS
  <2>r. PICK r : r = [inode[s] EXCEPT !.count = 1, !.nlinks = 1, !.dirt = TRUE, !.num = n]
    OBVIOUS
  <2>1. OneInode(s, r) /\ imap' = imap \cup {n} /\ Goto(p, f)
    <3>1. /\ inode' = [inode EXCEPT ![s].count = 1, ![s].nlinks = 1, ![s].dirt = TRUE, ![s].num = n]
          /\ imap' = imap \cup {n} /\ Goto(p, f)
      BY <1>6, <1>g, <1>s, <2>n, <2>f DEF new_inode
    <3>2. inode \in [Slots -> Inode]
      BY <1>1 DEF Tables
    <3>3. OneInode(s, r)
      BY <2>r, <3>1, <3>2 DEF OneInode, Inode
    <3> QED
      BY <3>1, <3>3
  <2>2. r \in Inode /\ r.num = n /\ r.count = 1 /\ n # 0
    <3>1. n \in 0..NInodes /\ n # 0
      BY InodesAssumption DEF Numbers
    <3> QED
      BY <2>r, <1>3, <3>1 DEF Inode
  <2>3. /\ Tables' /\ inode'[s] = r
        /\ \A t \in Slots \ {s} : inode'[t] = inode[t]
    <3>1. imap' \subseteq Numbers
      BY <1>1, <2>1 DEF Tables
    <3> QED
      BY <1>0, <2>1, <2>2, <3>1, TablesKeep
  <2>4. /\ f \in Process /\ f.at = "open_new" /\ f.ip = s
        /\ f.stack = <<>> /\ f.nr = g.nr /\ f.op = g.op
    <3>1. Returned(f, g, "open_new", s, <<>>)
      BY <1>1, <1>2, <1>4, <2>f, ReturnFrom
    <3> QED
      BY <3>1 DEF Returned
  <2>5. Own(f) = s /\ Empty(f) = 0 /\ Below(f) = 0
    BY <2>4 DEF Own, Empty, Below, Counted, Searches
  <2>6. Fits(f)
    BY <2>4 DEF Fits, StackFits, HasSlot, Searches, Counted, Top
  <2>7. \A t \in Slots : Bits(p, t) = BitsOf(file[p].slot, f, t) /\ Bits(p, t) \in 0..3
    BY <1>g, <1>3, <2>5, HolderCounts DEF Bits, BitsOf, IInv
  <2>8. Bits(p, s) >= 1 /\ file[p].slot # s
    <3>1. Bits(p, s) = Bit(file[p].slot, s) + 1
      <4>1. Bit(s, s) = 1 /\ Bit(0, s) = 0 /\ Bit(file[p].slot, s) \in {0, 1}
        BY BitIs
      <4>2. Bits(p, s) = Bit(file[p].slot, s) + Bit(s, s) + Bit(0, s)
        BY <1>g, <1>3 DEF Bits
      <4> QED
        BY <4>1, <4>2
    <3>2. Bits(p, s) <= 1
      BY <1>3, HolderCounts DEF IInv
    <3> QED
      BY <3>1, <3>2 DEF Bit
  <2>9. Moved(p, f)
    <3>1. inode'[s].count = inode[s].count /\ inode[s].count <= Bits(p, s)
      BY <1>3, <2>2, <2>3, <2>8, <2>7
    <3> SUFFICES ASSUME NEW t \in Slots
                 PROVE  /\ inode'[t].num = inode[t].num \/ inode[t].count <= Bits(p, t)
                        /\ inode'[t].count = inode[t].count
      BY <1>0, <2>7 DEF Moved
    <3> QED
      BY <2>3, <3>1
  <2>10. Holding(f)'
    <3>1. Below(f)' = 0 /\ Own(f)' = s /\ Empty(f)' = 0
      BY <2>5 DEF Below, Own, Empty
    <3>2. f.at \notin Kept
      BY <2>4 DEF Kept
    <3> QED
      BY <2>2, <2>3, <2>4, <3>1, <3>2 DEF Holding
  <2>11. Opens(p)'
    BY <1>0, <1>1, <2>3, <2>8, SlotsAre DEF Opens
  <2>12. Finds(f)' /\ Stays(f) = f
    BY <2>4 DEF Finds, Stays
  <2> QED
    BY <1>0, <1>1, <1>g, <2>1, <2>3, <2>4, <2>6, <2>9, <2>10, <2>11, <2>12, Moves DEF OpensOnce
<1> QED
  BY <1>5, <1>6

\* create_block() holds no inode of its own: the open file does.
LEMMA BlockReturns ==
  ASSUME NEW g \in Process, BlockStack(g), g.at \in {"create_block", "getblk"}
  PROVE  LET h == Returns(g)
         IN  /\ h \in Process /\ h.at = "write_block" /\ h.stack = <<>> /\ h.nr = g.nr /\ h.op = g.op
             /\ Own(g) = 0 /\ Below(g) = 0 /\ Empty(g) = 0
<1>1. PICK s \in Slots : g.stack = <<Frame("write_block", s)>>
  BY DEF BlockStack
<1>2. Returned(Returns(g), g, "write_block", s, <<>>)
  <2>1. "write_block" \in Labels /\ s \in SlotOr0 /\ 0 \in SlotOr0
    BY SlotsAre DEF Labels
  <2> QED
    BY <1>1, <2>1, ReturnFrom
<1>3. Below(g) = 0
  BY <1>1, Stacking, FrameIs DEF Below, Counted
<1>4. Own(g) = 0 /\ Empty(g) = 0
  BY DEF Own, Empty, Counted, Searches
<1> QED
  BY <1>2, <1>3, <1>4 DEF Returned

\* create_block() for an open file
LEMMA KeepsCreateBlock ==
  ASSUME IInv, NEW p \in Procs, create_block(p), UNCHANGED fileVars
  PROVE  IInv'
<1>g. PICK g : g = proc[p]
  OBVIOUS
<1> DEFINE free == Zones \ zmap
<1>0. /\ At(p, "create_block") /\ g.at = "create_block" /\ dir' = dir /\ file' = file /\ calls' = calls
      /\ inode' = inode /\ last_inode' = last_inode /\ d_inode' = d_inode /\ imap' = imap
  BY <1>g DEF create_block, At, fileVars
<1>1. /\ g \in Process /\ Shape(g) /\ Tables /\ OpensOnce(p)
  BY <1>g, Here
<1>2. BlockStack(g)
  BY <1>0, <1>1 DEF Shape, StackFits
<1>3. Tables' /\ SameHeld
  BY <1>0, Idle
<1>h. PICK h : h = Returns(g)
  OBVIOUS
<1>4. /\ h \in Process /\ h.at = "write_block" /\ h.stack = <<>> /\ h.nr = g.nr /\ h.op = g.op
      /\ Own(g) = 0 /\ Below(g) = 0 /\ Empty(g) = 0
  BY <1>0, <1>1, <1>2, <1>h, BlockReturns
<1>5. CASE inode[g.ip].zone # 0 \/ free = {}
  <2>f. PICK f : f = [h EXCEPT !.blk = inode[g.ip].zone]
    OBVIOUS
  <2>1. Goto(p, f)
    BY <1>5, <1>g, <1>h, <2>f DEF create_block
  <2>2. f \in Process /\ f.at = "write_block" /\ f.stack = <<>> /\ f.nr = g.nr /\ f.op = g.op
    <3>1. inode[g.ip] \in Inode
      BY <1>0, <1>1 DEF Shape, HasSlot, Tables
    <3>2. PICK z \in 0..NZones : z = inode[g.ip].zone
      BY <3>1 DEF Inode
    <3> QED
      BY <1>4, <2>f, <3>2 DEF Process
  <2>3. Fits(f) /\ Own(f) = 0 /\ Below(f) = 0 /\ Empty(f) = 0
    BY <2>2 DEF Fits, StackFits, HasSlot, Searches, Counted, Top, Own, Below, Empty
  <2>4. SameRefs(g, f) /\ Keeps(f) /\ Finds(f)'
    BY <1>4, <2>2, <2>3 DEF SameRefs, Keeps, Kept, Finds
  <2> QED
    BY <1>0, <1>1, <1>3, <1>g, <2>1, <2>2, <2>3, <2>4, Quiet DEF OpensOnce
<1>6. CASE ~(inode[g.ip].zone # 0 \/ free = {})
  <2>n. PICK n \in Zones : n = Min(free)
    <3>1. IsFiniteSet(Zones) /\ Zones \subseteq Nat
      BY FS_Interval, InodesAssumption DEF Zones
    <3>2. IsFiniteSet(free) /\ free \in SUBSET Nat
      BY <3>1, FS_Subset
    <3>3. Min(free) \in free
      BY <1>6, <3>2, MinIn
    <3> QED
      BY <3>3
  <2>f. PICK f : f = [g EXCEPT !.at = "getblk", !.blk = n]
    OBVIOUS
  <2>1. Goto(p, f)
    BY <1>6, <1>g, <2>n, <2>f DEF create_block
  <2>2. f \in Process /\ f.at = "getblk" /\ f.stack = g.stack /\ f.nr = g.nr /\ f.op = g.op /\ f.ip = g.ip
    <3>1. n \in 0..NZones /\ "getblk" \in Labels
      BY InodesAssumption DEF Zones, Labels, Yields
    <3> QED
      BY <1>1, <2>f, <3>1 DEF Process
  <2>3. BlockStack(f)
    BY <1>2, <2>2 DEF BlockStack
  <2>4. Own(f) = 0 /\ Below(f) = 0 /\ Empty(f) = 0
    BY <2>2, <2>3, BlockReturns
  <2>5. Fits(f)
    <3>1. f.ip \in Slots
      BY <1>0, <1>1, <2>2 DEF Shape, HasSlot
    <3> QED
      BY <2>2, <2>3, <3>1 DEF Fits, StackFits, HasSlot, Searches, Counted, Top
  <2>6. SameRefs(g, f) /\ Keeps(f) /\ Finds(f)'
    BY <1>4, <2>2, <2>4 DEF SameRefs, Keeps, Kept, Finds
  <2> QED
    BY <1>0, <1>1, <1>3, <1>g, <2>1, <2>2, <2>5, <2>6, Quiet DEF OpensOnce
<1> QED
  BY <1>5, <1>6

\* new_block() behind getblk(): another zone in the inode of an open file
LEMMA KeepsCreateBlockEnd ==
  ASSUME IInv, NEW p \in Procs, create_block_end(p), UNCHANGED fileVars
  PROVE  IInv'
<1>g. PICK g : g = proc[p]
  OBVIOUS
<1>0. /\ At(p, "getblk") /\ g.at = "getblk" /\ dir' = dir /\ file' = file /\ calls' = calls
      /\ last_inode' = last_inode /\ d_inode' = d_inode /\ imap' = imap
  BY <1>g DEF create_block_end, At, fileVars
<1>1. /\ g \in Process /\ Shape(g) /\ Tables /\ OpensOnce(p)
  BY <1>g, Here
<1>2. BlockStack(g)
  BY <1>0, <1>1 DEF Shape, StackFits
<1>f. PICK f : f = Returns(g)
  OBVIOUS
<1>4. /\ f \in Process /\ f.at = "write_block" /\ f.stack = <<>> /\ f.nr = g.nr /\ f.op = g.op
      /\ Own(g) = 0 /\ Below(g) = 0 /\ Empty(g) = 0
  BY <1>0, <1>1, <1>2, <1>f, BlockReturns
<1>s. PICK s \in Slots : s = g.ip
  BY <1>0, <1>1 DEF Shape, HasSlot
<1>r. PICK r : r = [inode[s] EXCEPT !.zone = g.blk, !.dirt = TRUE]
  OBVIOUS
<1>5. OneInode(s, r) /\ Goto(p, f)
  <2>1. inode' = [inode EXCEPT ![s].zone = g.blk, ![s].dirt = TRUE] /\ Goto(p, f)
    BY <1>g, <1>s, <1>f DEF create_block_end
  <2>2. inode \in [Slots -> Inode]
    BY <1>1 DEF Tables
  <2> QED
    BY <1>r, <2>1, <2>2 DEF OneInode, Inode
<1>6. r \in Inode /\ r.num = inode[s].num /\ r.count = inode[s].count
  <2>1. inode[s] \in Inode
    BY <1>1 DEF Tables
  <2>2. g.blk \in 0..NZones
    BY <1>1 DEF Process
  <2> QED
    BY <1>r, <2>1, <2>2 DEF Inode
<1>7. Tables' /\ SameHeld
  BY <1>0, <1>1, <1>5, <1>6, TablesKeep DEF Tables
<1>8. Fits(f) /\ Own(f) = 0 /\ Below(f) = 0 /\ Empty(f) = 0
  BY <1>4 DEF Fits, StackFits, HasSlot, Searches, Counted, Top, Own, Below, Empty
<1>9. SameRefs(g, f) /\ Keeps(f) /\ Finds(f)'
  BY <1>4, <1>8 DEF SameRefs, Keeps, Kept, Finds
<1> QED
  BY <1>0, <1>1, <1>g, <1>4, <1>5, <1>7, <1>8, <1>9, Quiet DEF OpensOnce

(* fs/namei.c: the directory *)

\* find_entry() and add_entry() choose an entry of those they look for.
LEMMA EntriesSet ==
  ASSUME NEW S, S \subseteq Entries, S # {}
  PROVE  Min(S) \in S
<1>1. IsFiniteSet(Entries) /\ Entries \subseteq Nat
  BY FS_Interval, FilesAssumption DEF Entries
<1>2. IsFiniteSet(S) /\ S \in SUBSET Nat
  BY <1>1, FS_Subset
<1> QED
  BY <1>2, MinIn

\* The entries, and 0 for none.
LEMMA EntriesAre ==
  /\ Entries \subseteq 0..DirSize /\ 0 \in 0..DirSize /\ 0 \notin Entries /\ 0 \in 0..NInodes
  /\ \A e \in 0..DirSize : e # 0 => e \in Entries
BY FilesAssumption, InodesAssumption DEF Entries

\* The return to a system call from what it does with the directory
LEMMA TopReturns ==
  ASSUME NEW g \in Process, g.at \in {"find_entry", "add_entry", "iput_dir"}, Holding(g),
         NEW a \in Top, NEW s \in SlotOr0, g.stack = <<Frame(a, s)>>,
         a \in HasSlot => s \in Slots, a # "open_done",
         a \in {"open_inode", "link_inode"} => g.nr # 0,
         a \in {"open_found", "unlink_found", "link_found", "open_inode", "link_inode"} => s = 0,
         NEW f \in Process, f.op = g.op, f.nr = g.nr,
         f.at = Returns(g).at, f.ip = Returns(g).ip, f.stack = Returns(g).stack
  PROVE  Fits(f) /\ SameRefs(g, f) /\ Keeps(f) /\ f.at = a
<1>1. f.at = a /\ f.ip = s /\ f.stack = <<>>
  <2>1. a \in Labels /\ 0 \in SlotOr0
    BY SlotsAre DEF Labels, Yields, Top
  <2>2. Returned(Returns(g), g, a, s, <<>>)
    BY <2>1, ReturnFrom
  <2> QED
    BY <2>2 DEF Returned
<1>2. Below(g) = (IF a \in Counted THEN s ELSE 0) /\ Head(g.stack).at = a
  BY Stacking, FrameIs DEF Below
<1>3. Own(g) = 0 /\ Empty(g) = 0
  BY DEF Own, Empty, Counted, Searches
<1>4. Own(f) = (IF a \in Counted THEN s ELSE 0) /\ Below(f) = 0 /\ Empty(f) = 0
  BY <1>1 DEF Own, Below, Empty, Searches, Top
<1>5. Fits(f)
  BY <1>1 DEF Fits, StackFits, HasSlot, Searches, Counted, Top
<1>6. SameRefs(g, f)
  BY <1>2, <1>3, <1>4 DEF SameRefs
<1>7. a \in Kept => a \in Counted /\ s # 0
  BY SlotsAre DEF Kept, Counted, HasSlot, Top
<1>8. Keeps(f)
  BY <1>1, <1>2, <1>4, <1>7 DEF Keeps, Holding
<1> QED
  BY <1>1, <1>5, <1>6, <1>8

\* The callers of the three
LEMMA TopStacks ==
  ASSUME NEW g, Shape(g), g.at \in {"find_entry", "add_entry", "iput_dir"}
  PROVE  \E a \in Top, s \in SlotOr0 :
           /\ g.stack = <<Frame(a, s)>>
           /\ a \in HasSlot => s \in Slots
           /\ a # "open_done" /\ (a \in {"open_inode", "link_inode"} => g.nr # 0)
           /\ a \in {"open_found", "unlink_found", "link_found", "open_inode", "link_inode"} => s = 0
           /\ g.at # "find_entry" => a \notin {"open_found", "unlink_found", "link_found"}
<1>0. Slots \subseteq SlotOr0 /\ 0 \in SlotOr0
  BY SlotsAre
<1>1. CASE g.at = "find_entry"
  <2>1. FindStack(g)
    BY <1>1 DEF Shape, StackFits
  <2>2. CASE \E a \in {"open_found", "unlink_found", "link_found"} : g.stack = <<Frame(a, 0)>>
    <3>1. PICK a \in {"open_found", "unlink_found", "link_found"} : g.stack = <<Frame(a, 0)>>
      BY <2>2
    <3>2. a \in Top /\ a \notin HasSlot
      BY DEF Top, HasSlot, Counted
    <3> QED
      BY <1>0, <1>1, <3>1, <3>2
  <2>3. CASE \E s \in Slots : g.stack = <<Frame("link_target", s)>>
    <3>1. "link_target" \in Top
      BY DEF Top
    <3> QED
      BY <1>0, <1>1, <2>3, <3>1
  <2> QED
    BY <2>1, <2>2, <2>3 DEF FindStack
<1>2. CASE g.at = "add_entry"
  <2>1. PICK a \in {"open_added", "link_added"}, s \in Slots : g.stack = <<Frame(a, s)>>
    BY <1>2 DEF Shape, StackFits, AddStack
  <2>2. a \in Top
    BY DEF Top
  <2> QED
    BY <1>0, <2>1, <2>2
<1>3. CASE g.at = "iput_dir"
  <2>1. DirStack(g)
    BY <1>3 DEF Shape, StackFits
  <2>2. CASE \E a \in {"open_inode", "link_inode"} : g.stack = <<Frame(a, 0)>> /\ g.nr # 0
    <3>1. PICK a \in {"open_inode", "link_inode"} : g.stack = <<Frame(a, 0)>> /\ g.nr # 0
      BY <2>2
    <3>2. a \in Top /\ a \notin HasSlot
      BY DEF Top, HasSlot, Counted
    <3> QED
      BY <1>0, <3>1, <3>2
  <2>3. CASE \E a \in {"open_new_done", "link_count", "link_drop"}, s \in Slots : g.stack = <<Frame(a, s)>>
    <3>1. PICK a \in {"open_new_done", "link_count", "link_drop"}, s \in Slots : g.stack = <<Frame(a, s)>>
      BY <2>3
    <3>2. a \in Top
      BY DEF Top
    <3> QED
      BY <1>0, <3>1, <3>2
  <2> QED
    BY <2>1, <2>2, <2>3 DEF DirStack
<1> QED
  BY <1>1, <1>2, <1>3

\* An entry that find_entry() returns has an inode, until somebody else runs.
LEMMA KeepsFindEntry ==
  ASSUME IInv, NEW p \in Procs, find_entry(p)
  PROVE  IInv'
<1>g. PICK g : g = proc[p]
  OBVIOUS
<1> DEFINE found == {e \in Entries : dir[e].name = g.name /\ dir[e].ino # 0}
<1>0. /\ At(p, "find_entry") /\ g.at = "find_entry" /\ dir' = dir /\ file' = file /\ calls' = calls
      /\ inode' = inode /\ last_inode' = last_inode /\ d_inode' = d_inode /\ imap' = imap
  BY <1>g DEF find_entry, At, fileVars, inodeVars
<1>1. /\ g \in Process /\ Shape(g) /\ Tables /\ OpensOnce(p) /\ Holding(g)
  BY <1>g, Here
<1>2. Tables' /\ SameHeld
  BY <1>0, Idle
<1>a. PICK a \in Top, s \in SlotOr0 :
           /\ g.stack = <<Frame(a, s)>>
           /\ a \in HasSlot => s \in Slots
           /\ a # "open_done" /\ (a \in {"open_inode", "link_inode"} => g.nr # 0)
           /\ a \in {"open_found", "unlink_found", "link_found", "open_inode", "link_inode"} => s = 0
  BY <1>0, <1>1, TopStacks
<1>e. PICK e \in 0..DirSize : e = (IF found = {} THEN 0 ELSE Min(found)) /\ (e = 0 \/ dir[e].ino # 0)
  <2>1. CASE found = {}
    BY <2>1, EntriesAre
  <2>2. CASE found # {}
    <3>1. Min(found) \in found
      BY <2>2, EntriesSet
    <3> QED
      BY <2>2, <3>1, EntriesAre
  <2> QED
    BY <2>1, <2>2
<1>h. PICK h : h = Returns(g)
  OBVIOUS
<1>f. PICK f : f = [h EXCEPT !.de = e]
  OBVIOUS
<1>3. Goto(p, f)
  BY <1>g, <1>e, <1>h, <1>f DEF find_entry
<1>4. Returned(h, g, a, s, <<>>)
  <2>1. a \in Labels /\ 0 \in SlotOr0
    BY SlotsAre DEF Labels, Yields, Top
  <2> QED
    BY <1>1, <1>a, <1>h, <2>1, ReturnFrom
<1>5. f \in Process /\ f.op = g.op /\ f.nr = g.nr /\ f.at = h.at /\ f.ip = h.ip /\ f.stack = h.stack /\ f.de = e
  BY <1>4, <1>f DEF Process, Returned
<1>6. Fits(f) /\ SameRefs(g, f) /\ Keeps(f)
  BY <1>0, <1>1, <1>a, <1>h, <1>5, TopReturns
<1>7. Finds(f)'
  BY <1>0, <1>5, <1>e DEF Finds
<1> QED
  BY <1>0, <1>1, <1>2, <1>g, <1>3, <1>5, <1>6, <1>7, Quiet DEF OpensOnce

\* add_entry() takes an entry that has no inode.
LEMMA KeepsAddEntry ==
  ASSUME IInv, NEW p \in Procs, add_entry(p)
  PROVE  IInv'
<1>g. PICK g : g = proc[p]
  OBVIOUS
<1> DEFINE free == {i \in Entries : dir[i].ino = 0}
<1>0. /\ At(p, "add_entry") /\ g.at = "add_entry" /\ file' = file /\ calls' = calls
      /\ inode' = inode /\ last_inode' = last_inode /\ d_inode' = d_inode /\ imap' = imap
  BY <1>g DEF add_entry, At, inodeVars
<1>1. /\ g \in Process /\ Shape(g) /\ Tables /\ OpensOnce(p) /\ Holding(g)
  BY <1>g, Here
<1>a. PICK a \in Top, s \in SlotOr0 :
           /\ g.stack = <<Frame(a, s)>>
           /\ a \in HasSlot => s \in Slots
           /\ a # "open_done" /\ (a \in {"open_inode", "link_inode"} => g.nr # 0)
           /\ a \in {"open_found", "unlink_found", "link_found", "open_inode", "link_inode"} => s = 0
           /\ a \notin {"open_found", "unlink_found", "link_found"}
  BY <1>0, <1>1, TopStacks
<1>e. PICK e \in 0..DirSize : e = (IF free = {} THEN 0 ELSE Min(free))
  <2>1. CASE free = {}
    BY <2>1, EntriesAre
  <2>2. CASE free # {}
    <3>1. Min(free) \in free
      BY <2>2, EntriesSet
    <3> QED
      BY <2>2, <3>1, EntriesAre
  <2> QED
    BY <2>1, <2>2
<1>h. PICK h : h = Returns(g)
  OBVIOUS
<1>f. PICK f : f = [h EXCEPT !.de = e]
  OBVIOUS
<1>3. Goto(p, f) /\ dir' = [i \in Entries |-> IF i = e THEN [name |-> g.name, ino |-> 0] ELSE dir[i]]
  BY <1>g, <1>e, <1>h, <1>f DEF add_entry
<1>2. Tables' /\ SameHeld
  <2>1. g.name \in Names \cup {0}
    BY <1>1 DEF Process
  <2>2. dir' \in [Entries -> [name : Names \cup {0}, ino : 0..NInodes]]
    BY <1>1, <1>3, <2>1, EntriesAre DEF Tables
  <2> QED
    BY <1>0, <1>1, <2>2 DEF Tables, SameHeld
<1>4. Returned(h, g, a, s, <<>>)
  <2>1. a \in Labels /\ 0 \in SlotOr0
    BY SlotsAre DEF Labels, Yields, Top
  <2> QED
    BY <1>1, <1>a, <1>h, <2>1, ReturnFrom
<1>5. f \in Process /\ f.op = g.op /\ f.nr = g.nr /\ f.at = h.at /\ f.ip = h.ip /\ f.stack = h.stack /\ f.de = e
  BY <1>4, <1>f DEF Process, Returned
<1>6. Fits(f) /\ SameRefs(g, f) /\ Keeps(f) /\ f.at = a
  BY <1>0, <1>1, <1>a, <1>h, <1>5, TopReturns
<1>7. Finds(f)'
  BY <1>6, <1>a DEF Finds
<1> QED
  BY <1>0, <1>1, <1>2, <1>g, <1>3, <1>5, <1>6, <1>7, Quiet DEF OpensOnce

\* The iput() of the directory is a wait, in which what is held stays held.
LEMMA KeepsIputDir ==
  ASSUME IInv, NEW p \in Procs, iput_dir(p)
  PROVE  IInv'
<1>g. PICK g : g = proc[p]
  OBVIOUS
<1>0. /\ At(p, "iput_dir") /\ g.at = "iput_dir" /\ dir' = dir /\ file' = file /\ calls' = calls
      /\ inode' = inode /\ last_inode' = last_inode /\ d_inode' = d_inode /\ imap' = imap
  BY <1>g DEF iput_dir, At, fileVars, inodeVars
<1>1. /\ g \in Process /\ Shape(g) /\ Tables /\ OpensOnce(p) /\ Holding(g)
  BY <1>g, Here
<1>2. Tables' /\ SameHeld
  BY <1>0, Idle
<1>a. PICK a \in Top, s \in SlotOr0 :
           /\ g.stack = <<Frame(a, s)>>
           /\ a \in HasSlot => s \in Slots
           /\ a # "open_done" /\ (a \in {"open_inode", "link_inode"} => g.nr # 0)
           /\ a \in {"open_found", "unlink_found", "link_found", "open_inode", "link_inode"} => s = 0
           /\ a \notin {"open_found", "unlink_found", "link_found"}
  BY <1>0, <1>1, TopStacks
<1>f. PICK f : f = Returns(g)
  OBVIOUS
<1>3. Goto(p, f)
  BY <1>g, <1>f DEF iput_dir
<1>5. f \in Process /\ f.op = g.op /\ f.nr = g.nr
  <2>1. a \in Labels /\ 0 \in SlotOr0
    BY SlotsAre DEF Labels, Yields, Top
  <2>2. Returned(f, g, a, s, <<>>)
    BY <1>1, <1>a, <1>f, <2>1, ReturnFrom
  <2> QED
    BY <2>2 DEF Returned
<1>6. Fits(f) /\ SameRefs(g, f) /\ Keeps(f) /\ f.at = a
  BY <1>0, <1>1, <1>a, <1>f, <1>5, TopReturns
<1>7. Finds(f)'
  BY <1>6, <1>a DEF Finds
<1> QED
  BY <1>0, <1>1, <1>2, <1>g, <1>3, <1>5, <1>6, <1>7, Quiet DEF OpensOnce

(* System calls *)

\* A system call between the functions it calls holds at most the inode at ip.
LEMMA TopIs ==
  ASSUME IInv, NEW p \in Procs, NEW g, g = proc[p], g.at \in Top
  PROVE  /\ g \in Process /\ Shape(g) /\ Holding(g) /\ Finds(g) /\ Tables
         /\ g.stack = <<>> /\ Below(g) = 0 /\ Empty(g) = 0
         /\ Own(g) = IF g.at \in Counted THEN g.ip ELSE 0
         /\ g.op \in {"open", "creat"} => file[p].slot = 0
<1>1. g \in Process /\ Shape(g) /\ Holding(g) /\ Finds(g) /\ Tables /\ OpensOnce(p)
  BY Here
<1>2. g.stack = <<>>
  BY <1>1 DEF Shape, StackFits
<1> QED
  BY <1>1, <1>2 DEF Below, Empty, Own, OpensOnce, Searches, Top

\* What a call keeps
Called(f, h, label, s, ret) ==
  /\ f \in Process /\ f.at = label /\ f.ip = s
  /\ f.op = h.op /\ f.nr = h.nr /\ f.de = h.de

\* A call changes the label, the slot and the stack.
LEMMA CallKeeps ==
  ASSUME NEW h \in Process, NEW label \in Labels, NEW s \in SlotOr0, NEW ret \in Labels
  PROVE  /\ Called(Calls(h, label, s, ret), h, label, s, ret)
         /\ h.stack = <<>> => Calls(h, label, s, ret).stack = <<Frame(ret, h.ip)>>
<1> DEFINE g == Calls(h, label, s, ret)
<1>1. /\ g \in Process /\ g.at = label /\ g.ip = s /\ g.stack = <<Frame(ret, h.ip)>> \o h.stack
      /\ g.op = h.op /\ g.nr = h.nr /\ g.de = h.de
  BY CallIs
<1> HIDE DEF g
<1>2. h.stack = <<>> => <<Frame(ret, h.ip)>> \o h.stack = <<Frame(ret, h.ip)>>
  BY Pushing
<1>3. Called(g, h, label, s, ret) /\ (h.stack = <<>> => g.stack = <<Frame(ret, h.ip)>>)
  BY <1>1, <1>2 DEF Called
<1> QED
  BY <1>3 DEF g

\* What a system call calls
LEMMA TopCalls ==
  ASSUME NEW h \in Process, h.stack = <<>>, NEW label \in Labels, NEW s \in SlotOr0, NEW ret \in Labels,
         NEW f, f = Calls(h, label, s, ret)
  PROVE  /\ f \in Process /\ f.at = label /\ f.ip = s /\ f.stack = <<Frame(ret, h.ip)>>
         /\ f.op = h.op /\ f.nr = h.nr /\ f.de = h.de
         /\ Below(f) = (IF ret \in Counted THEN h.ip ELSE 0) /\ Head(f.stack).at = ret
<1>1. Called(f, h, label, s, ret) /\ f.stack = <<Frame(ret, h.ip)>>
  BY CallKeeps
<1>2. f.stack # <<>> /\ Head(f.stack) = Frame(ret, h.ip)
  BY <1>1, Stacking
<1>3. Head(f.stack).at = ret /\ Head(f.stack).ip = h.ip
  BY <1>2, FrameIs
<1> QED
  BY <1>1, <1>2, <1>3 DEF Below, Called

\* A process at user level
LEMMA UserFits ==
  /\ Fits(AtUser) /\ Stays(AtUser) = AtUser /\ AtUser.at = "user" /\ AtUser.op = "none"
  /\ Own(AtUser) = 0 /\ Below(AtUser) = 0 /\ Empty(AtUser) = 0
<1>1. AtUser.at = "user" /\ AtUser.stack = <<>> /\ AtUser.op = "none"
  BY DEF AtUser
<1>2. AtUser \in Process
  <2>1. <<>> \in Seq([at : Labels, ip : SlotOr0])
    BY EmptySeq
  <2>2. 0 \in SlotOr0 /\ 0 \in 0..NInodes /\ 0 \in 0..NZones /\ 0 \in 0..DirSize
    BY InodesAssumption, FilesAssumption DEF SlotOr0
  <2>3. "user" \in Labels
    BY DEF Labels, Yields
  <2> QED
    BY <2>1, <2>2, <2>3 DEF Process, AtUser, Operation
<1> QED
  BY <1>1, <1>2 DEF Fits, StackFits, HasSlot, Counted, Searches, Stays, Own, Below, Empty

\* A call that ends, holding nothing
LEMMA KeepsReturn ==
  ASSUME IInv, NEW p \in Procs, NEW label \in Top, At(p, label), label \in Counted => proc[p].ip = 0, Return(p)
  PROVE  IInv'
<1>g. PICK g : g = proc[p]
  OBVIOUS
<1>0. /\ g.at = label /\ Goto(p, AtUser) /\ dir' = dir /\ file' = file /\ calls' = calls
      /\ inode' = inode /\ last_inode' = last_inode /\ d_inode' = d_inode /\ imap' = imap
  BY <1>g DEF Return, At, fileVars, inodeVars
<1>1. Below(g) = 0 /\ Empty(g) = 0 /\ Own(g) = 0
  BY <1>0, <1>g, TopIs
<1>2. Tables' /\ SameHeld
  BY <1>0, Idle
<1>3. SameRefs(g, AtUser) /\ Keeps(AtUser)
  BY <1>1, UserFits DEF SameRefs, Keeps, Kept
<1>4. Finds(AtUser)'
  BY UserFits DEF Finds
<1> QED
  BY <1>0, <1>g, <1>2, <1>3, <1>4, UserFits, Quiet

\* The end of sys_open(): the reference of the call becomes that of the file.
LEMMA KeepsOpened ==
  ASSUME IInv, NEW p \in Procs, NEW label \in {"open_got", "open_done", "open_new_done"}, At(p, label),
         proc[p].op \in {"open", "creat"}, Opened(p, proc[p].ip, proc[p].nr)
  PROVE  IInv'
<1>g. PICK g : g = proc[p]
  OBVIOUS
<1>0. /\ g.at = label /\ Goto(p, AtUser) /\ dir' = dir /\ calls' = calls
      /\ inode' = inode /\ last_inode' = last_inode /\ d_inode' = d_inode /\ imap' = imap
      /\ file' = [file EXCEPT ![p] = [slot |-> g.ip, num |-> g.nr]]
  BY <1>g DEF Opened, At, inodeVars
<1>1. /\ g \in Process /\ Shape(g) /\ Holding(g) /\ Tables
      /\ g.stack = <<>> /\ Below(g) = 0 /\ Empty(g) = 0
      /\ Own(g) = g.ip /\ file[p].slot = 0
  BY <1>0, <1>g, TopIs DEF Top, Counted
<1>2. g.ip \in Slots /\ g.nr \in 0..NInodes
  BY <1>0, <1>1 DEF Shape, HasSlot, Counted, Process
<1>s. PICK s \in Slots : s = g.ip
  BY <1>2
<1>3. inode[s].num = g.nr /\ g.nr # 0
  BY <1>0, <1>1, <1>s, SlotsAre DEF Holding, Kept
<1>4. /\ file' \in [Procs -> [slot : SlotOr0, num : 0..NInodes]]
      /\ file'[p].slot = s /\ file'[p].num = g.nr
      /\ \A q \in Procs \ {p} : file'[q] = file[q]
  <2>1. [slot |-> g.ip, num |-> g.nr] \in [slot : SlotOr0, num : 0..NInodes]
    BY <1>2, SlotsAre
  <2> QED
    BY <1>0, <1>1, <1>s, <2>1 DEF Tables
<1>5. Tables'
  BY <1>0, <1>1, <1>4 DEF Tables
<1>6. Moved(p, AtUser)
  <2> SUFFICES ASSUME NEW t \in Slots
               PROVE  BitsOf(file'[p].slot, AtUser, t) = Bits(p, t)
    BY <1>0 DEF Moved
  <2>1. /\ BitsOf(file'[p].slot, AtUser, t) = Bit(s, t) + Bit(0, t) + Bit(0, t)
        /\ Bits(p, t) = Bit(0, t) + Bit(s, t) + Bit(0, t)
    BY <1>1, <1>4, <1>g, <1>s, UserFits DEF BitsOf, Bits
  <2>2. Bit(s, t) \in {0, 1} /\ Bit(0, t) = 0
    BY BitIs
  <2> QED
    BY <2>1, <2>2
<1>7. Holding(AtUser)'
  <2>1. AtUser.stack = <<>>
    BY DEF AtUser
  <2> QED
    BY <2>1, UserFits DEF Holding, Own, Below, Empty, Kept
<1>8. Opens(p)'
  BY <1>0, <1>3, <1>4 DEF Opens
<1>9. Finds(AtUser)'
  BY UserFits DEF Finds
<1>10. Holding(Stays(AtUser))'
  BY <1>7, UserFits DEF Holding, Own, Below, Empty, Stays
<1> QED
  BY <1>0, <1>4, <1>5, <1>6, <1>8, <1>9, <1>10, UserFits, Moves

\* iget() for a system call that holds nothing
LEMMA KeepsIget ==
  ASSUME IInv, NEW p \in Procs, NEW label \in {"open_inode", "unlink_found", "link_inode"}, At(p, label),
         NEW n \in 0..NInodes, n # 0, NEW ret \in Got,
         UNCHANGED <<inodeVars, fileVars>>, Goto(p, Iget(proc[p], n, ret))
  PROVE  IInv'
<1>g. PICK g : g = proc[p]
  OBVIOUS
<1>f. PICK f : f = Iget(g, n, ret)
  OBVIOUS
<1>0. /\ g.at = label /\ Goto(p, f) /\ dir' = dir /\ calls' = calls /\ file' = file
      /\ inode' = inode /\ last_inode' = last_inode /\ d_inode' = d_inode /\ imap' = imap
  BY <1>g, <1>f DEF At, inodeVars, fileVars
<1>1. /\ g \in Process /\ Shape(g) /\ g.stack = <<>> /\ Below(g) = 0 /\ Empty(g) = 0 /\ Own(g) = 0
      /\ g.ip = 0 /\ (g.op \in {"open", "creat"} => file[p].slot = 0)
  <2>1. g.at \in Top /\ g.at \notin Counted
    BY <1>0 DEF Top, Counted
  <2>2. Shape(g)
    BY <2>1, <1>g, TopIs
  <2>3. g.ip = 0
    BY <1>0, <2>2 DEF Shape
  <2> QED
    BY <1>g, <2>1, <2>2, <2>3, TopIs
<1>2. Tables' /\ SameHeld
  BY <1>0, Idle
<1>3. /\ f \in Process /\ f.at = "get_empty_inode" /\ f.nr = n /\ f.op = g.op
      /\ f.stack = <<Frame("iget_search", 0), Frame(ret, 0)>>
  <2> DEFINE T == [at : Labels, ip : SlotOr0]
             st == <<Frame("iget_search", 0), Frame(ret, 0)>>
  <2>1. 0 \in SlotOr0 /\ {"get_empty_inode", "iget_search", ret} \subseteq Labels
    BY SlotsAre DEF Labels, Got
  <2>2. st \in Seq(T)
    <3>1. Frame("iget_search", 0) \in T /\ Frame(ret, 0) \in T
      BY <2>1 DEF Frame
    <3> HIDE DEF T
    <3> QED
      BY <3>1
  <2>3. st \o <<>> = st
    <3> HIDE DEF st, T
    <3> QED
      BY <2>2, ConcatEmptySeq
  <2>4. f = [g EXCEPT !.at = "get_empty_inode", !.ip = 0, !.nr = n, !.stack = st]
    BY <1>1, <1>f, <2>3 DEF Iget
  <2> HIDE DEF st
  <2>5. /\ f \in Process /\ f.at = "get_empty_inode" /\ f.nr = n /\ f.op = g.op
        /\ f.stack = st
    BY <1>1, <2>1, <2>2, <2>4 DEF Process
  <2> QED
    BY <2>5 DEF st
<1>4. EmptyStack(f)
  BY <1>3 DEF EmptyStack
<1>5. Fits(f)
  BY <1>3, <1>4 DEF Fits, StackFits, HasSlot, Searches, Counted, Top
<1>6. SameRefs(g, f) /\ Keeps(f)
  <2>1. Below(f) = 0
    BY <1>4, EmptyBelow
  <2> QED
    BY <1>1, <1>3, <2>1 DEF SameRefs, Keeps, Kept, Own, Empty, Counted, Searches
<1>7. Finds(f)'
  BY <1>3 DEF Finds
<1> QED
  BY <1>0, <1>1, <1>2, <1>3, <1>g, <1>5, <1>6, <1>7, Quiet

\* iput() of the inode of a system call, its last step
LEMMA KeepsPut ==
  ASSUME IInv, NEW p \in Procs,
         NEW label \in {"open_added", "open_new_done", "unlink_got", "link_count", "link_drop"}, At(p, label),
         Goto(p, Calls(proc[p], "iput", proc[p].ip, "user")), Tables', SameHeld, file' = file
  PROVE  IInv'
<1>g. PICK g : g = proc[p]
  OBVIOUS
<1>f. PICK f : f = Calls(g, "iput", g.ip, "user")
  OBVIOUS
<1>0. g.at = label /\ Goto(p, f)
  BY <1>g, <1>f DEF At
<1>1. /\ g \in Process /\ Shape(g) /\ g.stack = <<>> /\ Below(g) = 0 /\ Empty(g) = 0 /\ Own(g) = g.ip
      /\ (g.op \in {"open", "creat"} => file[p].slot = 0)
  <2>1. g.at \in Top /\ g.at \in Counted
    BY <1>0 DEF Top, Counted
  <2> QED
    BY <1>g, <2>1, TopIs
<1>2. g.ip \in Slots /\ g.ip \in SlotOr0
  BY <1>0, <1>1, SlotsAre DEF Shape, HasSlot, Counted
<1>3. /\ f \in Process /\ f.at = "iput" /\ f.ip = g.ip /\ f.stack = <<Frame("user", g.ip)>>
      /\ f.op = g.op /\ Below(f) = 0 /\ Head(f.stack).at = "user"
  <2>1. "iput" \in Labels /\ "user" \in Labels /\ "user" \notin Counted
    BY DEF Labels, Waits, Yields, Counted
  <2> QED
    BY <1>1, <1>2, <1>f, <2>1, TopCalls
<1>4. UserStack(f)
  BY <1>2, <1>3 DEF UserStack
<1>5. Fits(f)
  BY <1>2, <1>3, <1>4 DEF Fits, StackFits, HasSlot, Searches, Counted, Top
<1>6. SameRefs(g, f) /\ Keeps(f)
  BY <1>1, <1>3 DEF SameRefs, Keeps, Kept, Own, Empty, Counted, Searches
<1>7. Finds(f)'
  BY <1>3 DEF Finds
<1> QED
  BY <1>0, <1>1, <1>3, <1>g, <1>5, <1>6, <1>7, Quiet

\* What a system call calls while it holds an inode, and where it goes on
Downs == {<<"truncate", "open_done">>, <<"add_entry", "open_added">>, <<"add_entry", "link_added">>,
          <<"iput_dir", "open_new_done">>, <<"iput_dir", "link_count">>, <<"iput_dir", "link_drop">>,
          <<"find_entry", "link_target">>}

\* What a system call holds stays held while it calls another function.
LEMMA KeepsDown ==
  ASSUME IInv, NEW p \in Procs, NEW here \in Top \cap Counted, At(p, here), proc[p].ip # 0,
         NEW h \in Process, h.stack = <<>>, h.ip = proc[p].ip, h.op = proc[p].op,
         NEW label, NEW ret, <<label, ret>> \in Downs, NEW s \in SlotOr0,
         label = "truncate" => s = h.ip /\ h.op = "creat",
         ret \in Kept => inode[h.ip].num = h.nr,
         Goto(p, Calls(h, label, s, ret)), Tables', SameHeld, file' = file
  PROVE  IInv'
<1>g. PICK g : g = proc[p]
  OBVIOUS
<1>f. PICK f : f = Calls(h, label, s, ret)
  OBVIOUS
<1>0. g.at = here /\ Goto(p, f) /\ h.ip = g.ip /\ h.op = g.op /\ g.ip # 0
  BY <1>g, <1>f DEF At
<1>1. /\ g \in Process /\ Shape(g) /\ g.stack = <<>> /\ Below(g) = 0 /\ Empty(g) = 0 /\ Own(g) = g.ip
      /\ (g.op \in {"open", "creat"} => file[p].slot = 0)
  BY <1>g, <1>0, TopIs
<1>2. g.ip \in Slots
  BY <1>0, <1>1, SlotsAre DEF Process
<1>3. label \in Labels /\ ret \in Labels /\ ret \in Counted /\ label \notin Counted \cup Searches
  BY DEF Downs, Labels, Yields, Counted, Searches
<1>4. /\ f \in Process /\ f.at = label /\ f.ip = s /\ f.stack = <<Frame(ret, g.ip)>>
      /\ f.op = g.op /\ f.nr = h.nr /\ Below(f) = g.ip /\ Head(f.stack).at = ret
  BY <1>0, <1>3, <1>f, TopCalls
<1>5. /\ label = "truncate" => TruncateStack(f)
      /\ label = "add_entry" => AddStack(f)
      /\ label = "iput_dir" => DirStack(f)
      /\ label = "find_entry" => FindStack(f)
  <2>1. /\ label = "truncate" => ret = "open_done" /\ f.op = "creat"
        /\ label = "add_entry" => ret \in {"open_added", "link_added"}
        /\ label = "iput_dir" => ret \in {"open_new_done", "link_count", "link_drop"}
        /\ label = "find_entry" => ret = "link_target"
    BY <1>0, <1>4 DEF Downs
  <2> QED
    BY <1>2, <1>4, <2>1 DEF TruncateStack, AddStack, DirStack, FindStack
<1>6. Fits(f)
  <2>1. label \in {"truncate", "add_entry", "iput_dir", "find_entry"}
    BY DEF Downs
  <2> QED
    BY <1>0, <1>2, <1>4, <1>5, <2>1 DEF Fits, StackFits, HasSlot, Searches, Counted, Top
<1>7. SameRefs(g, f)
  <2>1. Own(f) = 0 /\ Empty(f) = 0
    <3>1. label # "new_inode" /\ label # "iput"
      BY DEF Downs
    <3> QED
      BY <1>3, <1>4, <3>1 DEF Own, Empty
  <2> QED
    BY <1>1, <1>4, <2>1 DEF SameRefs
<1>8. Keeps(f)
  <2>1. label \notin Kept
    BY DEF Downs, Kept
  <2> QED
    BY <1>0, <1>4, <2>1 DEF Keeps
<1>9. Finds(f)'
  <2>1. label \notin {"open_found", "unlink_found", "link_found"}
    BY DEF Downs
  <2> QED
    BY <1>4, <2>1 DEF Finds
<1> QED
  BY <1>0, <1>1, <1>4, <1>g, <1>6, <1>7, <1>8, <1>9, Quiet

\* What a process calls while it holds no inode
Firsts == {<<"find_entry", "open_found">>, <<"find_entry", "unlink_found">>, <<"find_entry", "link_found">>,
           <<"iput_dir", "open_inode">>, <<"iput_dir", "link_inode">>,
           <<"sync_inodes", "user">>, <<"create_block", "write_block">>}

\* It calls them with nothing to be kept.
LEMMA KeepsFirst ==
  ASSUME IInv, NEW p \in Procs, NEW here, At(p, here), here \in (Top \ Counted) \cup {"user"},
         NEW h \in Process, h.stack = <<>>, h.op \in {"open", "creat"} => file[p].slot = 0,
         NEW label, NEW ret, <<label, ret>> \in Firsts, NEW s \in SlotOr0,
         label \in {"sync_inodes", "create_block"} => s \in Slots,
         IF label = "create_block" THEN h.ip = s ELSE h.ip = 0,
         label = "iput_dir" => h.nr # 0,
         Goto(p, Calls(h, label, s, ret)), UNCHANGED <<inodeVars, fileVars>>
  PROVE  IInv'
<1>g. PICK g : g = proc[p]
  OBVIOUS
<1>f. PICK f : f = Calls(h, label, s, ret)
  OBVIOUS
<1>0. /\ g.at = here /\ Goto(p, f) /\ dir' = dir /\ calls' = calls /\ file' = file
      /\ inode' = inode /\ last_inode' = last_inode /\ d_inode' = d_inode /\ imap' = imap
  BY <1>g, <1>f DEF At, inodeVars, fileVars
<1>1. Below(g) = 0 /\ Empty(g) = 0 /\ Own(g) = 0
  <2>1. CASE here = "user"
    <3>1. g = AtUser
      BY <1>0, <1>g, <2>1, Here DEF Shape
    <3> QED
      BY <3>1, UserFits
  <2>2. CASE here \in Top \ Counted
    BY <1>0, <1>g, <2>2, TopIs
  <2> QED
    BY <2>1, <2>2
<1>2. Tables' /\ SameHeld
  BY <1>0, Idle
<1>3. label \in Labels /\ ret \in Labels /\ ret \notin Counted /\ label \notin Counted \cup Searches
  BY DEF Firsts, Labels, Yields, Waits, Counted, Searches
<1>4. /\ f \in Process /\ f.at = label /\ f.ip = s /\ f.stack = <<Frame(ret, h.ip)>>
      /\ f.op = h.op /\ f.nr = h.nr /\ Below(f) = 0
  BY <1>3, <1>f, TopCalls
<1>5. /\ label = "find_entry" => FindStack(f)
      /\ label = "iput_dir" => DirStack(f)
      /\ label = "sync_inodes" => f.stack = <<Frame("user", 0)>>
      /\ label = "create_block" => BlockStack(f)
  <2>1. /\ label = "find_entry" => ret \in {"open_found", "unlink_found", "link_found"}
        /\ label = "iput_dir" => ret \in {"open_inode", "link_inode"}
        /\ label = "sync_inodes" => ret = "user"
        /\ label = "create_block" => ret = "write_block"
    BY DEF Firsts
  <2> QED
    BY <1>4, <2>1 DEF FindStack, DirStack, BlockStack
<1>6. label \in {"find_entry", "iput_dir", "sync_inodes", "create_block"}
  BY DEF Firsts
<1>7. Fits(f)
  BY <1>4, <1>5, <1>6 DEF Fits, StackFits, HasSlot, Searches, Counted, Top
<1>8. SameRefs(g, f) /\ Keeps(f)
  BY <1>1, <1>3, <1>4, <1>6 DEF SameRefs, Keeps, Kept, Own, Empty
<1>9. Finds(f)'
  BY <1>4, <1>6 DEF Finds
<1> QED
  BY <1>0, <1>2, <1>4, <1>g, <1>7, <1>8, <1>9, Quiet

\* new_inode() for a system call that found no entry
LEMMA KeepsNew ==
  ASSUME IInv, NEW p \in Procs, At(p, "open_found"), UNCHANGED <<inodeVars, fileVars>>,
         Goto(p, [proc[p] EXCEPT !.at = "get_empty_inode",
                                 !.stack = <<Frame("new_inode", 0), Frame("open_new", 0)>>])
  PROVE  IInv'
<1> DEFINE T == [at : Labels, ip : SlotOr0]
           st == <<Frame("new_inode", 0), Frame("open_new", 0)>>
<1>g. PICK g : g = proc[p]
  OBVIOUS
<1>f. PICK f : f = [g EXCEPT !.at = "get_empty_inode", !.stack = st]
  OBVIOUS
<1>0. /\ g.at = "open_found" /\ Goto(p, f) /\ dir' = dir /\ calls' = calls /\ file' = file
      /\ inode' = inode /\ last_inode' = last_inode /\ d_inode' = d_inode /\ imap' = imap
  BY <1>g, <1>f DEF At, inodeVars, fileVars
<1>1. /\ g \in Process /\ Below(g) = 0 /\ Empty(g) = 0 /\ Own(g) = 0
      /\ (g.op \in {"open", "creat"} => file[p].slot = 0)
  <2>1. g.at \in Top /\ g.at \notin Counted
    BY <1>0 DEF Top, Counted
  <2> QED
    BY <1>g, <2>1, TopIs
<1>2. Tables' /\ SameHeld
  BY <1>0, Idle
<1>3. f \in Process /\ f.at = "get_empty_inode" /\ f.stack = st /\ f.op = g.op
  <2>1. 0 \in SlotOr0 /\ {"get_empty_inode", "new_inode", "open_new"} \subseteq Labels
    BY SlotsAre DEF Labels
  <2>2. Frame("new_inode", 0) \in T /\ Frame("open_new", 0) \in T
    BY <2>1 DEF Frame
  <2>3. st \in Seq(T)
    <3> HIDE DEF T
    <3> QED
      BY <2>2
  <2> HIDE DEF st
  <2> QED
    BY <1>1, <1>f, <2>1, <2>3 DEF Process
<1>4. EmptyStack(f)
  BY <1>3 DEF EmptyStack
<1>5. Fits(f)
  BY <1>3, <1>4 DEF Fits, StackFits, HasSlot, Searches, Counted, Top
<1>6. Below(f) = 0
  BY <1>4, EmptyBelow
<1>7. SameRefs(g, f) /\ Keeps(f)
  BY <1>1, <1>3, <1>6 DEF SameRefs, Keeps, Kept, Own, Empty, Counted, Searches
<1>8. Finds(f)'
  BY <1>3 DEF Finds
<1> QED
  BY <1>0, <1>1, <1>2, <1>3, <1>g, <1>5, <1>7, <1>8, Quiet

(* fs/namei.c and fs/open.c: sys_open(), sys_creat(), sys_mknod() *)

\* open_namei() behind find_entry()
LEMMA KeepsOpenFound ==
  ASSUME IInv, NEW p \in Procs, open_found(p)
  PROVE  IInv'
<1>g. PICK g : g = proc[p]
  OBVIOUS
<1>0. At(p, "open_found") /\ g.at = "open_found"
  BY <1>g DEF open_found, At
<1>1. /\ g \in Process /\ Shape(g) /\ Finds(g) /\ Tables /\ g.stack = <<>>
      /\ (g.op \in {"open", "creat"} => file[p].slot = 0)
  BY <1>0, <1>g, TopIs DEF Top
<1>2. g.ip = 0
  BY <1>0, <1>1 DEF Shape
<1>3. CASE g.de = 0 /\ g.op \in {"creat", "mknod"}
  BY <1>0, <1>3, <1>g, KeepsNew, KeepsReturn DEF open_found, Top, Counted
<1>4. CASE g.de # 0 /\ g.op \in {"open", "creat"}
  <2>1. g.de \in Entries
    BY <1>1, <1>4, EntriesAre DEF Process
  <2>n. PICK n \in 0..NInodes : n = dir[g.de].ino /\ n # 0
    BY <1>0, <1>1, <1>4, <2>1 DEF Finds, Tables
  <2>h. PICK h : h = [g EXCEPT !.nr = n]
    OBVIOUS
  <2>2. h \in Process /\ h.stack = <<>> /\ h.op = g.op /\ h.ip = 0 /\ h.nr = n
    BY <1>1, <1>2, <2>h DEF Process
  <2>3. Goto(p, Calls(h, "iput_dir", 0, "open_inode")) /\ UNCHANGED <<inodeVars, fileVars>>
    BY <1>g, <1>4, <2>h, <2>n DEF open_found
  <2>4. <<"iput_dir", "open_inode">> \in Firsts /\ "open_found" \in Top \ Counted /\ 0 \in SlotOr0
    BY SlotsAre DEF Firsts, Top, Counted
  <2> QED
    BY <1>0, <1>1, <2>n, <2>2, <2>3, <2>4, KeepsFirst
<1>5. CASE Return(p)
  <2>1. "open_found" \in Top /\ "open_found" \notin Counted
    BY DEF Top, Counted
  <2> QED
    BY <1>0, <1>5, <2>1, KeepsReturn
<1> QED
  BY <1>3, <1>4, <1>5, <1>g DEF open_found

\* open_namei() and namei() call iget() for the number in the entry, which they
\* kept while the directory was let go.
LEMMA KeepsOpenInode ==
  ASSUME IInv, NEW p \in Procs, NEW label \in {"open_inode", "link_inode"}, At(p, label), NEW ret \in Got,
         UNCHANGED <<inodeVars, fileVars>>, Goto(p, Iget(proc[p], proc[p].nr, ret))
  PROVE  IInv'
<1>n. PICK n : n = proc[p].nr
  OBVIOUS
<1>1. n \in 0..NInodes /\ n # 0
  BY <1>n, Here DEF Shape, Process, At
<1> QED
  BY <1>1, <1>n, KeepsIget

\* open_namei() behind iget(): sys_creat() truncates first.
LEMMA KeepsOpenGot ==
  ASSUME IInv, NEW p \in Procs, open_got(p)
  PROVE  IInv'
<1>g. PICK g : g = proc[p]
  OBVIOUS
<1>1. CASE At(p, "open_got") /\ g.op = "creat" /\ Continue(p, "truncate", g.ip, "open_done")
  <2>0. /\ g.at = "open_got" /\ dir' = dir /\ calls' = calls /\ file' = file
        /\ inode' = inode /\ last_inode' = last_inode /\ d_inode' = d_inode /\ imap' = imap
        /\ Goto(p, Calls(g, "truncate", g.ip, "open_done"))
    BY <1>g, <1>1 DEF At, Continue, inodeVars, fileVars
  <2>1. g \in Process /\ Shape(g) /\ Holding(g) /\ g.stack = <<>>
    BY <2>0, <1>g, TopIs DEF Top
  <2>2. g.ip \in Slots /\ g.ip # 0 /\ g.ip \in SlotOr0
    BY <2>0, <2>1, SlotsAre DEF Shape, HasSlot, Counted
  <2>3. inode[g.ip].num = g.nr
    BY <2>0, <2>1 DEF Holding, Kept
  <2>4. "open_got" \in Top \cap Counted /\ <<"truncate", "open_done">> \in Downs
    BY DEF Top, Counted, Downs
  <2>5. Tables' /\ SameHeld
    BY <2>0, Idle
  <2> QED
    BY <1>1, <1>g, <2>0, <2>1, <2>2, <2>3, <2>4, <2>5, KeepsDown
<1>2. CASE At(p, "open_got") /\ g.op = "open" /\ Opened(p, g.ip, g.nr)
  BY <1>2, <1>g, KeepsOpened
<1>3. CASE At(p, "open_done") /\ Opened(p, g.ip, g.nr)
  <2>1. g.op = "creat"
    BY <1>3, <1>g, Here DEF Shape, At
  <2> QED
    BY <1>3, <2>1, <1>g, KeepsOpened
<1> QED
  BY <1>1, <1>2, <1>3, <1>g DEF open_got

\* An entry of the directory gets another inode number.
LEMMA DirKeeps ==
  ASSUME IInv, NEW e, NEW n \in 0..NInodes, dir' = [dir EXCEPT ![e].ino = n],
         inode' = inode, last_inode' = last_inode, d_inode' = d_inode, imap' = imap,
         file' = file, calls' = calls
  PROVE  Tables' /\ SameHeld
<1>1. dir \in [Entries -> [name : Names \cup {0}, ino : 0..NInodes]]
  BY DEF IInv, Typed
<1>2. dir' \in [Entries -> [name : Names \cup {0}, ino : 0..NInodes]]
  <2>1. CASE e \in Entries
    <3>1. [dir[e] EXCEPT !.ino = n] \in [name : Names \cup {0}, ino : 0..NInodes]
      BY <1>1, <2>1
    <3> QED
      BY <1>1, <3>1
  <2>2. CASE e \notin Entries
    BY <1>1, <2>2
  <2> QED
    BY <2>1, <2>2
<1> QED
  BY <1>2 DEF IInv, Typed, Tables, SameHeld

\* A process that holds an inode at ip, between the functions it calls
LEMMA HoldsIp ==
  ASSUME IInv, NEW p \in Procs, NEW g, g = proc[p], g.at \in Top \cap HasSlot
  PROVE  /\ g \in Process /\ Shape(g) /\ Holding(g) /\ g.stack = <<>>
         /\ g.ip \in Slots /\ g.ip # 0 /\ g.ip \in SlotOr0 /\ inode[g.ip] \in Inode /\ inode[g.ip].num \in 0..NInodes
         /\ (g.op \in {"open", "creat"} => file[p].slot = 0)
<1>1. g \in Process /\ Shape(g) /\ Holding(g) /\ g.stack = <<>> /\ Tables
  BY TopIs
<1>2. g.ip \in Slots /\ g.ip # 0 /\ g.ip \in SlotOr0
  BY <1>1, SlotsAre DEF Shape
<1>3. inode[g.ip] \in Inode
  BY <1>1, <1>2 DEF Tables
<1> QED
  BY <1>1, <1>2, <1>3, TopIs DEF Inode

\* An inode changes in what its holders do not see.
LEMMA InodeKeeps ==
  ASSUME IInv, NEW s \in Slots, NEW r \in Inode, r.num = inode[s].num, r.count = inode[s].count,
         inode' = [inode EXCEPT ![s] = r],
         last_inode' = last_inode, d_inode' = d_inode, imap' = imap,
         dir' = dir, file' = file, calls' = calls
  PROVE  Tables' /\ SameHeld
<1>1. OneInode(s, r) /\ imap' \subseteq Numbers
  BY DEF OneInode, IInv, Typed
<1> QED
  BY <1>1, TablesKeep

\* A system call goes on with another function.
LEMMA Continues ==
  ASSUME IInv, NEW p \in Procs, NEW here \in Top \cap Counted, At(p, here), proc[p].ip # 0,
         NEW label, NEW ret, <<label, ret>> \in Downs, label # "truncate", ret \notin Kept, NEW s \in SlotOr0,
         Continue(p, label, s, ret)
  PROVE  IInv'
<1>g. PICK g : g = proc[p]
  OBVIOUS
<1>0. /\ g.at = here /\ dir' = dir /\ calls' = calls /\ file' = file
      /\ inode' = inode /\ last_inode' = last_inode /\ d_inode' = d_inode /\ imap' = imap
      /\ Goto(p, Calls(g, label, s, ret))
  BY <1>g DEF At, Continue, inodeVars, fileVars
<1>1. g \in Process /\ g.stack = <<>>
  BY <1>0, <1>g, TopIs
<1>2. Tables' /\ SameHeld
  BY <1>0, Idle
<1> QED
  BY <1>0, <1>g, <1>1, <1>2, KeepsDown

\* open_namei() and sys_mknod() behind new_inode()
LEMMA KeepsOpenNew ==
  ASSUME IInv, NEW p \in Procs, open_new(p)
  PROVE  IInv'
<1>0. At(p, "open_new") /\ "open_new" \in Top /\ "open_new" \in Top \cap Counted
  BY DEF open_new, Top, Counted
<1>1. CASE proc[p].ip = 0
  BY <1>0, <1>1, KeepsReturn DEF open_new
<1>2. CASE proc[p].ip # 0
  <2>1. proc[p].ip \in SlotOr0
    BY Here DEF Process
  <2>2. <<"add_entry", "open_added">> \in Downs /\ "open_added" \notin Kept
    BY DEF Downs, Kept
  <2>3. Continue(p, "add_entry", proc[p].ip, "open_added")
    BY <1>2 DEF open_new
  <2> QED
    BY <1>0, <1>2, <2>1, <2>2, <2>3, Continues
<1> QED
  BY <1>1, <1>2

\* No room in the directory: the new inode is given back.  Otherwise it is named.
LEMMA KeepsOpenAdded ==
  ASSUME IInv, NEW p \in Procs, open_added(p)
  PROVE  IInv'
<1>g. PICK g : g = proc[p]
  OBVIOUS
<1>0. At(p, "open_added") /\ g.at = "open_added"
  BY <1>g DEF open_added, At
<1>1. /\ g \in Process /\ Shape(g) /\ Holding(g) /\ g.stack = <<>>
      /\ g.ip \in Slots /\ g.ip # 0 /\ g.ip \in SlotOr0 /\ inode[g.ip] \in Inode /\ inode[g.ip].num \in 0..NInodes
  <2>1. g.at \in Top \cap HasSlot
    BY <1>0 DEF Top, HasSlot, Counted
  <2> QED
    BY <1>g, <2>1, HoldsIp
<1>s. PICK s \in Slots : s = g.ip
  BY <1>1
<1>2. CASE g.de = 0
  <2>r. PICK r : r = [inode[s] EXCEPT !.nlinks = 0]
    OBVIOUS
  <2>1. r \in Inode /\ r.num = inode[s].num /\ r.count = inode[s].count
    BY <1>1, <1>s, <2>r DEF Inode
  <2>2. /\ inode' = [inode EXCEPT ![s].nlinks = 0]
        /\ Goto(p, Calls(g, "iput", g.ip, "user"))
        /\ last_inode' = last_inode /\ d_inode' = d_inode /\ imap' = imap
        /\ dir' = dir /\ calls' = calls /\ file' = file
    BY <1>g, <1>s, <1>2 DEF open_added, fileVars
  <2>3. inode' = [inode EXCEPT ![s] = r]
    BY <2>r, <2>2
  <2>4. Tables' /\ SameHeld
    BY <2>1, <2>2, <2>3, InodeKeeps
  <2> QED
    BY <1>0, <1>g, <2>2, <2>4, KeepsPut
<1>3. CASE g.de # 0
  <2>n. PICK n \in 0..NInodes : n = inode[g.ip].num
    BY <1>1
  <2>h. PICK h : h = [g EXCEPT !.nr = n]
    OBVIOUS
  <2>1. h \in Process /\ h.stack = <<>> /\ h.op = g.op /\ h.ip = g.ip /\ h.nr = n
    BY <1>1, <2>h DEF Process
  <2>2. /\ dir' = [dir EXCEPT ![g.de].ino = n]
        /\ Goto(p, Calls(h, "iput_dir", 0, "open_new_done"))
        /\ last_inode' = last_inode /\ d_inode' = d_inode /\ imap' = imap
        /\ inode' = inode /\ calls' = calls /\ file' = file
    BY <1>g, <1>3, <2>n, <2>h DEF open_added, inodeVars
  <2>3. Tables' /\ SameHeld
    BY <2>2, DirKeeps
  <2>4. <<"iput_dir", "open_new_done">> \in Downs /\ "open_added" \in Top \cap Counted /\ 0 \in SlotOr0
    BY SlotsAre DEF Downs, Top, Counted
  <2> QED
    BY <1>0, <1>g, <1>1, <2>n, <2>1, <2>2, <2>3, <2>4, KeepsDown
<1> QED
  BY <1>2, <1>3

\* The new file is open for sys_creat(), and let go by sys_mknod().
LEMMA KeepsOpenNewDone ==
  ASSUME IInv, NEW p \in Procs, open_new_done(p)
  PROVE  IInv'
<1>0. At(p, "open_new_done")
  BY DEF open_new_done
<1>1. CASE proc[p].op = "creat" /\ Opened(p, proc[p].ip, proc[p].nr)
  BY <1>0, <1>1, KeepsOpened
<1>2. CASE Continue(p, "iput", proc[p].ip, "user")
  <2>1. /\ Goto(p, Calls(proc[p], "iput", proc[p].ip, "user"))
        /\ last_inode' = last_inode /\ d_inode' = d_inode /\ imap' = imap
        /\ inode' = inode /\ dir' = dir /\ calls' = calls /\ file' = file
    BY <1>2 DEF Continue, inodeVars, fileVars
  <2>2. Tables' /\ SameHeld
    BY <2>1, Idle
  <2> QED
    BY <1>0, <2>1, <2>2, KeepsPut
<1> QED
  BY <1>1, <1>2 DEF open_new_done

(* fs/namei.c: sys_unlink() and sys_link() *)

\* sys_unlink() behind find_entry()
LEMMA KeepsUnlinkFound ==
  ASSUME IInv, NEW p \in Procs, unlink_found(p)
  PROVE  IInv'
<1>g. PICK g : g = proc[p]
  OBVIOUS
<1>0. At(p, "unlink_found") /\ g.at = "unlink_found"
  BY <1>g DEF unlink_found, At
<1>1. g \in Process /\ Finds(g) /\ Tables
  BY <1>g, Here
<1>2. CASE g.de = 0
  <2>1. Return(p) /\ "unlink_found" \in Top /\ "unlink_found" \notin Counted
    BY <1>2, <1>g DEF unlink_found, Top, Counted
  <2> QED
    BY <1>0, <2>1, KeepsReturn
<1>3. CASE g.de # 0
  <2>1. g.de \in Entries
    BY <1>1, <1>3, EntriesAre DEF Process
  <2>n. PICK n \in 0..NInodes : n = dir[g.de].ino /\ n # 0
    BY <1>0, <1>1, <1>3, <2>1 DEF Finds, Tables
  <2>2. Goto(p, Iget(g, n, "unlink_got")) /\ UNCHANGED <<inodeVars, fileVars>> /\ "unlink_got" \in Got
    BY <1>3, <1>g, <2>n DEF unlink_found, Got
  <2> QED
    BY <1>0, <1>g, <2>n, <2>2, KeepsIget
<1> QED
  BY <1>2, <1>3

\* sys_unlink() clears the entry, counts a link less and lets go of the inode.
LEMMA KeepsUnlinkGot ==
  ASSUME IInv, NEW p \in Procs, unlink_got(p)
  PROVE  IInv'
<1>g. PICK g : g = proc[p]
  OBVIOUS
<1>0. /\ At(p, "unlink_got") /\ g.at = "unlink_got" /\ Goto(p, Calls(g, "iput", g.ip, "user"))
      /\ last_inode' = last_inode /\ d_inode' = d_inode /\ imap' = imap
      /\ calls' = calls /\ file' = file
      /\ dir' = [dir EXCEPT ![g.de].ino = 0]
  BY <1>g DEF unlink_got, At
<1>1. g.ip \in Slots /\ inode[g.ip] \in Inode
  <2>1. g.at \in Top \cap HasSlot
    BY <1>0 DEF Top, HasSlot, Counted
  <2> QED
    BY <1>g, <2>1, HoldsIp
<1>s. PICK s \in Slots : s = g.ip
  BY <1>1
<1>n. PICK k : k = IF inode[s].nlinks = 0 THEN 0 ELSE inode[s].nlinks - 1
  OBVIOUS
<1>r. PICK r : r = [inode[s] EXCEPT !.nlinks = k, !.dirt = TRUE]
  OBVIOUS
<1>2. k \in Nat
  BY <1>n, <1>1, <1>s DEF Inode
<1>3. r \in Inode /\ r.num = inode[s].num /\ r.count = inode[s].count
  BY <1>1, <1>s, <1>r, <1>2 DEF Inode
<1>4. inode \in [Slots -> Inode] /\ dir \in [Entries -> [name : Names \cup {0}, ino : 0..NInodes]]
      /\ d_inode \in [Numbers -> [nlinks : Nat, zone : 0..NZones]] /\ last_inode \in Slots
      /\ imap \subseteq Numbers /\ file \in [Procs -> [slot : SlotOr0, num : 0..NInodes]] /\ calls \in Workloads
  BY DEF IInv, Typed
<1>5. inode' = [inode EXCEPT ![s] = r]
  <2>1. inode' = [inode EXCEPT ![s].nlinks = IF @ = 0 THEN 0 ELSE @ - 1, ![s].dirt = TRUE]
    BY <1>g, <1>s DEF unlink_got
  <2> QED
    BY <2>1, <1>n, <1>r, <1>4 DEF Inode
<1>6. inode' \in [Slots -> Inode] /\ SameHeld
  BY <1>3, <1>4, <1>5 DEF SameHeld
<1>7. dir' \in [Entries -> [name : Names \cup {0}, ino : 0..NInodes]]
  <2>1. CASE g.de \in Entries
    <3>1. [dir[g.de] EXCEPT !.ino = 0] \in [name : Names \cup {0}, ino : 0..NInodes]
      BY <1>4, <2>1, EntriesAre
    <3> QED
      BY <1>0, <1>4, <3>1
  <2>2. CASE g.de \notin Entries
    BY <1>0, <1>4, <2>2
  <2> QED
    BY <2>1, <2>2
<1>8. Tables'
  BY <1>0, <1>4, <1>6, <1>7 DEF Tables
<1> QED
  BY <1>0, <1>g, <1>6, <1>8, KeepsPut

\* A call of the workload is a system call.
LEMMA CallsAre ==
  ASSUME IInv, NEW p \in Procs, NEW c \in calls[p]
  PROVE  c \in SystemCall
<1>1. calls \in [Procs -> SUBSET SystemCall]
  BY FilesAssumption DEF IInv, Typed
<1> QED
  BY <1>1

\* namei() behind find_entry()
LEMMA KeepsLinkFound ==
  ASSUME IInv, NEW p \in Procs, link_found(p)
  PROVE  IInv'
<1>g. PICK g : g = proc[p]
  OBVIOUS
<1>0. At(p, "link_found") /\ g.at = "link_found" /\ "link_found" \in Top /\ "link_found" \notin Counted
  BY <1>g DEF link_found, At, Top, Counted
<1>1. /\ g \in Process /\ Shape(g) /\ Finds(g) /\ Tables /\ g.stack = <<>>
      /\ (g.op \in {"open", "creat"} => file[p].slot = 0)
  BY <1>0, <1>g, TopIs
<1>2. g.ip = 0
  BY <1>0, <1>1 DEF Shape
<1>3. CASE g.de = 0
  BY <1>0, <1>3, <1>g, KeepsReturn DEF link_found
<1>4. CASE g.de # 0
  <2>1. g.de \in Entries
    BY <1>1, <1>4, EntriesAre DEF Process
  <2>n. PICK n \in 0..NInodes : n = dir[g.de].ino /\ n # 0
    BY <1>0, <1>1, <1>4, <2>1 DEF Finds, Tables
  <2>h. PICK h : h = [g EXCEPT !.nr = n]
    OBVIOUS
  <2>2. h \in Process /\ h.stack = <<>> /\ h.op = g.op /\ h.ip = 0 /\ h.nr = n
    BY <1>1, <1>2, <2>h DEF Process
  <2>3. Goto(p, Calls(h, "iput_dir", 0, "link_inode")) /\ UNCHANGED <<inodeVars, fileVars>>
    BY <1>g, <1>4, <2>h, <2>n DEF link_found
  <2>4. <<"iput_dir", "link_inode">> \in Firsts /\ 0 \in SlotOr0
    BY SlotsAre DEF Firsts
  <2> QED
    BY <1>0, <1>1, <2>n, <2>2, <2>3, <2>4, KeepsFirst
<1> QED
  BY <1>3, <1>4

\* sys_link() holds the old inode while it looks for the new name.
LEMMA KeepsLinkOld ==
  ASSUME IInv, NEW p \in Procs, link_old(p)
  PROVE  IInv'
<1>g. PICK g : g = proc[p]
  OBVIOUS
<1>c. PICK c \in calls[p] : Goto(p, Calls([g EXCEPT !.name = c.to], "find_entry", g.ip, "link_target"))
  BY <1>g DEF link_old
<1>h. PICK h : h = [g EXCEPT !.name = c.to]
  OBVIOUS
<1>0. /\ At(p, "link_old") /\ g.at = "link_old"
      /\ inode' = [inode EXCEPT ![g.ip].dirt = TRUE]
      /\ last_inode' = last_inode /\ d_inode' = d_inode /\ imap' = imap
      /\ calls' = calls /\ file' = file /\ dir' = dir
  BY <1>g DEF link_old, At, fileVars
<1>1. /\ g \in Process /\ g.stack = <<>>
      /\ g.ip \in Slots /\ g.ip # 0 /\ g.ip \in SlotOr0 /\ inode[g.ip] \in Inode
  <2>1. g.at \in Top \cap HasSlot
    BY <1>0 DEF Top, HasSlot, Counted
  <2> QED
    BY <1>g, <2>1, HoldsIp
<1>s. PICK s \in Slots : s = g.ip
  BY <1>1
<1>r. PICK r : r = [inode[s] EXCEPT !.dirt = TRUE]
  OBVIOUS
<1>2. r \in Inode /\ r.num = inode[s].num /\ r.count = inode[s].count
  BY <1>1, <1>s, <1>r DEF Inode
<1>3. Tables' /\ SameHeld
  <2>1. inode' = [inode EXCEPT ![s] = r]
    BY <1>0, <1>s, <1>r
  <2> QED
    BY <1>0, <1>2, <2>1, InodeKeeps
<1>4. h \in Process /\ h.stack = <<>> /\ h.ip = g.ip /\ h.op = g.op
  <2>1. c.to \in Names
    BY CallsAre DEF SystemCall
  <2> QED
    BY <1>1, <1>h, <2>1 DEF Process
<1>5. /\ <<"find_entry", "link_target">> \in Downs /\ "link_target" \notin Kept
      /\ "link_old" \in Top \cap Counted
  BY DEF Downs, Kept, Top, Counted
<1> QED
  BY <1>0, <1>g, <1>h, <1>c, <1>1, <1>3, <1>4, <1>5, KeepsDown

\* A new name that is there already lets go of the old inode.
LEMMA KeepsLinkTarget ==
  ASSUME IInv, NEW p \in Procs, link_target(p)
  PROVE  IInv'
<1>0. At(p, "link_target") /\ "link_target" \in Top \cap Counted
  BY DEF link_target, Top, Counted
<1>1. proc[p].ip # 0 /\ proc[p].ip \in SlotOr0
  <2>1. proc[p].at \in Top \cap HasSlot
    BY <1>0 DEF At, Top, HasSlot, Counted
  <2> QED
    BY <2>1, HoldsIp
<1>2. /\ <<"iput_dir", "link_drop">> \in Downs /\ "link_drop" \notin Kept
      /\ <<"add_entry", "link_added">> \in Downs /\ "link_added" \notin Kept
  BY DEF Downs, Kept
<1>3. CASE Continue(p, "iput_dir", proc[p].ip, "link_drop")
  BY <1>0, <1>1, <1>2, <1>3, Continues
<1>4. CASE Continue(p, "add_entry", proc[p].ip, "link_added")
  BY <1>0, <1>1, <1>2, <1>4, Continues
<1> QED
  BY <1>3, <1>4 DEF link_target

\* The old inode is still the one sought when its number goes into the entry.
LEMMA KeepsLinkAdded ==
  ASSUME IInv, NEW p \in Procs, link_added(p)
  PROVE  IInv'
<1>g. PICK g : g = proc[p]
  OBVIOUS
<1>0. At(p, "link_added") /\ g.at = "link_added" /\ "link_added" \in Top \cap Counted
  BY <1>g DEF link_added, At, Top, Counted
<1>1. /\ g \in Process /\ g.stack = <<>>
      /\ g.ip # 0 /\ g.ip \in SlotOr0 /\ inode[g.ip].num \in 0..NInodes
  <2>1. g.at \in Top \cap HasSlot
    BY <1>0 DEF Top, HasSlot, Counted
  <2> QED
    BY <1>g, <2>1, HoldsIp
<1>2. /\ <<"iput_dir", "link_drop">> \in Downs /\ "link_drop" \notin Kept
      /\ <<"iput_dir", "link_count">> \in Downs /\ "link_count" \notin Kept
  BY DEF Downs, Kept
<1>3. CASE g.de = 0
  <2>1. Continue(p, "iput_dir", proc[p].ip, "link_drop")
    BY <1>3, <1>g DEF link_added
  <2> QED
    BY <1>0, <1>g, <1>1, <1>2, <2>1, Continues
<1>4. CASE g.de # 0
  <2>n. PICK n \in 0..NInodes : n = inode[g.ip].num
    BY <1>1
  <2>1. /\ dir' = [dir EXCEPT ![g.de].ino = n]
        /\ Goto(p, Calls(g, "iput_dir", g.ip, "link_count"))
        /\ last_inode' = last_inode /\ d_inode' = d_inode /\ imap' = imap
        /\ inode' = inode /\ calls' = calls /\ file' = file
    BY <1>g, <1>4, <2>n DEF link_added, inodeVars
  <2>2. Tables' /\ SameHeld
    BY <2>1, DirKeeps
  <2> QED
    BY <1>0, <1>g, <1>1, <1>2, <2>1, <2>2, KeepsDown
<1> QED
  BY <1>3, <1>4

\* sys_link() counts the link and lets go of the inode.
LEMMA KeepsLinkCount ==
  ASSUME IInv, NEW p \in Procs, link_count(p)
  PROVE  IInv'
<1>g. PICK g : g = proc[p]
  OBVIOUS
<1>0. /\ At(p, "link_count") /\ g.at = "link_count" /\ Goto(p, Calls(g, "iput", g.ip, "user"))
      /\ inode' = [inode EXCEPT ![g.ip].nlinks = @ + 1, ![g.ip].dirt = TRUE]
      /\ last_inode' = last_inode /\ d_inode' = d_inode /\ imap' = imap
      /\ calls' = calls /\ file' = file /\ dir' = dir
  BY <1>g DEF link_count, At, fileVars
<1>1. g.ip \in Slots /\ inode[g.ip] \in Inode
  <2>1. g.at \in Top \cap HasSlot
    BY <1>0 DEF Top, HasSlot, Counted
  <2> QED
    BY <1>g, <2>1, HoldsIp
<1>s. PICK s \in Slots : s = g.ip
  BY <1>1
<1>n. PICK k : k = inode[s].nlinks + 1
  OBVIOUS
<1>r. PICK r : r = [inode[s] EXCEPT !.nlinks = k, !.dirt = TRUE]
  OBVIOUS
<1>2. k \in Nat
  BY <1>n, <1>1, <1>s DEF Inode
<1>3. r \in Inode /\ r.num = inode[s].num /\ r.count = inode[s].count
  BY <1>1, <1>s, <1>r, <1>2 DEF Inode
<1>4. inode \in [Slots -> Inode]
  BY DEF IInv, Typed
<1>5. inode' = [inode EXCEPT ![s] = r]
  <2>1. inode' = [inode EXCEPT ![s].nlinks = @ + 1, ![s].dirt = TRUE]
    BY <1>0, <1>s
  <2> QED
    BY <2>1, <1>n, <1>r, <1>4 DEF Inode
<1>6. Tables' /\ SameHeld
  BY <1>0, <1>3, <1>5, InodeKeeps
<1> QED
  BY <1>0, <1>g, <1>6, KeepsPut

\* sys_link() fails, and lets go of the inode.
LEMMA KeepsLinkDrop ==
  ASSUME IInv, NEW p \in Procs, link_drop(p)
  PROVE  IInv'
<1>1. /\ At(p, "link_drop") /\ Goto(p, Calls(proc[p], "iput", proc[p].ip, "user"))
      /\ last_inode' = last_inode /\ d_inode' = d_inode /\ imap' = imap
      /\ inode' = inode /\ dir' = dir /\ calls' = calls /\ file' = file
  BY DEF link_drop, Continue, inodeVars, fileVars
<1>2. Tables' /\ SameHeld
  BY <1>1, Idle
<1> QED
  BY <1>1, <1>2, KeepsPut

(* fs/file_dev.c: file_write(); fs/open.c: close() *)

\* file_write() goes on, holding the file alone.
LEMMA KeepsWriting ==
  ASSUME IInv, NEW p \in Procs, NEW here \in {"write_block", "bread"}, At(p, here),
         NEW a \in {"bread", "copy"}, Goto(p, [proc[p] EXCEPT !.at = a]),
         Tables', SameHeld, file' = file
  PROVE  IInv'
<1>g. PICK g : g = proc[p]
  OBVIOUS
<1>f. PICK f : f = [g EXCEPT !.at = a]
  OBVIOUS
<1>0. g.at = here /\ Goto(p, f)
  BY <1>g, <1>f DEF At
<1>1. /\ g \in Process /\ g.stack = <<>> /\ Below(g) = 0 /\ Empty(g) = 0 /\ Own(g) = 0
      /\ (g.op \in {"open", "creat"} => file[p].slot = 0)
  <2>1. g.at \in Top /\ g.at \notin Counted
    BY <1>0 DEF Top, Counted
  <2> QED
    BY <1>g, <2>1, TopIs
<1>2. f \in Process /\ f.at = a /\ f.stack = <<>> /\ f.op = g.op
  <2>1. a \in Labels
    BY DEF Labels, Yields
  <2> QED
    BY <1>1, <1>f, <2>1 DEF Process
<1>3. Fits(f)
  BY <1>2 DEF Fits, StackFits, HasSlot, Searches, Counted, Top
<1>4. SameRefs(g, f) /\ Keeps(f)
  BY <1>1, <1>2 DEF SameRefs, Keeps, Kept, Own, Below, Empty, Counted, Searches
<1>5. Finds(f)'
  BY <1>2 DEF Finds
<1> QED
  BY <1>0, <1>1, <1>2, <1>3, <1>4, <1>5, <1>g, Quiet

\* file_write() behind create_block()
LEMMA KeepsWriteBlock ==
  ASSUME IInv, NEW p \in Procs, write_block(p)
  PROVE  IInv'
<1>0. At(p, "write_block") /\ "write_block" \in Top /\ "write_block" \notin Counted
  BY DEF write_block, Top, Counted
<1>1. CASE Return(p)
  BY <1>0, <1>1, KeepsReturn
<1>2. CASE UNCHANGED <<inodeVars, fileVars>> /\ Goto(p, [proc[p] EXCEPT !.at = "bread"])
  <2>1. Tables' /\ SameHeld /\ file' = file
    BY <1>2, Idle DEF inodeVars, fileVars
  <2> QED
    BY <1>0, <1>2, <2>1, KeepsWriting
<1> QED
  BY <1>1, <1>2 DEF write_block

\* file_write() copies: the inode becomes dirty when the file grows.
LEMMA KeepsWriteCopy ==
  ASSUME IInv, NEW p \in Procs, write_copy(p)
  PROVE  IInv'
<1>s. PICK s : s = proc[p].ip
  OBVIOUS
<1>b. PICK grows \in BOOLEAN : inode' = [inode EXCEPT ![s].dirt = @ \/ grows]
  BY <1>s DEF write_copy
<1>0. /\ At(p, "bread") /\ Goto(p, [proc[p] EXCEPT !.at = "copy"])
      /\ last_inode' = last_inode /\ d_inode' = d_inode /\ imap' = imap
      /\ calls' = calls /\ file' = file /\ dir' = dir
  BY DEF write_copy, fileVars
<1>1. inode \in [Slots -> Inode]
  BY DEF IInv, Typed
<1>2. Tables' /\ SameHeld
  <2>1. CASE s \in Slots
    <3>b. PICK b \in BOOLEAN : b = (inode[s].dirt \/ grows)
      OBVIOUS
    <3>r. PICK r : r = [inode[s] EXCEPT !.dirt = b]
      OBVIOUS
    <3>1. r \in Inode /\ r.num = inode[s].num /\ r.count = inode[s].count
      BY <1>1, <2>1, <3>r DEF Inode
    <3>2. inode' = [inode EXCEPT ![s] = r]
      BY <1>b, <3>b, <3>r
    <3> QED
      BY <1>0, <2>1, <3>1, <3>2, InodeKeeps
  <2>2. CASE s \notin Slots
    <3>1. inode' = inode
      BY <1>1, <1>b, <2>2
    <3> QED
      BY <1>0, <3>1, Idle
  <2> QED
    BY <2>1, <2>2
<1> QED
  BY <1>0, <1>2, KeepsWriting

\* file_write() is done with its block.
LEMMA KeepsWriteEnd ==
  ASSUME IInv, NEW p \in Procs, write_end(p)
  PROVE  IInv'
<1>1. At(p, "copy") /\ Return(p) /\ "copy" \in Top /\ "copy" \notin Counted
  BY DEF write_end, Top, Counted
<1> QED
  BY <1>1, KeepsReturn

\* close() lets go of the file, and calls iput() for its inode.
LEMMA KeepsClose ==
  ASSUME IInv, NEW p \in Procs, At(p, "user"), NEW h \in Process, h.stack = <<>>, h.ip = 0, h.op = "close",
         file[p].slot # 0, file' = [file EXCEPT ![p] = Closed],
         UNCHANGED <<inodeVars, dir, calls>>, Goto(p, Calls(h, "iput", file[p].slot, "user"))
  PROVE  IInv'
<1>g. PICK g : g = proc[p]
  OBVIOUS
<1>s. PICK s : s = file[p].slot
  OBVIOUS
<1>f. PICK f : f = Calls(h, "iput", s, "user")
  OBVIOUS
<1>0. /\ g.at = "user" /\ Goto(p, f) /\ dir' = dir /\ calls' = calls
      /\ inode' = inode /\ last_inode' = last_inode /\ d_inode' = d_inode /\ imap' = imap
  BY <1>g, <1>s, <1>f DEF At, inodeVars
<1>1. g = AtUser /\ Tables /\ Opens(p) /\ s \in Slots /\ s # 0
  BY <1>0, <1>g, <1>s, Here, SlotsAre DEF Shape
<1>2. Own(g) = 0 /\ Below(g) = 0
  BY <1>1, UserFits
<1>3. /\ f \in Process /\ f.at = "iput" /\ f.ip = s /\ f.stack = <<Frame("user", 0)>>
      /\ f.op = "close" /\ Below(f) = 0 /\ Head(f.stack).at = "user"
  <2>1. "iput" \in Labels /\ "user" \in Labels /\ "user" \notin Counted /\ s \in SlotOr0
    BY <1>1, SlotsAre DEF Labels, Waits, Yields, Counted
  <2> QED
    BY <1>f, <2>1, TopCalls
<1>4. UserStack(f)
  BY <1>3, SlotsAre DEF UserStack
<1>5. Fits(f)
  BY <1>1, <1>3, <1>4 DEF Fits, StackFits, HasSlot, Searches, Counted, Top
<1>6. Own(f) = s /\ Empty(f) = 0
  BY <1>3 DEF Own, Empty, Counted, Searches
<1>7. /\ file' \in [Procs -> [slot : SlotOr0, num : 0..NInodes]]
      /\ file'[p].slot = 0
      /\ \A q \in Procs \ {p} : file'[q] = file[q]
  <2>1. Closed \in [slot : SlotOr0, num : 0..NInodes] /\ Closed.slot = 0
    BY SlotsAre, EntriesAre DEF Closed
  <2> QED
    BY <1>1, <2>1 DEF Tables
<1>8. Tables'
  BY <1>0, <1>1, <1>7 DEF Tables
<1>9. Moved(p, f)
  <2> SUFFICES ASSUME NEW t \in Slots
               PROVE  BitsOf(file'[p].slot, f, t) = Bits(p, t)
    BY <1>0 DEF Moved
  <2>1. /\ BitsOf(file'[p].slot, f, t) = Bit(0, t) + Bit(s, t) + Bit(0, t)
        /\ Bits(p, t) = Bit(s, t) + Bit(0, t) + Bit(0, t)
    BY <1>2, <1>3, <1>6, <1>7, <1>g, <1>s DEF BitsOf, Bits
  <2>2. Bit(s, t) \in {0, 1} /\ Bit(0, t) = 0
    BY BitIs
  <2> QED
    BY <2>1, <2>2
<1>10. Stays(f) = f
  BY <1>3 DEF Stays
<1>11. inode[s].num # 0
  BY <1>1, <1>s DEF Opens
<1>12. Holding(f)'
  BY <1>0, <1>3, <1>6, <1>11 DEF Holding, Own, Below, Empty, Kept
<1>13. Holding(Stays(f))'
  BY <1>10, <1>12 DEF Holding, Own, Below, Empty, Stays
<1>14. Opens(p)' /\ Finds(f)'
  BY <1>3, <1>7 DEF Opens, Finds
<1> QED
  BY <1>0, <1>3, <1>5, <1>7, <1>8, <1>9, <1>13, <1>14, Moves

\* A system call begins with nothing held.
LEMMA KeepsEnter ==
  ASSUME IInv, NEW p \in Procs, NEW c \in calls[p], Enter(p, c)
  PROVE  IInv'
<1>s. PICK s : s = file[p].slot
  OBVIOUS
<1>h. PICK h : h = [proc[p] EXCEPT !.op = c.op, !.name = c.name]
  OBVIOUS
<1>0. At(p, "user") /\ "user" \in (Top \ Counted) \cup {"user"}
  BY DEF Enter
<1>1. h \in Process /\ h.stack = <<>> /\ h.ip = 0 /\ h.op = c.op
  <2>1. proc[p] = AtUser
    BY <1>0, Here DEF Shape, At
  <2>2. AtUser \in Process /\ AtUser.ip = 0 /\ AtUser.stack = <<>>
    BY UserFits DEF Fits, AtUser
  <2>3. c.op \in Operation /\ c.name \in Names
    BY CallsAre DEF SystemCall, Operation
  <2>4. h = [AtUser EXCEPT !.op = c.op, !.name = c.name]
    BY <1>h, <2>1
  <2> QED
    BY <2>2, <2>3, <2>4 DEF Process
<1>2. s \in SlotOr0 /\ 0 \in SlotOr0 /\ 1 \in Slots /\ 1 \in SlotOr0 /\ (s # 0 => s \in Slots)
  BY <1>s, Here, SlotsAre, InodesAssumption DEF Slots
<1>3. /\ <<"find_entry", "open_found">> \in Firsts /\ <<"find_entry", "unlink_found">> \in Firsts
      /\ <<"find_entry", "link_found">> \in Firsts /\ <<"sync_inodes", "user">> \in Firsts
      /\ <<"create_block", "write_block">> \in Firsts
  BY DEF Firsts
<1> DEFINE Go(g) == UNCHANGED <<inodeVars, fileVars>> /\ Goto(p, g)
<1>4. CASE c.op \in {"open", "creat", "mknod"} /\ (c.op # "mknod" => s = 0)
           /\ Go(Calls(h, "find_entry", 0, "open_found"))
  BY <1>0, <1>1, <1>2, <1>3, <1>4, <1>s, KeepsFirst
<1>5. CASE c.op = "unlink" /\ Go(Calls(h, "find_entry", 0, "unlink_found"))
  BY <1>0, <1>1, <1>2, <1>3, <1>5, KeepsFirst
<1>6. CASE c.op = "link" /\ Go(Calls(h, "find_entry", 0, "link_found"))
  BY <1>0, <1>1, <1>2, <1>3, <1>6, KeepsFirst
<1>7. CASE c.op = "sync" /\ Go(Calls(h, "sync_inodes", 1, "user"))
  BY <1>0, <1>1, <1>2, <1>3, <1>7, KeepsFirst
<1>8. CASE c.op = "write" /\ s # 0 /\ Go(Calls([h EXCEPT !.ip = s], "create_block", s, "write_block"))
  <2>f. PICK f : f = [h EXCEPT !.ip = s]
    OBVIOUS
  <2>1. f \in Process /\ f.stack = <<>> /\ f.ip = s /\ f.op = "write"
    BY <1>1, <1>2, <1>8, <2>f DEF Process
  <2>2. Goto(p, Calls(f, "create_block", s, "write_block")) /\ UNCHANGED <<inodeVars, fileVars>>
    BY <1>8, <2>f
  <2> QED
    BY <1>0, <1>2, <1>3, <1>8, <2>1, <2>2, KeepsFirst
<1>9. CASE c.op = "close" /\ s # 0 /\ file' = [file EXCEPT ![p] = Closed]
           /\ UNCHANGED <<inodeVars, dir, calls>> /\ Goto(p, Calls(h, "iput", s, "user"))
  BY <1>0, <1>1, <1>9, <1>s, KeepsClose
<1> QED
  BY <1>4, <1>5, <1>6, <1>7, <1>8, <1>9, <1>h, <1>s DEF Enter

(* The whole *)

\* No process runs: the workload alone says what is tried.
LEMMA Starts ==
  ASSUME Init
  PROVE  IInv
<1>0. /\ inode = [s \in Slots |-> ZeroInode] /\ last_inode = 1
      /\ proc = [p \in Procs |-> AtUser] /\ cpu = Nobody /\ panic = ""
      /\ dir = InitialDir /\ d_inode = InitialDisk
      /\ imap = {InitialDir[e].ino : e \in Entries} \ {0}
      /\ file = [p \in Procs |-> Closed] /\ calls \in Workloads
  BY DEF Init, InodesInit
<1>1. Typed
  <2>1. inode \in [Slots -> Inode]
    BY <1>0, ZeroIs
  <2>2. 1 \in Slots
    BY InodesAssumption DEF Slots
  <2>3. imap \subseteq Numbers
    <3>1. \A e \in Entries : InitialDir[e].ino \in 0..NInodes
      BY FilesAssumption
    <3>2. \A n \in 0..NInodes : n # 0 => n \in Numbers
      BY InodesAssumption DEF Numbers
    <3> QED
      BY <1>0, <3>1, <3>2
  <2>4. dir \in [Entries -> [name : Names \cup {0}, ino : 0..NInodes]]
    <3>1. [name : Names, ino : 0..NInodes] \subseteq [name : Names \cup {0}, ino : 0..NInodes]
      OBVIOUS
    <3> QED
      BY <1>0, <3>1, FilesAssumption
  <2>5. Closed \in [slot : SlotOr0, num : 0..NInodes]
    BY SlotsAre, EntriesAre DEF Closed
  <2>6. AtUser \in Process
    BY UserFits DEF Fits
  <2>7. /\ file \in [Procs -> [slot : SlotOr0, num : 0..NInodes]]
        /\ proc \in [Procs -> Process]
        /\ d_inode \in [Numbers -> [nlinks : Nat, zone : 0..NZones]]
    BY <1>0, <2>5, <2>6, FilesAssumption
  <2> QED
    BY <1>0, <2>1, <2>2, <2>3, <2>4, <2>7 DEF Typed
<1>2. \A p \in Procs : proc[p] = AtUser /\ file[p] = Closed /\ file[p].slot = 0
  BY <1>0 DEF Closed
<1>3. AtUser.stack = <<>> /\ AtUser.at = "user"
  BY DEF AtUser
<1>4. \A p \in Procs : Shape(proc[p]) /\ Finds(proc[p]) /\ OpensOnce(p)
  <2>1. Shape(AtUser)
    BY UserFits DEF Fits, Shape
  <2>2. Finds(AtUser)
    BY UserFits DEF Finds
  <2> QED
    BY <1>2, <2>1, <2>2 DEF OpensOnce
<1>5. Runs
  BY <1>2, <1>3 DEF Runs, Asleep, Yields
<1>6. Held
  <2>1. Holding(AtUser)
    BY UserFits DEF Holding, Kept
  <2> QED
    BY <1>2, <2>1 DEF Held, Opens
<1>7. Counts
  <2> SUFFICES ASSUME NEW s \in Slots
               PROVE  inode[s].count = Users(FileSlots, s) + Users(Owns, s) + Users(Belows, s)
    BY DEF Counts
  <2>1. s # 0
    BY SlotsAre
  <2>2. \A p \in Procs : FileSlots[p] = 0 /\ Owns[p] = 0 /\ Belows[p] = 0
    BY <1>2, UserFits DEF FileSlots, Owns, Belows
  <2>3. /\ {p \in Procs : FileSlots[p] = s} = {} /\ {p \in Procs : Owns[p] = s} = {}
        /\ {p \in Procs : Belows[p] = s} = {}
    BY <2>1, <2>2
  <2>4. Users(FileSlots, s) = 0 /\ Users(Owns, s) = 0 /\ Users(Belows, s) = 0
    BY <2>3, FS_EmptySet DEF Users
  <2>5. inode[s].count = 0
    BY <1>0, ZeroIs
  <2> QED
    BY <2>4, <2>5
<1> QED
  BY <1>0, <1>1, <1>4, <1>5, <1>6, <1>7 DEF IInv

\* Each step of fs/inode.c, fs/bitmap.c and fs/truncate.c
LEMMA KeepsInodeStep ==
  ASSUME IInv, NEW p \in Procs, InodeStep(p), UNCHANGED fileVars
  PROVE  IInv'
<1>1. CASE get_empty_inode(p)
  BY <1>1, KeepsGetEmptyInode
<1>2. CASE get_empty_inode_loop(p)
  BY <1>2, KeepsGetEmptyInodeLoop
<1>3. CASE iget_search(p)
  BY <1>3, KeepsIgetSearch
<1>4. CASE iget_found(p)
  BY <1>4, KeepsIgetFound
<1>5. CASE read_inode(p)
  BY <1>5, KeepsReadInode
<1>6. CASE read_inode_end(p)
  BY <1>6, KeepsReadInodeEnd
<1>7. CASE write_inode(p)
  BY <1>7, KeepsWriteInode
<1>8. CASE write_inode_end(p)
  BY <1>8, KeepsWriteInodeEnd
<1>9. CASE iput(p)
  BY <1>9, KeepsIput
<1>10. CASE sync_inodes(p)
  BY <1>10, KeepsSyncInodes
<1>11. CASE truncate(p)
  BY <1>11, KeepsTruncate
<1>12. CASE free_block(p)
  BY <1>12, KeepsFreeBlock
<1>13. CASE free_inode(p)
  BY <1>13, KeepsFreeInode
<1>14. CASE new_inode(p)
  BY <1>14, KeepsNewInode
<1>15. CASE create_block(p)
  BY <1>15, KeepsCreateBlock
<1>16. CASE create_block_end(p)
  BY <1>16, KeepsCreateBlockEnd
<1> QED
  BY <1>1, <1>2, <1>3, <1>4, <1>5, <1>6, <1>7, <1>8, <1>9, <1>10, <1>11, <1>12, <1>13, <1>14,
     <1>15, <1>16 DEF InodeStep

\* Each step of a process in the kernel
LEMMA KeepsInKernel ==
  ASSUME IInv, NEW p \in Procs, InKernel(p)
  PROVE  IInv'
<1>1. CASE InodeStep(p) /\ UNCHANGED fileVars
  BY <1>1, KeepsInodeStep
<1>2. CASE find_entry(p)
  BY <1>2, KeepsFindEntry
<1>3. CASE add_entry(p)
  BY <1>3, KeepsAddEntry
<1>4. CASE iput_dir(p)
  BY <1>4, KeepsIputDir
<1>5. CASE open_found(p)
  BY <1>5, KeepsOpenFound
<1>6. CASE open_inode(p)
  <2>1. /\ At(p, "open_inode") /\ UNCHANGED <<inodeVars, fileVars>>
        /\ Goto(p, Iget(proc[p], proc[p].nr, "open_got")) /\ "open_got" \in Got
    BY <1>6 DEF open_inode, Got
  <2> QED
    BY <2>1, KeepsOpenInode
<1>7. CASE open_got(p)
  BY <1>7, KeepsOpenGot
<1>8. CASE open_new(p)
  BY <1>8, KeepsOpenNew
<1>9. CASE open_added(p)
  BY <1>9, KeepsOpenAdded
<1>10. CASE open_new_done(p)
  BY <1>10, KeepsOpenNewDone
<1>11. CASE unlink_found(p)
  BY <1>11, KeepsUnlinkFound
<1>12. CASE unlink_got(p)
  BY <1>12, KeepsUnlinkGot
<1>13. CASE link_found(p)
  BY <1>13, KeepsLinkFound
<1>14. CASE link_inode(p)
  <2>1. /\ At(p, "link_inode") /\ UNCHANGED <<inodeVars, fileVars>>
        /\ Goto(p, Iget(proc[p], proc[p].nr, "link_old")) /\ "link_old" \in Got
    BY <1>14 DEF link_inode, Got
  <2> QED
    BY <2>1, KeepsOpenInode
<1>15. CASE link_old(p)
  BY <1>15, KeepsLinkOld
<1>16. CASE link_target(p)
  BY <1>16, KeepsLinkTarget
<1>17. CASE link_added(p)
  BY <1>17, KeepsLinkAdded
<1>18. CASE link_count(p)
  BY <1>18, KeepsLinkCount
<1>19. CASE link_drop(p)
  BY <1>19, KeepsLinkDrop
<1>20. CASE write_block(p)
  BY <1>20, KeepsWriteBlock
<1>21. CASE write_copy(p)
  BY <1>21, KeepsWriteCopy
<1>22. CASE write_end(p)
  BY <1>22, KeepsWriteEnd
<1> QED
  BY <1>1, <1>2, <1>3, <1>4, <1>5, <1>6, <1>7, <1>8, <1>9, <1>10, <1>11, <1>12, <1>13, <1>14,
     <1>15, <1>16, <1>17, <1>18, <1>19, <1>20, <1>21, <1>22 DEF InKernel

\* A panic stops everything.
LEMMA KeepsStutter ==
  ASSUME IInv, UNCHANGED vars
  PROVE  IInv'
<1>1. /\ inode' = inode /\ last_inode' = last_inode /\ d_inode' = d_inode /\ imap' = imap
      /\ proc' = proc /\ cpu' = cpu /\ panic' = panic /\ dir' = dir /\ file' = file /\ calls' = calls
  BY DEF vars, inodeVars, procVars, fileVars
<1>2. Typed'
  BY <1>1 DEF IInv, Typed
<1>3. \A p \in Procs : (Shape(proc[p]) /\ Finds(proc[p]) /\ OpensOnce(p))'
  <2> TAKE p \in Procs
  <2>1. Shape(proc[p]) /\ Finds(proc[p]) /\ OpensOnce(p)
    BY DEF IInv
  <2>2. Shape(proc[p])'
    BY <1>1, <2>1, ShapePrimed
  <2> QED
    BY <1>1, <2>1, <2>2 DEF Finds, OpensOnce
<1>4. Runs'
  BY <1>1 DEF IInv, Runs
<1>5. Held'
  BY <1>1 DEF IInv, Held, Holding, Opens, Own, Below, Empty
<1>6. Counts'
  <2>1. FileSlots' = FileSlots /\ Owns' = Owns /\ Belows' = Belows
    BY <1>1 DEF FileSlots, Owns, Belows, Own, Below
  <2> QED
    BY <1>1, <2>1 DEF IInv, Counts, Users
<1> QED
  BY <1>1, <1>2, <1>3, <1>4, <1>5, <1>6 DEF IInv

\* Whatever the processes call and wherever they sleep, the references of files and
\* of calls under way are the ones counted, and inodes that are held keep their numbers.
THEOREM Invariance == Spec => []IInv
<1>1. Init => IInv
  BY Starts
<1>2. IInv /\ [Next]_vars => IInv'
  <2> SUFFICES ASSUME IInv, [Next]_vars PROVE IInv'
    OBVIOUS
  <2>1. ASSUME NEW p \in Procs, InKernel(p) PROVE IInv'
    BY <2>1, KeepsInKernel
  <2>2. ASSUME NEW p \in Procs, NEW c \in calls[p], Enter(p, c) PROVE IInv'
    BY <2>2, KeepsEnter
  <2>3. CASE UNCHANGED vars
    BY <2>3, KeepsStutter
  <2> QED
    BY <2>1, <2>2, <2>3 DEF Next, Halted
<1> QED
  BY <1>1, <1>2, PTL DEF Spec

(* What the invariant says of References() *)

\* No reference is deeper in the stack than its head.
Shallow(st) == \A i \in 1..4 : i <= Len(st) /\ i # 1 => st[i].at \notin Counted \/ st[i].ip = 0

\* Up to three frames, of which only the first holds an inode
LEMMA ShallowIs ==
  ASSUME NEW st, NEW a, NEW b, NEW c
  PROVE  /\ st = <<>> => Shallow(st)
         /\ st = <<a>> => Shallow(st)
         /\ st = <<a, b>> /\ (b.at \notin Counted \/ b.ip = 0) => Shallow(st)
         /\ st = <<a, b, c>> /\ (b.at \notin Counted \/ b.ip = 0) /\ (c.at \notin Counted \/ c.ip = 0) => Shallow(st)
<1>1. CASE st = <<>>
  <2>1. Len(st) = 0
    BY <1>1
  <2>2. Shallow(st)
    BY <2>1 DEF Shallow
  <2> QED
    BY <1>1, <2>2, Stacking
<1>2. st = <<a>> => Shallow(st)
  <2> HAVE st = <<a>>
  <2>1. Len(st) = 1
    OBVIOUS
  <2> QED
    BY <2>1 DEF Shallow
<1>3. st = <<a, b>> /\ (b.at \notin Counted \/ b.ip = 0) => Shallow(st)
  <2> HAVE st = <<a, b>> /\ (b.at \notin Counted \/ b.ip = 0)
  <2>1. Len(st) = 2 /\ st[2] = b
    OBVIOUS
  <2>2. \A i \in 1..4 : i <= Len(st) /\ i # 1 => i = 2
    BY <2>1
  <2> QED
    BY <2>1, <2>2 DEF Shallow
<1>4. st = <<a, b, c>> /\ (b.at \notin Counted \/ b.ip = 0) /\ (c.at \notin Counted \/ c.ip = 0) => Shallow(st)
  <2> HAVE st = <<a, b, c>> /\ (b.at \notin Counted \/ b.ip = 0) /\ (c.at \notin Counted \/ c.ip = 0)
  <2>1. Len(st) = 3 /\ st[2] = b /\ st[3] = c
    OBVIOUS
  <2>2. \A i \in 1..4 : i <= Len(st) /\ i # 1 => i = 2 \/ i = 3
    BY <2>1
  <2> QED
    BY <2>1, <2>2 DEF Shallow
<1>5. st = <<>> => Shallow(st)
  BY <1>1
<1> QED
  BY <1>2, <1>3, <1>4, <1>5

\* The stacks of the source are such: what is called for somebody who holds an
\* inode holds none before it returns, or calls as the last thing it does.
LEMMA StacksAreShallow ==
  ASSUME NEW f \in Process, StackFits(f)
  PROVE  Shallow(f.stack)
<1> DEFINE st == f.stack
<1>1. /\ \A s : Frame("user", s).at \notin Counted
      /\ Frame("iget_search", 0).at \notin Counted
      /\ \A a : Frame(a, 0).ip = 0
  BY FrameIs DEF Counted
<1> HIDE DEF st
<1>2. ASSUME NEW a, st = <<a>> PROVE Shallow(st)
  BY <1>2, ShallowIs
<1>3. ASSUME NEW a, NEW b, st = <<a, b>>, b.at \notin Counted \/ b.ip = 0 PROVE Shallow(st)
  BY <1>3, ShallowIs
<1>4. ASSUME NEW a, NEW b, NEW c, st = <<a, b, c>>, b.at \notin Counted \/ b.ip = 0, c.at \notin Counted \/ c.ip = 0
      PROVE  Shallow(st)
  BY <1>4, ShallowIs
<1>5. st = <<>> => Shallow(st)
  BY ShallowIs
<1>6. FindStack(f) \/ AddStack(f) \/ DirStack(f) \/ GetStack(f) \/ BlockStack(f) \/ UserStack(f) => Shallow(st)
  BY <1>2 DEF FindStack, AddStack, DirStack, GetStack, BlockStack, UserStack, st
<1>7. EmptyStack(f) => Shallow(st)
  BY <1>1, <1>3 DEF EmptyStack, st
<1>8. PutStack(f) => Shallow(st)
  BY <1>2 DEF PutStack, st
<1>9. TruncateStack(f) => Shallow(st)
  <2>1. CASE \E s \in Slots : st = <<Frame("open_done", s)>>
    BY <1>2, <2>1
  <2>2. CASE \E s \in Slots, t \in SlotOr0 : st = <<Frame("free_inode", s), Frame("user", t)>>
    BY <1>1, <1>3, <2>2
  <2> QED
    BY <2>1, <2>2 DEF TruncateStack, st
<1>10. WriteStack(f) => Shallow(st)
  <2>1. CASE st = <<Frame("user", 0)>>
    BY <1>2, <2>1
  <2>2. CASE \E s \in Slots : st = <<Frame("sync_inodes", s), Frame("user", 0)>>
    BY <1>1, <1>3, <2>2
  <2>3. CASE \E s \in Slots, t \in SlotOr0 : st = <<Frame("iput_again", s), Frame("user", t)>>
    BY <1>1, <1>3, <2>3
  <2>4. CASE \E s \in Slots, a \in Got : st = <<Frame("gei_wait", s), Frame("iget_search", 0), Frame(a, 0)>>
    BY <1>1, <1>4, <2>4
  <2>5. CASE \E s \in Slots : st = <<Frame("gei_wait", s), Frame("new_inode", 0), Frame("open_new", 0)>>
    BY <1>1, <1>4, <2>5
  <2> QED
    BY <2>1, <2>2, <2>3, <2>4, <2>5 DEF WriteStack, st
<1>11. f.at = "new_inode" \/ f.at = "sync_inodes" => Shallow(st)
  BY <1>2 DEF StackFits, st
<1>12. f.at \in Top \cup {"user"} => Shallow(st)
  BY <1>5 DEF StackFits, st
<1>13. f.at \in Top \cup {"user", "new_inode", "sync_inodes", "find_entry", "add_entry", "iput_dir",
         "get_empty_inode", "gei_wait", "iget_search", "iget_wait", "read_inode", "read_bread", "iput",
         "iput_again", "free_inode", "truncate", "free_block", "write_inode", "write_bread",
         "create_block", "getblk"}
  <2>1. f.at \in Labels
    BY DEF Process
  <2> QED
    BY <2>1 DEF Labels, Yields, Waits, Top
<1>14. \/ f.at \in Top \cup {"user", "new_inode", "sync_inodes"}
       \/ FindStack(f) \/ AddStack(f) \/ DirStack(f) \/ GetStack(f) \/ BlockStack(f) \/ UserStack(f)
       \/ EmptyStack(f) \/ PutStack(f) \/ TruncateStack(f) \/ WriteStack(f)
  BY <1>13 DEF StackFits, Searches
<1> QED
  BY <1>6, <1>7, <1>8, <1>9, <1>10, <1>11, <1>12, <1>14 DEF st

\* References() counts what the invariant counts.
LEMMA ReferencesAre ==
  ASSUME IInv, NEW s \in Slots
  PROVE  References(s) = Users(FileSlots, s) + Users(Owns, s) + Users(Belows, s)
<1> DEFINE A == {p \in Procs : file[p].slot = s}
           B == {p \in Procs : proc[p].at \in Counted /\ proc[p].ip = s}
           C == {p \in Procs : proc[p].at \in {"iget_search", "iget_wait"} /\ proc[p].empty = s}
           D == {r \in Procs \X (1..4) :
                     LET stack == proc[r[1]].stack
                     IN  /\ r[2] <= Len(stack)
                         /\ stack[r[2]].at \in Counted /\ stack[r[2]].ip = s}
           O == {p \in Procs : Owns[p] = s}
           E == {p \in Procs : Belows[p] = s}
<1>0. s # 0
  BY SlotsAre
<1>1. \A p \in Procs : FileSlots[p] = file[p].slot /\ Owns[p] = Own(proc[p]) /\ Belows[p] = Below(proc[p])
  BY DEF FileSlots, Owns, Belows
<1>2. Cardinality(A) = Users(FileSlots, s)
  <2>1. A = {p \in Procs : FileSlots[p] = s}
    BY <1>1
  <2> QED
    BY <2>1 DEF Users
<1>3. Cardinality(B) + Cardinality(C) = Users(Owns, s)
  <2>1. O = B \cup C
    <3> SUFFICES ASSUME NEW p \in Procs
                 PROVE  /\ Own(proc[p]) = s => \/ proc[p].at \in Counted /\ proc[p].ip = s
                                               \/ proc[p].at \in Searches /\ proc[p].empty = s
                        /\ proc[p].at \in Counted /\ proc[p].ip = s => Own(proc[p]) = s
                        /\ proc[p].at \in Searches /\ proc[p].empty = s => Own(proc[p]) = s
      BY <1>1 DEF Searches
    <3>1. proc[p].at \in Searches => proc[p].at \notin Counted
      BY DEF Searches, Counted
    <3> QED
      BY <1>0, <3>1 DEF Own
  <2>2. B \cap C = {}
    BY DEF Counted
  <2>3. IsFiniteSet(B) /\ IsFiniteSet(C)
    <3>1. IsFiniteSet(Procs) /\ B \subseteq Procs /\ C \subseteq Procs
      BY InodesAssumption
    <3> QED
      BY <3>1, FS_Subset
  <2>4. Cardinality(B) \in Nat /\ Cardinality(C) \in Nat /\ Cardinality({}) = 0
    BY <2>3, FS_CardinalityType, FS_EmptySet
  <2>5. Cardinality(B \cup C) = Cardinality(B) + Cardinality(C) - Cardinality(B \cap C)
    BY <2>3, FS_Union
  <2> HIDE DEF B, C, O
  <2>6. Cardinality(B \cap C) = 0
    BY <2>2, <2>4
  <2>7. Cardinality(B \cup C) = Cardinality(B) + Cardinality(C)
    <3> DEFINE b == Cardinality(B)
               c == Cardinality(C)
               u == Cardinality(B \cup C)
               x == Cardinality(B \cap C)
    <3>1. b \in Nat /\ c \in Nat /\ x = 0 /\ u = b + c - x
      BY <2>4, <2>5, <2>6
    <3> HIDE DEF b, c, u, x
    <3>2. u = b + c
      BY <3>1
    <3> QED
      BY <3>2 DEF b, c, u
  <2> QED
    BY <2>1, <2>7 DEF Users, O
<1>4. Cardinality(D) = Users(Belows, s)
  <2>1. ASSUME NEW p \in Procs, NEW i \in 1..4
        PROVE  i <= Len(proc[p].stack) /\ proc[p].stack[i].at \in Counted /\ proc[p].stack[i].ip = s
                 <=> i = 1 /\ Belows[p] = s
    <3> DEFINE st == proc[p].stack
    <3>1. proc[p] \in Process /\ StackFits(proc[p])
      BY Here DEF Shape
    <3>2. Shallow(st)
      BY <3>1, StacksAreShallow
    <3>3. st \in Seq([at : Labels, ip : SlotOr0])
      BY <3>1 DEF Process
    <3> HIDE DEF st
    <3>4. st # <<>> => Head(st) = st[1] /\ Len(st) \in Nat /\ 1 <= Len(st)
      BY <3>3
    <3>5. st = <<>> => Len(st) = 0
      OBVIOUS
    <3>6. Belows[p] = s <=> st # <<>> /\ st[1].at \in Counted /\ st[1].ip = s
      BY <1>0, <1>1, <3>4 DEF Below, st
    <3>7. i <= Len(st) /\ i # 1 => st[i].at \notin Counted \/ st[i].ip # s
      BY <1>0, <3>2 DEF Shallow
    <3>8. i <= Len(st) => st # <<>>
      BY <3>5
    <3> QED
      BY <3>4, <3>6, <3>7, <3>8 DEF st
  <2>2. D = E \X {1}
    BY <2>1
  <2>3. IsFiniteSet(E)
    <3>1. IsFiniteSet(Procs) /\ E \subseteq Procs
      BY InodesAssumption
    <3> QED
      BY <3>1, FS_Subset
  <2> HIDE DEF D, E
  <2>4. Cardinality(E \X {1}) = Cardinality(E)
    <3>1. IsFiniteSet({1}) /\ Cardinality({1}) = 1
      BY FS_Singleton
    <3>2. Cardinality(E) \in Nat
      BY <2>3, FS_CardinalityType
    <3>3. Cardinality(E \X {1}) = Cardinality(E) * Cardinality({1})
      BY <2>3, <3>1, FS_Product
    <3> QED
      BY <3>1, <3>2, <3>3
  <2> QED
    BY <2>2, <2>4 DEF Users, E
<1>5. References(s) = Cardinality(A) + Cardinality(B) + Cardinality(C) + Cardinality(D)
  BY DEF References
<1>6. Cardinality(A) \in Nat /\ Cardinality(B) \in Nat /\ Cardinality(C) \in Nat /\ Cardinality(D) \in Nat
  <2>1. IsFiniteSet(A) /\ IsFiniteSet(B) /\ IsFiniteSet(C) /\ IsFiniteSet(Procs)
    <3>1. IsFiniteSet(Procs) /\ A \subseteq Procs /\ B \subseteq Procs /\ C \subseteq Procs
      BY InodesAssumption
    <3> QED
      BY <3>1, FS_Subset
  <2>2. Users(Belows, s) \in Nat
    <3>1. IsFiniteSet(E)
      <4>1. E \subseteq Procs
        OBVIOUS
      <4> QED
        BY <2>1, <4>1, FS_Subset
    <3> QED
      BY <3>1, FS_CardinalityType DEF Users
  <2> HIDE DEF A, B, C, D
  <2> QED
    BY <1>4, <2>1, <2>2, FS_CardinalityType
<1> HIDE DEF A, B, C, D
<1> QED
  BY <1>2, <1>3, <1>4, <1>5, <1>6

\* i_count is the number of open files and of calls under way that refer to the
\* slot, for any number of processes that call whatever they like: iget(),
\* new_inode(), iput() and the system calls give back each reference they take.
THEOREM CountsAreReferences == Spec => []CountIsReferences
<1>1. IInv => CountIsReferences
  BY ReferencesAre DEF IInv, Counts, CountIsReferences
<1> QED
  BY <1>1, Invariance, PTL

\* A slot in use is not given to another inode: iget() brings the inode asked for,
\* and an open file stays the file that was opened, although get_empty_inode(),
\* iget(), write_inode() and iput() sleep.
THEOREM HeldInodesKeepNumbers == Spec => []HeldInodeKeepsNumber
<1>1. IInv => HeldInodeKeepsNumber
  BY DEF IInv, Held, Holding, Opens, Kept, HeldInodeKeepsNumber
<1> QED
  BY <1>1, Invariance, PTL

\* The panic of iput() that says that a reference was given back twice
IputIsSane == panic # "iput: trying to free free inode"

\* iput() is never called for an inode that nobody holds: the kernel does not stop
\* with the panic that looks for it.
THEOREM IputStaysSane == Spec => []IputIsSane
<1>1. IInv => IputIsSane
  BY DEF IInv, IputIsSane
<1> QED
  BY <1>1, Invariance, PTL

(* One slot per inode *)

\* The numbers of slots after a step: the ones before, or 0 for a slot let go.
Dropped == \A t \in Slots : inode'[t].num \in {inode[t].num, 0}

\* A slot gets a number that no other slot has, or that was free in the bitmap.
Numbered ==
  \E s \in Slots, n \in Numbers :
    /\ inode'[s].num = n /\ \A t \in Slots : t # s => inode'[t].num = inode[t].num
    /\ n \notin imap \/ \A t \in Slots : inode[t].num # n

\* iget_search() looks through the whole table just before it gives the number.
LEMMA IgetNumbers ==
  ASSUME IInv, NEW p \in Procs, iget_search(p)
  PROVE  Dropped \/ Numbered
<1>f. PICK f : f = proc[p]
  OBVIOUS
<1>1. f.at = "iget_search"
  BY <1>f DEF iget_search, At
<1>2. f \in Process /\ f.empty \in Slots /\ f.nr \in Numbers
  <2>1. f \in Process /\ f.empty \in Slots /\ f.nr # 0
    BY <1>f, <1>1, Here DEF Shape, Searches
  <2>2. f.nr \in 0..NInodes
    BY <2>1 DEF Process
  <2> QED
    BY <2>1, <2>2, InodesAssumption DEF Numbers
<1> DEFINE found == {s \in Slots : inode[s].num = f.nr}
<1>3. CASE found # {}
  <2>1. inode' = inode
    BY <1>3, <1>f DEF iget_search
  <2> QED
    BY <2>1 DEF Dropped
<1>4. CASE found = {}
  <2>1. inode' = [inode EXCEPT ![f.empty].num = f.nr]
    BY <1>4, <1>f DEF iget_search
  <2>2. inode \in [Slots -> Inode]
    BY DEF IInv, Typed
  <2>3. /\ inode'[f.empty].num = f.nr
        /\ \A t \in Slots : t # f.empty => inode'[t].num = inode[t].num
    BY <1>2, <2>1, <2>2 DEF Inode
  <2>4. \A t \in Slots : inode[t].num # f.nr
    BY <1>4
  <2> QED
    BY <1>2, <2>3, <2>4 DEF Numbered
<1> QED
  BY <1>3, <1>4

\* new_inode() gives the first number that is free in the bitmap.
LEMMA NewNumbers ==
  ASSUME IInv, NEW p \in Procs, new_inode(p)
  PROVE  Dropped \/ Numbered
<1>f. PICK f : f = proc[p]
  OBVIOUS
<1>1. f.at = "new_inode"
  BY <1>f DEF new_inode, At
<1>2. f.ip \in Slots
  BY <1>f, <1>1, Here DEF Shape, HasSlot, Counted
<1> DEFINE free == Numbers \ imap
<1>3. CASE free = {}
  <2>1. inode' = inode
    BY <1>3, <1>f DEF new_inode
  <2> QED
    BY <2>1 DEF Dropped
<1>4. CASE free # {}
  <2> DEFINE n == Min(free)
  <2>1. inode' = [inode EXCEPT ![f.ip].count = 1, ![f.ip].nlinks = 1,
                               ![f.ip].dirt = TRUE, ![f.ip].num = n]
    BY <1>4, <1>f DEF new_inode
  <2>2. n \in free
    <3>1. free \in SUBSET Nat /\ IsFiniteSet(free)
      <4>1. Numbers = 1..NInodes /\ NInodes \in Nat
        BY InodesAssumption DEF Numbers
      <4>2. IsFiniteSet(Numbers)
        BY <4>1, FS_Interval
      <4>3. free \subseteq Numbers
        OBVIOUS
      <4> QED
        BY <4>1, <4>2, <4>3, FS_Subset
    <3> HIDE DEF free
    <3> QED
      BY <1>4, <3>1, MinIn
  <2>3. inode \in [Slots -> Inode]
    BY DEF IInv, Typed
  <2> HIDE DEF n
  <2>4. /\ inode'[f.ip].num = n
        /\ \A t \in Slots : t # f.ip => inode'[t].num = inode[t].num
    BY <1>2, <2>1, <2>3 DEF Inode
  <2> QED
    BY <1>2, <2>2, <2>4 DEF Numbered
<1> QED
  BY <1>3, <1>4

\* The steps of fs/inode.c, fs/bitmap.c and fs/truncate.c
LEMMA InodeStepNumbers ==
  ASSUME IInv, NEW p \in Procs, InodeStep(p)
  PROVE  Dropped \/ Numbered
<1>1. inode \in [Slots -> Inode] /\ ZeroInode.num = 0
  BY ZeroIs DEF IInv, Typed, ZeroInode
<1>2. ASSUME inode' = inode PROVE Dropped
  BY <1>2 DEF Dropped
<1>3. CASE get_empty_inode(p) \/ sync_inodes(p) \/ create_block(p)
  <2>1. inode' = inode
    BY <1>3 DEF get_empty_inode, sync_inodes, create_block, inodeVars, Panic
  <2> QED
    BY <1>2, <2>1
<1>4. CASE get_empty_inode_loop(p)
  <2>1. \/ inode' = inode
        \/ \E s : inode' = [inode EXCEPT ![s] = [ZeroInode EXCEPT !.count = 1]]
    BY <1>4 DEF get_empty_inode_loop
  <2>2. [ZeroInode EXCEPT !.count = 1].num = 0
    BY DEF ZeroInode
  <2> HIDE DEF ZeroInode
  <2> QED
    BY <1>1, <1>2, <2>1, <2>2 DEF Dropped
<1>5. CASE iget_search(p)
  BY <1>5, IgetNumbers
<1>6. CASE iget_found(p) \/ read_inode(p) \/ read_inode_end(p)
  BY <1>1, <1>6 DEF iget_found, read_inode, read_inode_end, Dropped, Inode
<1>7. CASE write_inode(p) \/ write_inode_end(p)
  BY <1>1, <1>7 DEF write_inode, write_inode_end, Dropped, Inode
<1>8. CASE iput(p)
  <2>1. inode' = inode \/ \E s : inode' = [inode EXCEPT ![s].count = @ - 1]
    BY <1>8 DEF iput, iput_repeat, inodeVars
  <2> QED
    BY <1>1, <2>1 DEF Dropped, Inode
<1>9. CASE truncate(p) \/ free_block(p) \/ create_block_end(p)
  <2>1. \/ inode' = inode
        \/ \E s : inode' = [inode EXCEPT ![s].dirt = TRUE]
        \/ \E s, b : inode' = [inode EXCEPT ![s].zone = b, ![s].dirt = TRUE]
    BY <1>9 DEF truncate, free_block, create_block_end
  <2>2. ASSUME NEW s, NEW b, inode' = [inode EXCEPT ![s].zone = b, ![s].dirt = TRUE] PROVE Dropped
    BY <1>1, <2>2 DEF Dropped, Inode
  <2>3. ASSUME NEW s, inode' = [inode EXCEPT ![s].dirt = TRUE] PROVE Dropped
    BY <1>1, <2>3 DEF Dropped, Inode
  <2> QED
    BY <1>2, <2>1, <2>2, <2>3
<1>10. CASE free_inode(p)
  <2>1. inode' = inode \/ \E s : inode' = [inode EXCEPT ![s] = ZeroInode]
    BY <1>10 DEF free_inode
  <2> QED
    BY <1>1, <1>2, <2>1 DEF Dropped
<1>11. CASE new_inode(p)
  BY <1>11, NewNumbers
<1> QED
  BY <1>3, <1>4, <1>5, <1>6, <1>7, <1>8, <1>9, <1>10, <1>11 DEF InodeStep

\* The system calls change no number themselves.
LEMMA CallNumbers ==
  ASSUME IInv, NEW p \in Procs, InKernel(p) \/ \E c \in calls[p] : Enter(p, c)
  PROVE  Dropped \/ Numbered
<1>1. inode \in [Slots -> Inode]
  BY DEF IInv, Typed
<1>2. ASSUME inode' = inode PROVE Dropped
  BY <1>2 DEF Dropped
<1>3. CASE InodeStep(p)
  BY <1>3, InodeStepNumbers
<1>4. CASE find_entry(p) \/ add_entry(p) \/ iput_dir(p)
  <2>1. inode' = inode
    BY <1>4 DEF find_entry, add_entry, iput_dir, inodeVars
  <2> QED
    BY <1>2, <2>1
<1>5. CASE open_found(p) \/ open_inode(p) \/ open_got(p) \/ open_new(p) \/ open_new_done(p)
  <2>1. inode' = inode
    BY <1>5 DEF open_found, open_inode, open_got, open_new, open_new_done, Return, Continue, Opened,
                inodeVars
  <2> QED
    BY <1>2, <2>1
<1>6. CASE unlink_found(p) \/ link_found(p) \/ link_inode(p) \/ link_target(p) \/ link_added(p) \/ link_drop(p)
  <2>1. inode' = inode
    BY <1>6 DEF unlink_found, link_found, link_inode, link_target, link_added, link_drop, Return,
                Continue, inodeVars
  <2> QED
    BY <1>2, <2>1
<1>7. CASE write_block(p) \/ write_end(p)
  <2>1. inode' = inode
    BY <1>7 DEF write_block, write_end, Return, inodeVars
  <2> QED
    BY <1>2, <2>1
<1>8. CASE open_added(p)
  <2>1. inode' = inode \/ \E s : inode' = [inode EXCEPT ![s].nlinks = 0]
    BY <1>8 DEF open_added, inodeVars
  <2> QED
    BY <1>1, <1>2, <2>1 DEF Dropped, Inode
<1>9. CASE unlink_got(p)
  BY <1>1, <1>9 DEF unlink_got, Dropped, Inode
<1>10. CASE link_old(p) \/ link_count(p) \/ write_copy(p)
  <2>1. \/ \E s : inode' = [inode EXCEPT ![s].dirt = TRUE]
        \/ \E s : inode' = [inode EXCEPT ![s].nlinks = @ + 1, ![s].dirt = TRUE]
        \/ \E s, g : inode' = [inode EXCEPT ![s].dirt = @ \/ g]
    BY <1>10 DEF link_old, link_count, write_copy
  <2>2. ASSUME NEW s, inode' = [inode EXCEPT ![s].dirt = TRUE] PROVE Dropped
    BY <1>1, <2>2 DEF Dropped, Inode
  <2>3. ASSUME NEW s, inode' = [inode EXCEPT ![s].nlinks = @ + 1, ![s].dirt = TRUE] PROVE Dropped
    BY <1>1, <2>3 DEF Dropped, Inode
  <2>4. ASSUME NEW s, NEW g, inode' = [inode EXCEPT ![s].dirt = @ \/ g] PROVE Dropped
    BY <1>1, <2>4 DEF Dropped, Inode
  <2> QED
    BY <2>1, <2>2, <2>3, <2>4
<1>11. ASSUME NEW c, Enter(p, c) PROVE Dropped
  <2>1. inode' = inode
    BY <1>11 DEF Enter, inodeVars
  <2> QED
    BY <1>2, <2>1
<1> QED
  BY <1>3, <1>4, <1>5, <1>6, <1>7, <1>8, <1>9, <1>10, <1>11 DEF InKernel

\* Two slots get one number only where new_inode() gives a number that is free in the
\* bitmap to a slot while another still has it.
LEMMA StaysUnique ==
  ASSUME IInv, [Next]_vars, UniqueInode, MarkedInUse
  PROVE  UniqueInode'
<1>1. ASSUME Dropped PROVE UniqueInode'
  BY <1>1 DEF Dropped, UniqueInode
<1>2. ASSUME Numbered PROVE UniqueInode'
  <2>1. PICK s \in Slots, n \in Numbers :
          /\ inode'[s].num = n /\ \A t \in Slots : t # s => inode'[t].num = inode[t].num
          /\ n \notin imap \/ \A t \in Slots : inode[t].num # n
    BY <1>2 DEF Numbered
  <2>2. \A t \in Slots : inode[t].num # n
    <3>1. 0 \notin Numbers
      BY DEF Numbers
    <3> QED
      BY <2>1, <3>1 DEF MarkedInUse
  <2> QED
    BY <2>1, <2>2 DEF UniqueInode
<1>3. CASE UNCHANGED vars
  <2>1. inode' = inode
    BY <1>3 DEF vars, inodeVars
  <2> QED
    BY <2>1 DEF UniqueInode
<1> QED
  BY <1>1, <1>2, <1>3, CallNumbers DEF Next, Halted

\* iget() never makes a second slot for an inode: whatever happens while it sleeps in
\* get_empty_inode() and wait_on_inode(), with any number of processes and any calls.
\* As long as every inode in memory is marked in use on the disk, so that new_inode()
\* does not give its number again, there is one slot per inode.
THEOREM OneSlotPerInode == Spec /\ []MarkedInUse => []UniqueInode
<1>1. Init => UniqueInode
  <2>1. ASSUME Init, NEW s \in Slots PROVE inode[s].num = 0
    BY <2>1 DEF Init, InodesInit, ZeroInode
  <2> QED
    BY <2>1 DEF UniqueInode
<1>2. IInv /\ [Next]_vars /\ UniqueInode /\ MarkedInUse => UniqueInode'
  BY StaysUnique
<1> QED
  BY <1>1, <1>2, Invariance, PTL DEF Spec

(* What the tables agree on *)

\* Who uses an inode: by its open file or in a call, or by a name of its own
Holds(p, s) == s \in {file[p].slot, Own(proc[p]), Below(proc[p])}
HoldsInode(p, n) == \E s \in Slots : Holds(p, s) /\ inode[s].num = n
NamesInode(p, n) == \E e \in Entries : dir[e].ino = n /\ dir[e].name \in Mine(calls, p)
RefersTo(p, n) == n # 0 /\ (HoldsInode(p, n) \/ NamesInode(p, n))
InUse(n) == (\E e \in Entries : dir[e].ino = n) \/ \E p \in Procs : HoldsInode(p, n)

\* The newest copy of an inode: the slot that holds it, once it is read in, or the disk
Reading(f) == f.at \in {"read_inode", "read_bread"}
Locking(f) == f.at \in {"read_bread", "write_bread"}
Loaded(s) == inode[s].num # 0 /\ \A p \in Procs : ~(Reading(proc[p]) /\ proc[p].ip = s)
Fields(r) == [nlinks |-> r.nlinks, zone |-> r.zone]
Now(n) == IF \E s \in Slots : Loaded(s) /\ inode[s].num = n
            THEN Fields(inode[CHOOSE s \in Slots : Loaded(s) /\ inode[s].num = n])
            ELSE d_inode[n]

\* The frame of the system call, which is the process itself when it has called nothing
Caller(f) == IF f.stack = <<>> THEN Frame(f.at, f.ip) ELSE f.stack[Len(f.stack)]
CallAt(f) == Caller(f).at

\* An inode that has been created and has no entry yet
Created(f) == IF CallAt(f) \in {"open_new", "open_added"} THEN Caller(f).ip ELSE 0
BeingCreated(n) == \E p \in Procs : Created(proc[p]) # 0 /\ inode[Created(proc[p])].num = n

\* An entry that link() has made and not counted yet
Pending(e) == \E p \in Procs : CallAt(proc[p]) = "link_count" /\ proc[p].de = e
LinksOf(n) == {e \in Entries : dir[e].ino = n /\ ~Pending(e)}

\* A slot that nobody uses is clean and not locked, and its inode has links; a clean
\* inode is on the disk.
SlotInv(s) ==
  LET i == inode[s] IN
  /\ i.num = 0 => i.nlinks = 0 /\ i.zone = 0 /\ ~i.dirt /\ ~i.lock
  /\ i.count = 0 => ~i.dirt /\ ~i.lock /\ (i.num # 0 => i.nlinks # 0)
  /\ Loaded(s) /\ ~i.dirt /\ i.nlinks # 0 => d_inode[i.num] = Fields(i)
  /\ i.nlinks <= DirSize

\* What a process that sleeps in fs/inode.c still finds when it goes on
HeadAt(f, a) == f.stack # <<>> /\ Head(f.stack).at = a
Frees(f) == f.at = "free_inode" \/ HeadAt(f, "free_inode")
ProcInv(p) ==
  LET f == proc[p] i == inode[f.ip] IN
  /\ f.at = "gei_wait" => i.count = 0 /\ (panic = "" => cpu = p)
  /\ ~HeadAt(f, "gei_wait")
  /\ Reading(f) => /\ i.count = 1 /\ i.nlinks = 0 /\ i.zone = 0 /\ ~i.dirt
                   /\ (f.at = "read_inode" /\ panic = "" => cpu = p)
  /\ Locking(f) => i.lock /\ i.num # 0
  /\ Frees(f) => i.nlinks = 0 /\ i.count = 1 /\ i.num # 0
  /\ f.at = "free_inode" => i.zone = 0
  /\ f.at \in {"truncate", "free_block"} \/ HeadAt(f, "iput_again") => Head(f.stack).ip = f.ip

\* An inode is locked by one process, and by none while it is freed.
LocksInv ==
  \A p, q \in Procs :
     /\ Locking(proc[p]) /\ Locking(proc[q]) /\ proc[p].ip = proc[q].ip => p = q
     /\ Frees(proc[p]) /\ Locking(proc[q]) => proc[p].ip # proc[q].ip

\* Nothing has a block while somebody may call sync().
SyncInv ==
  (\E p \in Procs : Does(calls, p, "sync")) =>
        /\ \A s \in Slots : inode[s].zone = 0
        /\ \A n \in Numbers : d_inode[n].zone = 0

\* A process in the kernel has made one of its calls, and works on a name of it.
OpenLabels == {"open_found", "open_inode", "open_got", "open_done", "open_new", "open_added", "open_new_done"}
LinkLabels == {"link_found", "link_inode", "link_old", "link_target", "link_added", "link_count", "link_drop"}
Olds == {"link_found", "link_inode", "link_old"}
Asked(p) ==
  LET f == proc[p] IN
  f.at # "user" => \E c \in calls[p] :
     /\ c.op = f.op
     /\ f.name = c.name \/ (f.op = "link" /\ f.name = c.to /\ CallAt(f) \notin Olds)

\* The operation at each label
OpInv(p) ==
  LET f == proc[p] a == CallAt(f) IN
  /\ a \in OpenLabels => f.op \in {"open", "creat", "mknod"}
  /\ a \in {"open_inode", "open_got"} => f.op # "mknod"
  /\ a \in {"open_new", "open_added", "open_new_done"} => f.op # "open"
  /\ a \in {"unlink_found", "unlink_got"} => f.op = "unlink"
  /\ a \in LinkLabels => f.op = "link"
  /\ a \in {"write_block", "bread", "copy"} => f.op = "write"
  /\ f.at = "sync_inodes" \/ (f.at \in {"write_inode", "write_bread"} /\ ~HeadAt(f, "iput_again")) => f.op = "sync"

\* Entries name allocated inodes; lasting names stay, and name public files.
DirInv ==
  \A e \in Entries :
       /\ dir[e].name \in Names
       /\ dir[e].ino # 0 => /\ dir[e].ino \in imap
                            /\ dir[e].name \in Lasting(calls) \/ \E p \in Procs : dir[e].name \in Mine(calls, p)
       /\ dir[e].ino # 0 /\ dir[e].name \in Lasting(calls) => dir[e].ino \in Public(calls)
       /\ InitialDir[e].name \in Lasting(calls) /\ InitialDir[e].ino # 0 => dir[e] = InitialDir[e]

\* The entry and the inode number that a call has found are still right after it slept.
Named(f) == f.de \in Entries /\ dir[f.de].name = f.name
Seeks == {"open_inode", "link_inode"} \cup Got
SeekInv(p) ==
  LET f == proc[p] IN
  /\ NamesInode(p, f.nr) \/ f.nr \in Public(calls)
  /\ f.nr \in Public(calls) => Reaches(calls, p)
  /\ f.nr \in Public(calls) /\ f.op = "link" => LinksPublic(calls, p)
NamesInv(p) ==
  LET f == proc[p] a == CallAt(f) s == Caller(f).ip IN
  /\ f.at \in {"open_found", "unlink_found", "link_found", "link_target"} =>
       IF f.de = 0 THEN f.name \notin Lasting(calls) ELSE Named(f)
  /\ a \in {"open_new", "open_added", "link_added", "link_count"} => f.name \in Mine(calls, p)
  /\ a = "unlink_got" => Named(f) /\ dir[f.de].ino = f.nr
  /\ f.at \in {"open_added", "link_added"} /\ f.de # 0 => Named(f) /\ dir[f.de].ino = 0
  /\ a = "link_count" => Named(f) /\ dir[f.de].ino = inode[s].num
  /\ a \in {"link_target", "link_added", "link_count"} /\ inode[s].num \in Public(calls) => LinksPublic(calls, p)
  /\ a \in Seeks => SeekInv(p)
  /\ a \in Seeks \cup {"open_done"} /\ f.op = "creat" => f.nr \notin Public(calls)

\* An inode that is being created has no entry, one link and no block.
NewInv(p) ==
  LET s == Created(proc[p]) IN
  s # 0 => /\ \A e \in Entries : dir[e].ino # inode[s].num
           /\ inode[s].nlinks = 1 /\ inode[s].zone = 0

\* file_write() works on the open file, and the block it has got or read, or that
\* truncate() frees, is the one of the inode.
FileInv(p) ==
  LET f == proc[p] a == CallAt(f) IN
  /\ file[p].slot = 0 => file[p].num = 0
  /\ f.at \in {"create_block", "getblk", "write_block", "bread", "copy"} => file[p].slot = f.ip /\ f.ip # 0
  /\ a = "write_block" => Caller(f).ip = file[p].slot
  /\ f.at = "getblk" => f.blk # 0 /\ inode[f.ip].zone = 0
  /\ (f.at = "write_block" /\ f.blk # 0) \/ f.at \in {"bread", "copy", "free_block"} => f.blk # 0 /\ f.blk = inode[f.ip].zone

\* Only public files are shared, and an inode is allocated while it is in use.
OwnInv ==
  /\ \A p, q \in Procs : \A n \in Numbers : p # q /\ RefersTo(p, n) /\ RefersTo(q, n) => n \in Public(calls)
  /\ \A p \in Procs : \A n \in Public(calls) :
      /\ RefersTo(p, n) => Reaches(calls, p)
      /\ NamesInode(p, n) => LinksPublic(calls, p)
  /\ \A n \in imap : InUse(n)

\* An inode counts its entries, but for one that is pending, and the disk never more
\* than there are.
LinkInv == \A n \in imap : BeingCreated(n) \/ Now(n).nlinks = Cardinality(LinksOf(n))
DiskInv == \A n \in Numbers : d_inode[n].nlinks <= DirSize

\* A block is marked while it is in one inode, or create_block() has got it for one.
NewBlock(z) == \E p \in Procs : proc[p].at = "getblk" /\ proc[p].blk = z
ZoneInv ==
  /\ \A n, k \in imap : n # k /\ Now(n).zone = Now(k).zone => Now(n).zone = 0
  /\ zmap \subseteq Zones
  /\ \A z \in Zones : z \in zmap <=> (\E n \in imap : Now(n).zone = z) \/ NewBlock(z)
  /\ \A z \in Zones : \A n \in imap : NewBlock(z) => Now(n).zone # z
  /\ \A p, q \in Procs : proc[p].at = "getblk" /\ proc[q].at = "getblk" /\ proc[p].blk = proc[q].blk => p = q

\* The kernel panics for one reason only.
PanicInv == panic \in {"", "No free inodes in mem"}

(* The stack and the frame of the system call *)

\* What is on a stack
Frames == [at : Labels, ip : SlotOr0]

\* No frames, counted
LEMMA NoFrames ==
  ASSUME NEW st \in Seq(Frames)
  PROVE  /\ st = <<>> <=> Len(st) = 0
         /\ st # <<>> => Tail(st) \in Seq(Frames) /\ Len(Tail(st)) = Len(st) - 1
         /\ st # <<>> => (Tail(st) = <<>> <=> Len(Tail(st)) = 0)
<1>1. ASSUME NEW t \in Seq(Frames) PROVE t = <<>> <=> Len(t) = 0
  OBVIOUS
<1>2. st # <<>> => Tail(st) \in Seq(Frames) /\ Len(Tail(st)) = Len(st) - 1
  OBVIOUS
<1> QED
  BY <1>1, <1>2

\* The frame of the system call is kept by a call.
LEMMA CallerCalls ==
  ASSUME NEW f \in Process, NEW label \in Labels, NEW s \in SlotOr0, NEW ret \in Labels
  PROVE  Caller(Calls(f, label, s, ret)) = IF f.stack = <<>> THEN Frame(ret, f.ip) ELSE Caller(f)
<1> DEFINE g == Calls(f, label, s, ret)
           x == Frame(ret, f.ip)
<1>1. f.stack \in Seq(Frames) /\ f.ip \in SlotOr0
  BY DEF Process, Frames
<1>2. x \in Frames
  BY <1>1 DEF Frame, Frames
<1>3. g.stack = <<x>> \o f.stack
  BY CallIs
<1> HIDE DEF g, x
<1>4. g.stack # <<>> /\ Len(g.stack) = Len(f.stack) + 1
      /\ g.stack[Len(g.stack)] = IF Len(f.stack) = 0 THEN x ELSE f.stack[Len(f.stack)]
  BY <1>1, <1>2, <1>3
<1>5. f.stack = <<>> <=> Len(f.stack) = 0
  BY <1>1
<1> QED
  BY <1>4, <1>5 DEF Caller, x, g

\* It is kept by a return, which takes it when it is the last.
LEMMA CallerReturns ==
  ASSUME NEW f \in Process, f.stack # <<>>
  PROVE  /\ Head(f.stack) \in Frames /\ Tail(f.stack) \in Seq(Frames)
         /\ \A g : g.at = Head(f.stack).at /\ g.stack = Tail(f.stack) =>
              /\ CallAt(g) = CallAt(f)
              /\ g.ip = Head(f.stack).ip \/ Tail(f.stack) # <<>> => Caller(g).ip = Caller(f).ip
<1>1. f.stack \in Seq(Frames)
  BY DEF Process, Frames
<1>2. /\ Head(f.stack) \in Frames /\ Tail(f.stack) \in Seq(Frames) /\ Head(f.stack) = f.stack[1]
      /\ Len(Tail(f.stack)) = Len(f.stack) - 1 /\ Len(f.stack) \in Nat /\ Len(f.stack) >= 1
  BY <1>1
<1>3. Tail(f.stack) = <<>> <=> Len(f.stack) = 1
  BY <1>2, NoFrames
<1>4. ASSUME NEW g, g.at = Head(f.stack).at, g.stack = Tail(f.stack)
      PROVE  /\ CallAt(g) = CallAt(f)
             /\ g.ip = Head(f.stack).ip \/ Tail(f.stack) # <<>> => Caller(g).ip = Caller(f).ip
  <2>1. Caller(f) = f.stack[Len(f.stack)]
    BY DEF Caller
  <2>2. CASE Tail(f.stack) = <<>>
    <3>1. Caller(f) = Head(f.stack)
      BY <1>2, <1>3, <2>1, <2>2
    <3>2. Caller(g) = Frame(g.at, g.ip)
      BY <1>4, <2>2 DEF Caller
    <3> QED
      BY <3>1, <3>2, <1>4, <2>2, FrameIs DEF CallAt
  <2>3. CASE Tail(f.stack) # <<>>
    <3>1. Caller(g) = Tail(f.stack)[Len(Tail(f.stack))]
      BY <1>4, <2>3 DEF Caller
    <3>2. Tail(f.stack)[Len(Tail(f.stack))] = f.stack[Len(f.stack)]
      BY <1>1, <1>2, <1>3, <2>3
    <3> QED
      BY <2>1, <3>1, <3>2 DEF CallAt
  <2> QED
    BY <2>2, <2>3
<1> QED
  BY <1>2, <1>4

\* The last call of a function
LEMMA CallerTail ==
  ASSUME NEW f \in Process, NEW label \in Labels, NEW arg \in SlotOr0, NEW s \in SlotOr0,
         NEW ret \in Labels, NEW t \in SlotOr0, f.stack = <<Frame(ret, t)>>
  PROVE  LET g == TailCalls(f, label, arg, s)
         IN  /\ Caller(g) = Frame(ret, s) /\ CallAt(f) = ret
<1> DEFINE g == TailCalls(f, label, arg, s)
<1>1. g.stack = <<Frame(ret, s)>>
  BY TailCallIs
<1> HIDE DEF g
<1>2. Caller(g) = Frame(ret, s) /\ Caller(f) = Frame(ret, t)
  BY <1>1 DEF Caller
<1> QED
  BY <1>2, FrameIs DEF CallAt, g

\* Who is called last returns to these.
LEMMA HeadsAre ==
  ASSUME NEW f \in Process, StackFits(f)
  PROVE  LET a == Head(f.stack).at IN
    /\ f.at \in Top \cup {"user"} => f.stack = <<>>
    /\ f.at \notin Top \cup {"user"} => f.stack # <<>>
    /\ f.at = "find_entry" => a \in {"open_found", "unlink_found", "link_found", "link_target"} /\ Tail(f.stack) = <<>>
    /\ f.at = "add_entry" => a \in {"open_added", "link_added"} /\ Tail(f.stack) = <<>>
    /\ f.at = "iput_dir" => /\ a \in {"open_inode", "link_inode", "open_new_done", "link_count", "link_drop"}
                            /\ Tail(f.stack) = <<>>
    /\ f.at \in {"get_empty_inode", "gei_wait"} =>
         a \in {"iget_search", "new_inode"} /\ CallAt(f) \in Got \cup {"open_new"} /\ Tail(f.stack) # <<>> /\ Caller(f).ip = 0
    /\ f.at \in Searches \cup {"read_inode", "read_bread"} => a \in Got /\ Tail(f.stack) = <<>>
    /\ f.at = "new_inode" => a = "open_new" /\ Tail(f.stack) = <<>> /\ Caller(f).ip = 0
    /\ f.at = "iput" => a \in Got \cup {"open_new", "user"} /\ Tail(f.stack) = <<>> /\ (a = "open_new" => Caller(f).ip = 0)
    /\ f.at \in {"iput_again", "free_inode", "sync_inodes"} => a = "user" /\ Tail(f.stack) = <<>>
    /\ f.at \in {"truncate", "free_block"} =>
         \/ a = "open_done" /\ Tail(f.stack) = <<>>
         \/ a = "free_inode" /\ CallAt(f) = "user" /\ Tail(f.stack) # <<>>
    /\ f.at \in {"write_inode", "write_bread"} => a \in {"user", "sync_inodes", "iput_again", "gei_wait"}
    /\ f.at \in {"write_inode", "write_bread"} /\ a # "gei_wait" => CallAt(f) = "user"
    /\ f.at \in {"create_block", "getblk"} => a = "write_block" /\ Tail(f.stack) = <<>>
    /\ f.stack # <<>> /\ Tail(f.stack) = <<>> => CallAt(f) = a
<1> DEFINE st == f.stack
<1>1. ASSUME NEW a \in Labels, NEW s, st = <<Frame(a, s)>>
      PROVE  /\ Head(st).at = a /\ Tail(st) = <<>> /\ st # <<>>
  BY <1>1, FrameIs, Stacking
<1>2. ASSUME NEW a \in Labels, NEW s, NEW b \in Labels, NEW t, st = <<Frame(a, s), Frame(b, t)>>
      PROVE  /\ Head(st).at = a /\ Tail(st) # <<>> /\ st # <<>> /\ CallAt(f) = b /\ Caller(f).ip = t
  <2>1. Tail(st) # <<>> /\ st # <<>> /\ Head(st) = Frame(a, s)
    BY <1>2, Stacking
  <2>2. Caller(f) = Frame(b, t)
    BY <1>2, <2>1 DEF Caller
  <2> QED
    BY <2>1, <2>2, FrameIs DEF CallAt
<1>3. ASSUME NEW a \in Labels, NEW s, NEW b, NEW c, st = <<Frame(a, s), b, c>>
      PROVE  Head(st).at = a /\ st # <<>>
  BY <1>3, FrameIs, Stacking
<1>4. st # <<>> /\ Tail(st) = <<>> => CallAt(f) = Head(st).at /\ Caller(f).ip = Head(st).ip
  <2> SUFFICES ASSUME st # <<>>, Tail(st) = <<>> PROVE CallAt(f) = Head(st).at /\ Caller(f).ip = Head(st).ip
    OBVIOUS
  <2>1. st \in Seq(Frames)
    BY DEF Process, Frames
  <2>2. Len(st) = 1
    <3>1. Len(Tail(st)) = 0 /\ Len(Tail(st)) = Len(st) - 1 /\ Len(st) \in Nat
      BY <2>1, NoFrames
    <3> QED
      BY <3>1
  <2>3. Caller(f) = Head(st)
    BY <2>1, <2>2 DEF Caller
  <2> QED
    BY <2>3 DEF CallAt
<1>5. Got \subseteq Labels /\ {"user", "iget_search", "new_inode", "open_new", "open_found", "unlink_found", "link_found",
        "link_target", "open_added", "link_added", "open_inode", "link_inode", "open_new_done", "link_count", "link_drop",
        "open_done", "free_inode", "sync_inodes", "iput_again", "gei_wait", "write_block"} \subseteq Labels
  BY DEF Got, Labels, Waits, Yields
<1> HIDE DEF st
<1>6. f.at \in Top \cup {"user"} => st = <<>>
  BY DEF StackFits, st
<1>7. f.at = "find_entry" => st # <<>> /\ Head(st).at \in {"open_found", "unlink_found", "link_found", "link_target"} /\ Tail(st) = <<>>
  BY <1>1, <1>5 DEF StackFits, FindStack, st
<1>8. f.at = "add_entry" => st # <<>> /\ Head(st).at \in {"open_added", "link_added"} /\ Tail(st) = <<>>
  BY <1>1, <1>5 DEF StackFits, AddStack, st
<1>9. f.at = "iput_dir" => st # <<>> /\ Head(st).at \in {"open_inode", "link_inode", "open_new_done", "link_count", "link_drop"} /\ Tail(st) = <<>>
  BY <1>1, <1>5 DEF StackFits, DirStack, st
<1>10. f.at \in {"get_empty_inode", "gei_wait"} =>
         st # <<>> /\ Head(st).at \in {"iget_search", "new_inode"} /\ CallAt(f) \in Got \cup {"open_new"} /\ Tail(st) # <<>> /\ Caller(f).ip = 0
  BY <1>2, <1>5 DEF StackFits, EmptyStack, st
<1>11. f.at \in Searches \cup {"read_inode", "read_bread"} => st # <<>> /\ Head(st).at \in Got /\ Tail(st) = <<>>
  BY <1>1, <1>5 DEF StackFits, GetStack, st
<1>12. f.at = "new_inode" => st # <<>> /\ Head(st).at = "open_new" /\ Tail(st) = <<>> /\ Caller(f).ip = 0
  <2> SUFFICES ASSUME f.at = "new_inode" PROVE st # <<>> /\ Head(st).at = "open_new" /\ Tail(st) = <<>> /\ Caller(f).ip = 0
    OBVIOUS
  <2>1. st = <<Frame("open_new", 0)>>
    BY DEF StackFits, st
  <2>2. Head(st).ip = 0
    BY <2>1, FrameIs, Stacking
  <2> QED
    BY <1>1, <1>4, <1>5, <2>1, <2>2
<1>13. f.at = "iput" => st # <<>> /\ Head(st).at \in Got \cup {"open_new", "user"} /\ Tail(st) = <<>>
  BY <1>1, <1>5 DEF StackFits, PutStack, UserStack, st
<1>14. f.at = "iput" /\ Head(st).at = "open_new" => Caller(f).ip = 0
  <2> SUFFICES ASSUME f.at = "iput", Head(st).at = "open_new" PROVE Caller(f).ip = 0
    OBVIOUS
  <2>1. st = <<Frame("open_new", 0)>>
    BY <1>1, <1>5 DEF StackFits, PutStack, UserStack, Got, st
  <2>2. Head(st).ip = 0
    BY <2>1, FrameIs, Stacking
  <2> QED
    BY <1>13, <1>4, <2>2
<1>15. f.at \in {"iput_again", "free_inode", "sync_inodes"} => st # <<>> /\ Head(st).at = "user" /\ Tail(st) = <<>>
  BY <1>1, <1>5 DEF StackFits, UserStack, st
<1>16. f.at \in {"truncate", "free_block"} =>
         /\ st # <<>>
         /\ \/ Head(st).at = "open_done" /\ Tail(st) = <<>>
            \/ Head(st).at = "free_inode" /\ CallAt(f) = "user" /\ Tail(st) # <<>>
  BY <1>1, <1>2, <1>5 DEF StackFits, TruncateStack, st
<1>17. f.at \in {"write_inode", "write_bread"} =>
         st # <<>> /\ Head(st).at \in {"user", "sync_inodes", "iput_again", "gei_wait"} /\ (Head(st).at # "gei_wait" => CallAt(f) = "user")
  <2> SUFFICES ASSUME f.at \in {"write_inode", "write_bread"}
               PROVE st # <<>> /\ Head(st).at \in {"user", "sync_inodes", "iput_again", "gei_wait"} /\ (Head(st).at # "gei_wait" => CallAt(f) = "user")
    OBVIOUS
  <2>1. CASE st = <<Frame("user", 0)>>
    BY <1>1, <1>4, <1>5, <2>1
  <2>2. CASE \E s \in Slots : st = <<Frame("sync_inodes", s), Frame("user", 0)>>
    BY <1>2, <1>5, <2>2
  <2>3. CASE \E s \in Slots, t \in SlotOr0 : st = <<Frame("iput_again", s), Frame("user", t)>>
    BY <1>2, <1>5, <2>3
  <2>4. CASE \E s \in Slots, a \in Got : st = <<Frame("gei_wait", s), Frame("iget_search", 0), Frame(a, 0)>>
    BY <1>3, <1>5, <2>4
  <2>5. CASE \E s \in Slots : st = <<Frame("gei_wait", s), Frame("new_inode", 0), Frame("open_new", 0)>>
    BY <1>3, <1>5, <2>5
  <2> QED
    BY <2>1, <2>2, <2>3, <2>4, <2>5 DEF StackFits, WriteStack, st
<1>18. f.at \in {"create_block", "getblk"} => st # <<>> /\ Head(st).at = "write_block" /\ Tail(st) = <<>>
  BY <1>1, <1>5 DEF StackFits, BlockStack, st
<1>19. f.at \in Top \cup {"user", "new_inode", "sync_inodes", "find_entry", "add_entry", "iput_dir",
         "get_empty_inode", "gei_wait", "iget_search", "iget_wait", "read_inode", "read_bread", "iput",
         "iput_again", "free_inode", "truncate", "free_block", "write_inode", "write_bread",
         "create_block", "getblk"}
  <2>1. f.at \in Labels
    BY DEF Process
  <2> QED
    BY <2>1 DEF Labels, Yields, Waits, Top
<1>20. f.at \notin Top \cup {"user"} => st # <<>>
  BY <1>7, <1>8, <1>9, <1>10, <1>11, <1>12, <1>13, <1>15, <1>16, <1>17, <1>18, <1>19 DEF Searches
<1> QED
  BY <1>4, <1>6, <1>7, <1>8, <1>9, <1>10, <1>11, <1>12, <1>13, <1>14, <1>15, <1>16, <1>17, <1>18, <1>20 DEF st

(* One process at a time *)

\* A step of p, in the kernel or into it
Step(p) == InKernel(p) \/ \E c \in calls[p] : Enter(p, c)

\* p runs, and the others stay where they are.
RunsAlone(p) ==
  /\ panic = "" /\ cpu \in {p, Nobody}
  /\ \A q \in Procs \ {p} : proc'[q] = proc[q]
  /\ cpu' \in {cpu, p, Nobody}

\* Who goes on or sleeps runs alone,
LEMMA GoesAlone ==
  ASSUME proc \in [Procs -> Process], NEW p \in Procs, NEW label, At(p, label), NEW f, Goto(p, f)
  PROVE  RunsAlone(p)
BY DEF At, Goto, RunsAlone

\* and so does who panics.
LEMMA PanicsAlone ==
  ASSUME proc \in [Procs -> Process], NEW p \in Procs, NEW label, At(p, label), NEW msg, Panic(p, msg)
  PROVE  RunsAlone(p)
BY DEF At, Panic, RunsAlone

\* The functions of fs/inode.c run for one process at a time.
LEMMA InodeStepAlone ==
  ASSUME proc \in [Procs -> Process], NEW p \in Procs, InodeStep(p)
  PROVE  RunsAlone(p)
<1>1. CASE get_empty_inode(p)
  BY <1>1, GoesAlone, PanicsAlone DEF get_empty_inode
<1>2. CASE get_empty_inode_loop(p)
  BY <1>2, GoesAlone DEF get_empty_inode_loop
<1>3. CASE iget_search(p)
  BY <1>3, GoesAlone DEF iget_search
<1>4. CASE iget_found(p)
  BY <1>4, GoesAlone DEF iget_found
<1>5. CASE read_inode(p) \/ read_inode_end(p)
  BY <1>5, GoesAlone DEF read_inode, read_inode_end
<1>6. CASE write_inode(p) \/ write_inode_end(p)
  BY <1>6, GoesAlone DEF write_inode, write_inode_end
<1>7. CASE iput(p)
  BY <1>7, GoesAlone, PanicsAlone DEF iput, iput_repeat
<1>8. CASE sync_inodes(p)
  BY <1>8, GoesAlone DEF sync_inodes
<1>9. CASE truncate(p)
  BY <1>9, GoesAlone DEF truncate
<1>10. CASE free_block(p)
  BY <1>10, GoesAlone, PanicsAlone DEF free_block
<1>11. CASE free_inode(p)
  BY <1>11, GoesAlone, PanicsAlone DEF free_inode
<1>12. CASE new_inode(p)
  BY <1>12, GoesAlone DEF new_inode
<1>13. CASE create_block(p)
  BY <1>13, GoesAlone DEF create_block
<1>14. CASE create_block_end(p)
  BY <1>14, GoesAlone DEF create_block_end
<1> QED
  BY <1>1, <1>2, <1>3, <1>4, <1>5, <1>6, <1>7, <1>8, <1>9, <1>10, <1>11, <1>12, <1>13, <1>14 DEF InodeStep

\* The workload and the files of others are left alone.
OthersFiles(p) == calls' = calls /\ \A q \in Procs \ {p} : file'[q] = file[q]

\* So does every step, and it touches nobody else's open file.
LEMMA KernelAlone ==
  ASSUME Typed, NEW p \in Procs, Step(p)
  PROVE  RunsAlone(p) /\ OthersFiles(p)
<1> USE DEF OthersFiles
<1>0. proc \in [Procs -> Process] /\ file \in [Procs -> [slot : SlotOr0, num : 0..NInodes]]
  BY DEF Typed
<1>1. CASE InodeStep(p) /\ UNCHANGED fileVars
  BY <1>0, <1>1, InodeStepAlone DEF fileVars
<1>2. CASE find_entry(p) \/ add_entry(p) \/ iput_dir(p)
  BY <1>0, <1>2, GoesAlone DEF find_entry, add_entry, iput_dir, fileVars
<1>3. CASE open_found(p)
  BY <1>0, <1>3, GoesAlone DEF open_found, fileVars, Return
<1>4. CASE open_inode(p)
  BY <1>0, <1>4, GoesAlone DEF open_inode, fileVars
<1>5. ASSUME NEW s, NEW n, NEW label, At(p, label), Opened(p, s, n) PROVE RunsAlone(p) /\ OthersFiles(p)
  BY <1>0, <1>5, GoesAlone DEF Opened
<1>6. CASE open_got(p)
  BY <1>0, <1>6, <1>5, GoesAlone DEF open_got, Continue, fileVars
<1>7. CASE open_new(p)
  BY <1>0, <1>7, GoesAlone DEF open_new, Continue, Return, fileVars
<1>8. CASE open_added(p)
  BY <1>0, <1>8, GoesAlone DEF open_added, fileVars
<1>9. CASE open_new_done(p)
  BY <1>0, <1>9, <1>5, GoesAlone DEF open_new_done, Continue, fileVars
<1>10. CASE unlink_found(p) \/ unlink_got(p)
  BY <1>0, <1>10, GoesAlone DEF unlink_found, unlink_got, Return, fileVars
<1>11. CASE link_found(p) \/ link_inode(p)
  BY <1>0, <1>11, GoesAlone DEF link_found, link_inode, Return, fileVars
<1>12. CASE link_old(p)
  BY <1>0, <1>12, GoesAlone DEF link_old, fileVars
<1>13. CASE link_target(p) \/ link_drop(p)
  BY <1>0, <1>13, GoesAlone DEF link_target, link_drop, Continue, fileVars
<1>14. CASE link_added(p)
  BY <1>0, <1>14, GoesAlone DEF link_added, Continue, fileVars
<1>15. CASE link_count(p)
  BY <1>0, <1>15, GoesAlone DEF link_count, fileVars
<1>16. CASE write_block(p) \/ write_end(p)
  BY <1>0, <1>16, GoesAlone DEF write_block, write_end, Return, fileVars
<1>17. CASE write_copy(p)
  BY <1>0, <1>17, GoesAlone DEF write_copy, fileVars
<1>18. ASSUME NEW c \in calls[p], Enter(p, c) PROVE RunsAlone(p) /\ OthersFiles(p)
  BY <1>0, <1>18, GoesAlone DEF Enter, fileVars
<1> QED
  BY <1>1, <1>2, <1>3, <1>4, <1>6, <1>7, <1>8, <1>9, <1>10, <1>11, <1>12, <1>13, <1>14, <1>15, <1>16, <1>17, <1>18
  DEF Step, InKernel

\* Who holds a slot counts.
LEMMA HoldsBits ==
  ASSUME Typed, NEW p \in Procs, NEW s \in Slots
  PROVE  Bits(p, s) \in Nat /\ (Holds(p, s) <=> Bits(p, s) >= 1)
<1>1. \A x : Bit(x, s) \in {0, 1} /\ (Bit(x, s) = 1 <=> x = s)
  BY DEF Bit
<1> QED
  BY <1>1 DEF Bits, Holds

\* What p holds follows from what is counted.
LEMMA BitsFollow ==
  ASSUME IInv, IInv', NEW p \in Procs, RunsAlone(p), OthersFiles(p), NEW s \in Slots
  PROVE  Bits(p, s)' - Bits(p, s) = inode'[s].count - inode[s].count
<1>1. /\ FileSlots[p] = file[p].slot /\ Owns[p] = Own(proc[p]) /\ Belows[p] = Below(proc[p])
      /\ (FileSlots[p] = file[p].slot)' /\ (Owns[p] = Own(proc[p]))' /\ (Belows[p] = Below(proc[p]))'
  BY DEF FileSlots, Owns, Belows
<1>2. OnlyOf(p, FileSlots, FileSlots') /\ OnlyOf(p, Owns, Owns') /\ OnlyOf(p, Belows, Belows')
  <2> SUFFICES ASSUME NEW q \in Procs \ {p}
               PROVE  FileSlots'[q] = FileSlots[q] /\ Owns'[q] = Owns[q] /\ Belows'[q] = Belows[q]
    BY DEF OnlyOf
  <2> QED
    BY DEF RunsAlone, OthersFiles, FileSlots, Owns, Belows, Own, Below
<1>3. /\ Users(FileSlots, s) \in Nat /\ Users(FileSlots', s) \in Nat
      /\ Users(FileSlots', s) - Bit(FileSlots'[p], s) = Users(FileSlots, s) - Bit(FileSlots[p], s)
  BY <1>2, UsersMove
<1>4. /\ Users(Owns, s) \in Nat /\ Users(Owns', s) \in Nat
      /\ Users(Owns', s) - Bit(Owns'[p], s) = Users(Owns, s) - Bit(Owns[p], s)
  BY <1>2, UsersMove
<1>5. /\ Users(Belows, s) \in Nat /\ Users(Belows', s) \in Nat
      /\ Users(Belows', s) - Bit(Belows'[p], s) = Users(Belows, s) - Bit(Belows[p], s)
  BY <1>2, UsersMove
<1>6. /\ inode[s].count = Users(FileSlots, s) + Users(Owns, s) + Users(Belows, s)
      /\ inode'[s].count = Users(FileSlots', s) + Users(Owns', s) + Users(Belows', s)
  BY DEF IInv, Counts, Users
<1>7. /\ Bit(FileSlots[p], s) \in {0, 1} /\ Bit(Owns[p], s) \in {0, 1} /\ Bit(Belows[p], s) \in {0, 1}
      /\ Bit(FileSlots'[p], s) \in {0, 1} /\ Bit(Owns'[p], s) \in {0, 1} /\ Bit(Belows'[p], s) \in {0, 1}
  BY DEF Bit
<1>8. /\ Bits(p, s) = Bit(FileSlots[p], s) + Bit(Owns[p], s) + Bit(Belows[p], s)
      /\ Bits(p, s)' = Bit(FileSlots'[p], s) + Bit(Owns'[p], s) + Bit(Belows'[p], s)
  BY <1>1 DEF Bits, Bit
<1> QED
  BY <1>3, <1>4, <1>5, <1>6, <1>7, <1>8

\* Others hold what they held.
LEMMA OthersHolds ==
  ASSUME NEW p \in Procs, RunsAlone(p), OthersFiles(p), NEW q \in Procs \ {p}, NEW s
  PROVE  Holds(q, s)' <=> Holds(q, s)
BY DEF RunsAlone, OthersFiles, Holds, Own, Below

\* p holds a slot afterwards if it did before, or if it counts one more.
LEMMA HoldsFollow ==
  ASSUME IInv, IInv', NEW p \in Procs, RunsAlone(p), OthersFiles(p), NEW s \in Slots
  PROVE  /\ inode'[s].count = inode[s].count => (Holds(p, s)' <=> Holds(p, s))
         /\ inode'[s].count > inode[s].count => Holds(p, s)'
         /\ inode'[s].count < inode[s].count => Holds(p, s)
<1>1. Bits(p, s)' - Bits(p, s) = inode'[s].count - inode[s].count
  BY BitsFollow
<1>2. Bits(p, s) \in Nat /\ (Holds(p, s) <=> Bits(p, s) >= 1)
  BY HoldsBits DEF IInv
<1>3. Bits(p, s)' \in Nat /\ (Holds(p, s)' <=> Bits(p, s)' >= 1)
  <2>1. Typed'
    BY DEF IInv
  <2>2. \A x : Bit(x, s) \in {0, 1} /\ (Bit(x, s) = 1 <=> x = s)
    BY DEF Bit
  <2> QED
    BY <2>2 DEF Bits, Holds, Bit
<1>4. inode[s].count \in Nat /\ inode'[s].count \in Nat
  BY DEF IInv, Typed, Inode
<1> QED
  BY <1>1, <1>2, <1>3, <1>4

\* Two processes hold what counts two.
LEMMA HoldersCount ==
  ASSUME IInv, NEW p \in Procs, NEW s \in Slots, Holds(p, s)
  PROVE  /\ inode[s].count >= 1 /\ inode[s].count \in Nat
         /\ \A q \in Procs : q # p /\ Holds(q, s) => inode[s].count >= 2
<1>1. Typed /\ Counts
  BY DEF IInv
<1>2. Bits(p, s) \in Nat /\ Bits(p, s) >= 1
  BY <1>1, HoldsBits
<1>3. inode[s].count \in Nat /\ inode[s].count >= Bits(p, s)
  BY <1>1, HolderCounts
<1>4. ASSUME NEW q \in Procs, q # p, Holds(q, s) PROVE inode[s].count >= 2
  <2>1. Bits(q, s) \in Nat /\ Bits(q, s) >= 1
    BY <1>1, <1>4, HoldsBits
  <2>2. inode[s].count >= Bits(p, s) + Bits(q, s)
    BY <1>1, <1>4, TwoHolders
  <2> QED
    BY <1>2, <1>3, <2>1, <2>2
<1> QED
  BY <1>2, <1>3, <1>4

\* A step on the way of a system call: it stays the same call.
KeepsCall(f, g) ==
  g.at # "user" => /\ CallAt(g) = CallAt(f)
                   /\ g.op = f.op /\ g.name = f.name /\ g.nr = f.nr /\ g.de = f.de

(* What a step of p may do to the inode in slot s *)
Clears(p, s) ==
  /\ proc[p].at = "gei_wait" /\ s = proc[p].ip /\ inode[s].count = 0
  /\ inode'[s] = [ZeroInode EXCEPT !.count = 1]
GivesNumber(p, s) ==
  /\ proc[p].at = "iget_search" /\ s = proc[p].empty /\ \A t \in Slots : inode[t].num # proc[p].nr
  /\ inode'[s] = [inode[s] EXCEPT !.num = proc[p].nr]
  /\ proc'[p].at = "read_inode" /\ proc'[p].ip = s
Takes(p, s) ==
  /\ proc[p].at = "iget_wait" /\ s = proc[p].ip /\ inode[s].num = proc[p].nr /\ ~inode[s].lock
  /\ inode'[s] = [inode[s] EXCEPT !.count = @ + 1]
LocksToRead(p, s) ==
  /\ proc[p].at = "read_inode" /\ s = proc[p].ip /\ ~inode[s].lock
  /\ inode'[s] = [inode[s] EXCEPT !.lock = TRUE]
  /\ proc'[p].at = "read_bread" /\ proc'[p].ip = s
Loads(p, s) ==
  /\ proc[p].at = "read_bread" /\ s = proc[p].ip
  /\ inode'[s] = [inode[s] EXCEPT !.lock = FALSE, !.nlinks = d_inode[inode[s].num].nlinks,
                                  !.zone = d_inode[inode[s].num].zone]
LocksToWrite(p, s) ==
  /\ proc[p].at = "write_inode" /\ s = proc[p].ip /\ ~inode[s].lock /\ inode[s].dirt /\ inode[s].num # 0
  /\ inode'[s] = [inode[s] EXCEPT !.lock = TRUE]
  /\ proc'[p].at = "write_bread" /\ proc'[p].ip = s
Writes(p, s) ==
  /\ proc[p].at = "write_bread" /\ s = proc[p].ip
  /\ inode'[s] = [inode[s] EXCEPT !.lock = FALSE, !.dirt = FALSE]
LetsGo(p, s) ==
  /\ proc[p].at \in {"iput", "iput_again"} /\ s = proc[p].ip /\ ~inode[s].lock /\ inode[s].count >= 1
  /\ inode[s].count > 1 \/ inode[s].num = 0 \/ (inode[s].nlinks # 0 /\ ~inode[s].dirt)
  /\ inode'[s] = [inode[s] EXCEPT !.count = @ - 1]
Discards(p, s) == proc[p].at = "free_inode" /\ s = proc[p].ip /\ inode'[s] = ZeroInode
Allocates(p, s) ==
  /\ proc[p].at = "new_inode" /\ s = proc[p].ip
  /\ \E n \in Numbers \ imap :
       inode'[s] = [inode[s] EXCEPT !.count = 1, !.nlinks = 1, !.dirt = TRUE, !.num = n]

\* Labels at which a process changes the inode it holds
EditLabels == {"truncate", "free_block", "getblk", "open_added", "unlink_got", "link_old", "link_count", "bread"}
Edits(p, s) ==
  LET a == proc[p].at i == inode[s] j == inode'[s] IN
  /\ a \in EditLabels /\ s = proc[p].ip /\ Holds(p, s)
  /\ j.num = i.num /\ j.count = i.count /\ j.lock = i.lock
  /\ i.dirt => j.dirt
  /\ a \notin {"open_added", "unlink_got", "link_count"} => j.nlinks = i.nlinks
  /\ a \notin {"free_block", "getblk"} => j.zone = i.zone
  /\ a \notin {"open_added", "bread"} => j.dirt
  /\ a = "open_added" => j.nlinks = 0 /\ j.dirt = i.dirt
  /\ a = "unlink_got" => j.nlinks = (IF i.nlinks = 0 THEN 0 ELSE i.nlinks - 1)
  /\ a = "link_count" => j.nlinks = i.nlinks + 1
  /\ a = "free_block" => j.zone = 0
  /\ a = "getblk" => j.zone = proc[p].blk

\* Every slot changes in one of these ways, or not at all.
Change(p, s) ==
  \/ inode'[s] = inode[s]
  \/ Clears(p, s) \/ GivesNumber(p, s) \/ Takes(p, s) \/ LocksToRead(p, s) \/ Loads(p, s)
  \/ LocksToWrite(p, s) \/ Writes(p, s) \/ LetsGo(p, s) \/ Discards(p, s) \/ Allocates(p, s)
  \/ Edits(p, s)

\* Labels that a process comes to with something to show for it
Enters(p) ==
  LET f == proc[p] g == proc'[p] i == inode[g.ip] IN
  /\ g.at = "gei_wait" => inode' = inode /\ i.count = 0 /\ (i.lock \/ cpu' = p)
  /\ g.at = "read_inode" => GivesNumber(p, g.ip) /\ (inode'[g.ip].lock \/ cpu' = p)
  /\ g.at = "read_bread" => LocksToRead(p, g.ip)
  /\ g.at = "write_bread" => LocksToWrite(p, g.ip) /\ g.stack = f.stack
  /\ g.at = "write_inode" =>
       /\ inode' = inode
       /\ \/ f.at \in {"iput", "iput_again"} /\ Head(g.stack).ip = g.ip /\ HeadAt(g, "iput_again") /\ g.ip = f.ip
          \/ f.at = "sync_inodes" /\ Head(g.stack).at \in {"sync_inodes", "user"}
  /\ g.at = "truncate" =>
       /\ inode' = inode /\ Head(g.stack).ip = g.ip /\ g.ip = f.ip
       /\ \/ f.at \in {"iput", "iput_again"} /\ HeadAt(g, "free_inode") /\ i.nlinks = 0 /\ i.count <= 1 /\ ~i.lock
          \/ f.at = "open_got" /\ HeadAt(g, "open_done")
  /\ g.at = "free_block" =>
       /\ inode' = inode /\ f.at = "truncate" /\ g.ip = f.ip /\ g.stack = f.stack
       /\ g.blk = i.zone /\ i.zone # 0
  /\ g.at = "free_inode" =>
       /\ f.at \in {"truncate", "free_block"} /\ HeadAt(f, "free_inode") /\ g.ip = Head(f.stack).ip
       /\ Edits(p, f.ip) /\ inode'[f.ip].zone = 0

\* What a step of p may do to the table and to itself
Sheet(p) ==
  /\ \A s \in Slots : Change(p, s)
  /\ proc[p].at # "write_bread" => d_inode' = d_inode
  /\ proc'[p] = proc[p] \/ Enters(p)

\* Where a step leads, and what held where it came from
LEMMA WentTo ==
  ASSUME IInv, NEW p \in Procs, NEW label, At(p, label), NEW h, Goto(p, h)
  PROVE  /\ proc'[p] = Stays(h) /\ proc'[p].at = h.at
         /\ h.at # "user" => proc'[p] = h
         /\ panic = "" /\ panic' = ""
         /\ h.at \in Yields \/ Blocked(h, inode') \/ cpu' = p
         /\ proc[p] \in Process /\ Shape(proc[p]) /\ StackFits(proc[p]) /\ Holding(proc[p]) /\ proc[p].at = label
         /\ label \in Waits => ~inode[proc[p].ip].lock
<1>1. proc \in [Procs -> Process] /\ Shape(proc[p])
  BY DEF IInv, Typed
<1>2. Holding(proc[p])
  BY DEF IInv, Held
<1>3. proc' = [proc EXCEPT ![p] = Stays(h)]
  BY DEF Goto, Stays
<1>4. Stays(h).at = h.at
  BY DEF Stays, AtUser
<1> QED
  BY <1>1, <1>2, <1>3, <1>4 DEF Goto, At, Blocked, Shape, Stays

\* The call is kept when nothing is called or returned,
LEMMA SameStack ==
  ASSUME NEW f \in Process, f.stack # <<>>, NEW g, g.stack = f.stack, g.op = f.op, g.name = f.name, g.nr = f.nr, g.de = f.de
  PROVE  KeepsCall(f, g)
BY DEF KeepsCall, CallAt, Caller

\* and by a call, and by a return.
LEMMA CallKeepsCall ==
  ASSUME NEW f \in Process, f.stack # <<>>, NEW label \in Labels, NEW s \in SlotOr0, NEW ret \in Labels
  PROVE  LET g == Calls(f, label, s, ret) IN
         /\ KeepsCall(f, g) /\ g.stack # <<>> /\ Head(g.stack) = Frame(ret, f.ip) /\ g.at = label /\ g.ip = s
<1> DEFINE g == Calls(f, label, s, ret)
           x == Frame(ret, f.ip)
<1>1. Caller(g) = Caller(f)
  BY CallerCalls
<1>2. /\ g.op = f.op /\ g.name = f.name /\ g.nr = f.nr /\ g.de = f.de /\ g.at = label /\ g.ip = s
      /\ g.stack = <<x>> \o f.stack
  BY CallIs
<1>3. x \in Frames /\ f.stack \in Seq(Frames)
  BY DEF Frame, Frames, Process
<1> HIDE DEF x, g
<1>4. g.stack # <<>> /\ Head(g.stack) = x
  BY <1>2, <1>3
<1> QED
  BY <1>1, <1>2, <1>4 DEF KeepsCall, CallAt, x, g

\* A return comes to the label that the frame names, in the same call,
LEMMA ReturnKeepsCall ==
  ASSUME NEW f \in Process, f.stack # <<>>, NEW s
  PROVE  LET a == Head(f.stack).at IN
         /\ KeepsCall(f, Returns(f)) /\ KeepsCall(f, ReturnsInode(f, s))
         /\ Returns(f).at = a /\ Returns(f).ip = Head(f.stack).ip /\ Returns(f).stack = Tail(f.stack)
         /\ ReturnsInode(f, s).at = a /\ ReturnsInode(f, s).ip = s /\ ReturnsInode(f, s).stack = Tail(f.stack)
<1>1. \A g : g.at = Head(f.stack).at /\ g.stack = Tail(f.stack) => CallAt(g) = CallAt(f)
  BY CallerReturns
<1>2. LET g == Returns(f) IN
         /\ g.at = Head(f.stack).at /\ g.ip = Head(f.stack).ip /\ g.stack = Tail(f.stack)
         /\ g.op = f.op /\ g.name = f.name /\ g.nr = f.nr /\ g.de = f.de
  BY DEF Returns, Process
<1>3. LET g == ReturnsInode(f, s) IN
         /\ g.at = Head(f.stack).at /\ g.ip = s /\ g.stack = Tail(f.stack)
         /\ g.op = f.op /\ g.name = f.name /\ g.nr = f.nr /\ g.de = f.de
  BY DEF Returns, ReturnsInode, Process
<1> QED
  BY <1>1, <1>2, <1>3 DEF KeepsCall

\* and so does a call that returns for its caller.
LEMMA TailKeepsCall ==
  ASSUME NEW f \in Process, f.stack # <<>>, Tail(f.stack) = <<>>, NEW label \in Labels, NEW arg \in SlotOr0, NEW s \in SlotOr0
  PROVE  LET g == TailCalls(f, label, arg, s) IN
         KeepsCall(f, g) /\ g.at = label /\ g.ip = arg /\ g.stack # <<>> /\ Head(g.stack).at = Head(f.stack).at /\ Caller(g).ip = s
<1>1. f.stack \in Seq(Frames) /\ Head(f.stack) \in Frames
  BY CallerReturns DEF Process, Frames
<1> DEFINE a == Head(f.stack).at
           t == Head(f.stack).ip
<1>2. a \in Labels /\ t \in SlotOr0 /\ Head(f.stack) = Frame(a, t)
  BY <1>1 DEF Frames, Frame
<1>3. f.stack = <<Head(f.stack)>>
  <2>1. Len(f.stack) = 1
    BY <1>1, NoFrames
  <2> QED
    BY <1>1, <2>1
<1>4. f.stack = <<Frame(a, t)>>
  BY <1>2, <1>3
<1> DEFINE g == TailCalls(f, label, arg, s)
<1> HIDE DEF a, t
<1>5. /\ g.at = label /\ g.ip = arg /\ g.stack = <<Frame(a, s)>>
      /\ g.op = f.op /\ g.name = f.name /\ g.nr = f.nr /\ g.de = f.de
  BY <1>2, <1>4, TailCallIs
<1>6. Caller(g) = Frame(a, s) /\ CallAt(f) = a
  BY <1>2, <1>4, CallerTail
<1> HIDE DEF g
<1> QED
  BY <1>5, <1>6, FrameIs, Stacking DEF KeepsCall, CallAt, g, a

(* Each step on the sheet: fs/inode.c, fs/bitmap.c, fs/truncate.c *)

\* get_empty_inode() changes no inode before it waits,
LEMMA SheetGetEmptyInode ==
  ASSUME IInv, NEW p \in Procs, get_empty_inode(p)
  PROVE  KeepsCall(proc[p], proc'[p]) /\ Sheet(p)
<1> DEFINE unused == {i \in Slots : Unused(i)}
           ready == {i \in Slots : Ready(i)}
           n == IF ready # {} THEN Min(ready) ELSE Max(unused)
           h == [proc[p] EXCEPT !.at = "gei_wait", !.ip = Nth(n)]
<1>1. At(p, "get_empty_inode")
  BY DEF get_empty_inode
<1>2. CASE unused = {}
  <2>1. proc' = proc /\ inode' = inode /\ d_inode' = d_inode
    BY <1>2 DEF get_empty_inode, Panic, inodeVars
  <2> QED
    BY <2>1 DEF Sheet, Change, KeepsCall
<1>3. CASE unused # {}
  <2>1. inode' = inode /\ d_inode' = d_inode /\ Goto(p, h)
    BY <1>3 DEF get_empty_inode
  <2>2. n \in unused
    <3>1. ready \subseteq unused
      BY DEF Ready
    <3>2. CASE ready # {}
      BY <3>1, <3>2, SlotsSet
    <3>3. CASE ready = {}
      BY <1>3, <3>3, SlotsSet
    <3> QED
      BY <3>2, <3>3
  <2>3. inode[Nth(n)].count = 0
    BY <2>2 DEF Unused
  <2> HIDE DEF n
  <2>4. proc[p] \in Process /\ Shape(proc[p]) /\ StackFits(proc[p]) /\ proc[p].at = "get_empty_inode"
    BY <1>1, <2>1, WentTo
  <2>5. h.at = "gei_wait" /\ h.ip = Nth(n) /\ h.stack = proc[p].stack /\ h.op = proc[p].op /\ h.name = proc[p].name
        /\ h.nr = proc[p].nr /\ h.de = proc[p].de
    BY <2>4 DEF Process
  <2> HIDE DEF h
  <2>6. proc'[p] = h /\ (h.at \in Yields \/ Blocked(h, inode') \/ cpu' = p)
    BY <1>1, <2>1, <2>5, WentTo
  <2>7. KeepsCall(proc[p], h)
    BY <2>4, <2>5, SameStack, HeadsAre DEF Top
  <2>8. Enters(p)
    BY <2>1, <2>3, <2>5, <2>6 DEF Enters, Yields, Blocked
  <2> QED
    BY <2>1, <2>6, <2>7, <2>8 DEF Sheet, Change
<1> QED
  BY <1>2, <1>3

\* and then clears the slot that it takes.
LEMMA SheetGetEmptyInodeLoop ==
  ASSUME IInv, NEW p \in Procs, ProcInv(p), SlotInv(proc[p].ip), get_empty_inode_loop(p)
  PROVE  KeepsCall(proc[p], proc'[p]) /\ Sheet(p) /\ Clears(p, proc[p].ip)
         /\ inode' = [inode EXCEPT ![proc[p].ip] = [ZeroInode EXCEPT !.count = 1]]
         /\ proc'[p].at = Head(proc[p].stack).at
<1> DEFINE f == proc[p]
           s == f.ip
           h == [ReturnsInode(f, s) EXCEPT !.empty = s]
<1>1. At(p, "gei_wait")
  BY DEF get_empty_inode_loop
<1>2. f.at = "gei_wait" /\ inode[s].count = 0 /\ ~inode[s].dirt
  BY <1>1 DEF ProcInv, SlotInv, At
<1>3. inode' = [inode EXCEPT ![s] = [ZeroInode EXCEPT !.count = 1]] /\ Goto(p, h) /\ d_inode' = d_inode
  BY <1>2 DEF get_empty_inode_loop
<1>4. f \in Process /\ Shape(f) /\ StackFits(f)
  BY <1>1, <1>3, WentTo
<1>5. f.stack # <<>> /\ Head(f.stack).at \in {"iget_search", "new_inode"} /\ s \in Slots /\ inode \in [Slots -> Inode]
  BY <1>2, <1>4, HeadsAre DEF Top, Shape, HasSlot, IInv, Typed
<1>6. /\ h.at = Head(f.stack).at /\ h.stack = Tail(f.stack)
      /\ h.op = f.op /\ h.name = f.name /\ h.nr = f.nr /\ h.de = f.de
  BY <1>4 DEF ReturnsInode, Returns, Process
<1>7. KeepsCall(f, h)
  BY <1>4, <1>5, <1>6, CallerReturns DEF KeepsCall
<1> HIDE DEF h
<1>8. proc'[p] = h /\ h.at \in {"iget_search", "new_inode"}
  BY <1>1, <1>3, <1>5, <1>6, WentTo
<1>9. Enters(p)
  BY <1>8 DEF Enters
<1>10. Clears(p, s) /\ \A t \in Slots \ {s} : inode'[t] = inode[t]
  BY <1>2, <1>3, <1>5 DEF Clears
<1> QED
  BY <1>3, <1>6, <1>7, <1>8, <1>9, <1>10 DEF Sheet, Change

\* iget() gives its empty inode a number, or waits for the one it found,
LEMMA SheetIgetSearch ==
  ASSUME IInv, NEW p \in Procs, iget_search(p)
  PROVE  KeepsCall(proc[p], proc'[p]) /\ Sheet(p)
<1> DEFINE f == proc[p]
           found == {s \in Slots : inode[s].num = f.nr}
           h == [f EXCEPT !.at = "iget_wait", !.ip = Min(found)]
           k == [f EXCEPT !.at = "read_inode", !.ip = f.empty]
<1>1. At(p, "iget_search") /\ d_inode' = d_inode
  BY DEF iget_search
<1>2. CASE found # {}
  <2>1. inode' = inode /\ Goto(p, h)
    BY <1>2 DEF iget_search
  <2>2. f \in Process /\ StackFits(f) /\ f.at = "iget_search"
    BY <1>1, <2>1, WentTo
  <2>3. h.at = "iget_wait" /\ h.stack = f.stack /\ h.op = f.op /\ h.name = f.name /\ h.nr = f.nr /\ h.de = f.de
    BY <2>2 DEF Process
  <2> HIDE DEF h
  <2>4. proc'[p] = h
    BY <1>1, <2>1, <2>3, WentTo
  <2>5. KeepsCall(f, h)
    BY <2>2, <2>3, SameStack, HeadsAre DEF Top
  <2>6. Enters(p)
    BY <2>3, <2>4 DEF Enters
  <2> QED
    BY <1>1, <2>1, <2>4, <2>5, <2>6 DEF Sheet, Change
<1>3. CASE found = {}
  <2>1. inode' = [inode EXCEPT ![f.empty].num = f.nr] /\ Goto(p, k)
    BY <1>3 DEF iget_search
  <2>2. f \in Process /\ StackFits(f) /\ Shape(f) /\ f.at = "iget_search"
    BY <1>1, <2>1, WentTo
  <2>3. k.at = "read_inode" /\ k.ip = f.empty /\ k.stack = f.stack /\ k.op = f.op /\ k.name = f.name /\ k.nr = f.nr /\ k.de = f.de
    BY <2>2 DEF Process
  <2> HIDE DEF k
  <2>4. proc'[p] = k /\ (k.at \in Yields \/ Blocked(k, inode') \/ cpu' = p)
    BY <1>1, <2>1, <2>3, WentTo
  <2>5. KeepsCall(f, k)
    BY <2>2, <2>3, SameStack, HeadsAre DEF Top
  <2>6. f.empty \in Slots /\ inode \in [Slots -> Inode]
    BY <2>2 DEF Shape, Searches, IInv, Typed
  <2>7. inode'[f.empty] = [inode[f.empty] EXCEPT !.num = f.nr] /\ \A t \in Slots \ {f.empty} : inode'[t] = inode[t]
    BY <2>1, <2>6
  <2>8. \A t \in Slots : inode[t].num # f.nr
    BY <1>3
  <2>9. GivesNumber(p, f.empty)
    BY <2>2, <2>3, <2>4, <2>7, <2>8 DEF GivesNumber
  <2>10. Enters(p)
    BY <2>3, <2>4, <2>9 DEF Enters, Yields, Blocked
  <2> QED
    BY <1>1, <2>4, <2>5, <2>7, <2>9, <2>10 DEF Sheet, Change
<1> QED
  BY <1>2, <1>3

\* which it takes when it still is the one.
LEMMA SheetIgetFound ==
  ASSUME IInv, NEW p \in Procs, iget_found(p)
  PROVE  KeepsCall(proc[p], proc'[p]) /\ Sheet(p)
<1> DEFINE f == proc[p]
           s == f.ip
           h == [f EXCEPT !.at = "iget_search"]
           k == TailCalls(f, "iput", f.empty, s)
<1>1. At(p, "iget_wait") /\ d_inode' = d_inode
  BY DEF iget_found
<1>2. CASE inode[s].num # f.nr
  <2>1. inode' = inode /\ Goto(p, h)
    BY <1>2 DEF iget_found
  <2>2. f \in Process /\ StackFits(f) /\ f.at = "iget_wait"
    BY <1>1, <2>1, WentTo
  <2>3. h.at = "iget_search" /\ h.stack = f.stack /\ h.op = f.op /\ h.name = f.name /\ h.nr = f.nr /\ h.de = f.de
    BY <2>2 DEF Process
  <2> HIDE DEF h
  <2>4. proc'[p] = h
    BY <1>1, <2>1, <2>3, WentTo
  <2>5. KeepsCall(f, h)
    BY <2>2, <2>3, SameStack, HeadsAre DEF Top
  <2>6. Enters(p)
    BY <2>3, <2>4 DEF Enters
  <2> QED
    BY <1>1, <2>1, <2>4, <2>5, <2>6 DEF Sheet, Change
<1>3. CASE inode[s].num = f.nr
  <2>1. inode' = [inode EXCEPT ![s].count = @ + 1] /\ Goto(p, k)
    BY <1>3 DEF iget_found
  <2>2. f \in Process /\ StackFits(f) /\ Shape(f) /\ f.at = "iget_wait" /\ ~inode[s].lock
    BY <1>1, <2>1, WentTo DEF Waits
  <2>3. f.empty \in Slots /\ s \in Slots /\ inode \in [Slots -> Inode] /\ f.empty \in SlotOr0 /\ s \in SlotOr0
    BY <2>2, SlotsAre DEF Shape, Searches, HasSlot, IInv, Typed
  <2>4. f.stack # <<>> /\ Tail(f.stack) = <<>>
    BY <2>2, HeadsAre DEF Top, Searches
  <2>5. "iput" \in Labels
    BY DEF Labels, Waits
  <2>6. KeepsCall(f, k) /\ k.at = "iput"
    BY <2>2, <2>3, <2>4, <2>5, TailKeepsCall
  <2> HIDE DEF k
  <2>7. proc'[p] = k
    BY <1>1, <2>1, <2>6, WentTo
  <2>8. inode'[s] = [inode[s] EXCEPT !.count = @ + 1] /\ \A t \in Slots \ {s} : inode'[t] = inode[t]
    BY <2>1, <2>3
  <2>9. Takes(p, s)
    BY <1>3, <2>2, <2>8 DEF Takes
  <2>10. Enters(p)
    BY <2>6, <2>7 DEF Enters
  <2> QED
    BY <1>1, <2>6, <2>7, <2>8, <2>9, <2>10 DEF Sheet, Change
<1> QED
  BY <1>2, <1>3

\* read_inode() locks the inode,
LEMMA SheetReadInode ==
  ASSUME IInv, NEW p \in Procs, read_inode(p)
  PROVE  KeepsCall(proc[p], proc'[p]) /\ Sheet(p)
<1> DEFINE f == proc[p]
           s == f.ip
           h == [f EXCEPT !.at = "read_bread"]
<1>1. At(p, "read_inode") /\ d_inode' = d_inode /\ inode' = [inode EXCEPT ![s].lock = TRUE] /\ Goto(p, h)
  BY DEF read_inode
<1>2. f \in Process /\ StackFits(f) /\ Shape(f) /\ f.at = "read_inode" /\ ~inode[s].lock
  BY <1>1, WentTo DEF Waits
<1>3. h.at = "read_bread" /\ h.ip = s /\ h.stack = f.stack /\ h.op = f.op /\ h.name = f.name /\ h.nr = f.nr /\ h.de = f.de
  BY <1>2 DEF Process
<1> HIDE DEF h
<1>4. proc'[p] = h
  BY <1>1, <1>3, WentTo
<1>5. KeepsCall(f, h)
  BY <1>2, <1>3, SameStack, HeadsAre DEF Top
<1>6. s \in Slots /\ inode \in [Slots -> Inode]
  BY <1>2 DEF Shape, HasSlot, Counted, IInv, Typed
<1>7. inode'[s] = [inode[s] EXCEPT !.lock = TRUE] /\ \A t \in Slots \ {s} : inode'[t] = inode[t]
  BY <1>1, <1>6
<1>8. LocksToRead(p, s)
  BY <1>2, <1>3, <1>4, <1>7 DEF LocksToRead
<1>9. Enters(p)
  BY <1>3, <1>4, <1>8 DEF Enters
<1> QED
  BY <1>1, <1>4, <1>5, <1>7, <1>8, <1>9 DEF Sheet, Change

\* and fills it in from the disk.
LEMMA SheetReadInodeEnd ==
  ASSUME IInv, NEW p \in Procs, read_inode_end(p)
  PROVE  KeepsCall(proc[p], proc'[p]) /\ Sheet(p)
<1> DEFINE f == proc[p]
           s == f.ip
           h == ReturnsInode(f, s)
<1>1. /\ At(p, "read_bread") /\ d_inode' = d_inode /\ Goto(p, h)
      /\ inode' = [inode EXCEPT ![s].lock = FALSE, ![s].nlinks = d_inode[inode[s].num].nlinks,
                                ![s].zone = d_inode[inode[s].num].zone]
  BY DEF read_inode_end
<1>2. f \in Process /\ StackFits(f) /\ Shape(f) /\ f.at = "read_bread"
  BY <1>1, WentTo
<1>3. f.stack # <<>> /\ Head(f.stack).at \in Got
  BY <1>2, HeadsAre DEF Top
<1>4. KeepsCall(f, h) /\ h.at \in Got
  BY <1>2, <1>3, ReturnKeepsCall
<1> HIDE DEF h
<1>5. proc'[p] = h
  BY <1>1, <1>4, WentTo DEF Got
<1>6. s \in Slots /\ inode \in [Slots -> Inode]
  BY <1>2 DEF Shape, HasSlot, Counted, IInv, Typed
<1>7. /\ inode'[s] = [inode[s] EXCEPT !.lock = FALSE, !.nlinks = d_inode[inode[s].num].nlinks,
                                      !.zone = d_inode[inode[s].num].zone]
      /\ \A t \in Slots \ {s} : inode'[t] = inode[t]
  BY <1>1, <1>6
<1>8. Loads(p, s)
  BY <1>2, <1>7 DEF Loads
<1>9. Enters(p)
  BY <1>4, <1>5 DEF Enters, Got
<1> QED
  BY <1>1, <1>4, <1>5, <1>7, <1>8, <1>9 DEF Sheet, Change

\* write_inode() locks an inode that is dirty,
LEMMA SheetWriteInode ==
  ASSUME IInv, NEW p \in Procs, ProcInv(p), write_inode(p)
  PROVE  KeepsCall(proc[p], proc'[p]) /\ Sheet(p)
<1> DEFINE f == proc[p]
           s == f.ip
           h == [f EXCEPT !.at = "write_bread"]
           k == Returns(f)
<1>1. At(p, "write_inode") /\ d_inode' = d_inode
  BY DEF write_inode
<1>2. (Goto(p, k) \/ Goto(p, h))
  BY DEF write_inode
<1>3. f \in Process /\ StackFits(f) /\ Shape(f) /\ f.at = "write_inode" /\ ~inode[s].lock
  BY <1>1, <1>2, WentTo DEF Waits
<1>4. f.stack # <<>> /\ Head(f.stack).at \in {"user", "sync_inodes", "iput_again"}
  <2>1. f.stack # <<>> /\ Head(f.stack).at \in {"user", "sync_inodes", "iput_again", "gei_wait"}
    BY <1>3, HeadsAre DEF Top
  <2> QED
    BY <2>1 DEF ProcInv, HeadAt
<1>5. CASE ~inode[s].dirt \/ inode[s].num = 0
  <2>1. inode' = inode /\ Goto(p, k)
    BY <1>5 DEF write_inode
  <2>2. KeepsCall(f, k) /\ k.at \in {"user", "sync_inodes", "iput_again"}
    BY <1>3, <1>4, ReturnKeepsCall
  <2> HIDE DEF k
  <2>3. proc'[p] = Stays(k) /\ proc'[p].at = k.at /\ (k.at # "user" => proc'[p] = k)
    BY <1>1, <2>1, WentTo
  <2>4. Enters(p)
    BY <2>2, <2>3 DEF Enters
  <2>5. KeepsCall(f, proc'[p])
    BY <2>2, <2>3 DEF KeepsCall
  <2> QED
    BY <1>1, <2>1, <2>4, <2>5 DEF Sheet, Change
<1>6. CASE ~(~inode[s].dirt \/ inode[s].num = 0)
  <2>1. inode' = [inode EXCEPT ![s].lock = TRUE] /\ Goto(p, h)
    BY <1>6 DEF write_inode
  <2>2. h.at = "write_bread" /\ h.ip = s /\ h.stack = f.stack /\ h.op = f.op /\ h.name = f.name /\ h.nr = f.nr /\ h.de = f.de
    BY <1>3 DEF Process
  <2> HIDE DEF h
  <2>3. proc'[p] = h
    BY <1>1, <2>1, <2>2, WentTo
  <2>4. KeepsCall(f, h)
    BY <1>3, <1>4, <2>2, SameStack
  <2>5. s \in Slots /\ inode \in [Slots -> Inode]
    BY <1>3 DEF Shape, HasSlot, Counted, IInv, Typed
  <2>6. inode'[s] = [inode[s] EXCEPT !.lock = TRUE] /\ \A t \in Slots \ {s} : inode'[t] = inode[t]
    BY <2>1, <2>5
  <2>7. LocksToWrite(p, s)
    BY <1>3, <1>6, <2>2, <2>3, <2>6 DEF LocksToWrite
  <2>8. Enters(p)
    BY <2>2, <2>3, <2>7 DEF Enters
  <2> QED
    BY <1>1, <2>3, <2>4, <2>6, <2>7, <2>8 DEF Sheet, Change
<1> QED
  BY <1>5, <1>6

\* and unlocks it clean, once it is on the disk.
LEMMA SheetWriteInodeEnd ==
  ASSUME IInv, NEW p \in Procs, ProcInv(p), write_inode_end(p)
  PROVE  KeepsCall(proc[p], proc'[p]) /\ Sheet(p)
<1> DEFINE f == proc[p]
           s == f.ip
           k == Returns(f)
<1>1. At(p, "write_bread") /\ Goto(p, k) /\ inode' = [inode EXCEPT ![s].lock = FALSE, ![s].dirt = FALSE]
  BY DEF write_inode_end
<1>3. f \in Process /\ StackFits(f) /\ Shape(f) /\ f.at = "write_bread"
  BY <1>1, WentTo
<1>4. f.stack # <<>> /\ Head(f.stack).at \in {"user", "sync_inodes", "iput_again"}
  <2>1. f.stack # <<>> /\ Head(f.stack).at \in {"user", "sync_inodes", "iput_again", "gei_wait"}
    BY <1>3, HeadsAre DEF Top
  <2> QED
    BY <2>1 DEF ProcInv, HeadAt
<1>5. KeepsCall(f, k) /\ k.at \in {"user", "sync_inodes", "iput_again"}
  BY <1>3, <1>4, ReturnKeepsCall
<1> HIDE DEF k
<1>6. proc'[p] = Stays(k) /\ proc'[p].at = k.at /\ (k.at # "user" => proc'[p] = k)
  BY <1>1, WentTo
<1>7. Enters(p)
  BY <1>5, <1>6 DEF Enters
<1>8. s \in Slots /\ inode \in [Slots -> Inode]
  BY <1>3 DEF Shape, HasSlot, Counted, IInv, Typed
<1>9. inode'[s] = [inode[s] EXCEPT !.lock = FALSE, !.dirt = FALSE] /\ \A t \in Slots \ {s} : inode'[t] = inode[t]
  BY <1>1, <1>8
<1>10. Writes(p, s)
  BY <1>3, <1>9 DEF Writes
<1>11. KeepsCall(f, proc'[p])
  BY <1>5, <1>6 DEF KeepsCall
<1> QED
  BY <1>3, <1>7, <1>9, <1>10, <1>11 DEF Sheet, Change

\* iput() lets the inode go, or first truncates it or writes it.
LEMMA SheetIput ==
  ASSUME IInv, NEW p \in Procs, iput(p)
  PROVE  KeepsCall(proc[p], proc'[p]) /\ Sheet(p)
<1> DEFINE f == proc[p]
           s == f.ip
           k == Returns(f)
           t == Calls(f, "truncate", s, "free_inode")
           w == Calls(f, "write_inode", s, "iput_again")
<1>1. PICK label \in {"iput", "iput_again"} : At(p, label)
  BY DEF iput
<1>2. f \in Process /\ Shape(f) /\ f.at = label /\ ~inode[s].lock /\ StackFits(f)
  <2>1. proc \in [Procs -> Process] /\ Shape(f)
    BY DEF IInv, Typed
  <2> QED
    BY <1>1, <2>1 DEF At, Blocked, Waits, Shape
<1>3. f.stack # <<>> /\ Head(f.stack).at \in Got \cup {"open_new", "user"} /\ Tail(f.stack) = <<>> /\ s \in SlotOr0
  BY <1>2, HeadsAre DEF Top, Process
<1>4. /\ KeepsCall(f, k) /\ k.at \in Got \cup {"open_new", "user"}
  BY <1>2, <1>3, ReturnKeepsCall
<1>5. {"truncate", "free_inode", "write_inode", "iput_again"} \subseteq Labels
  BY DEF Labels, Waits
<1>6. /\ KeepsCall(f, t) /\ HeadAt(t, "free_inode") /\ t.at = "truncate" /\ t.ip = s /\ Head(t.stack).ip = s
      /\ KeepsCall(f, w) /\ HeadAt(w, "iput_again") /\ w.at = "write_inode" /\ w.ip = s /\ Head(w.stack).ip = s
  BY <1>2, <1>3, <1>5, CallKeepsCall, FrameIs DEF HeadAt
<1> HIDE DEF k, t, w
<1>7. s \in Slots /\ inode \in [Slots -> Inode] /\ inode[s] \in Inode /\ inode[s].count \in Nat
  BY <1>2 DEF Shape, HasSlot, Counted, IInv, Typed, Inode
<1>8. CASE proc' = proc /\ inode' = inode /\ d_inode' = d_inode
  BY <1>8 DEF Sheet, Change, KeepsCall
<1>9. CASE /\ inode' = [inode EXCEPT ![s].count = @ - 1] /\ d_inode' = d_inode /\ Goto(p, k) /\ inode[s].count >= 1
           /\ inode[s].count > 1 \/ inode[s].num = 0 \/ (inode[s].nlinks # 0 /\ ~inode[s].dirt)
  <2>1. inode'[s] = [inode[s] EXCEPT !.count = @ - 1] /\ \A x \in Slots \ {s} : inode'[x] = inode[x]
    BY <1>7, <1>9
  <2>2. LetsGo(p, s)
    BY <1>2, <1>9, <2>1 DEF LetsGo
  <2>3. proc'[p].at = k.at /\ (k.at # "user" => proc'[p] = k)
    BY <1>1, <1>9, WentTo
  <2>4. Enters(p)
    BY <1>4, <2>3 DEF Enters, Got
  <2>5. KeepsCall(f, proc'[p])
    BY <1>4, <2>3 DEF KeepsCall
  <2> QED
    BY <1>9, <2>1, <2>2, <2>4, <2>5 DEF Sheet, Change
<1>10. CASE inode' = inode /\ d_inode' = d_inode /\ Goto(p, t) /\ inode[s].count <= 1 /\ inode[s].nlinks = 0
  <2>1. proc'[p] = t
    BY <1>1, <1>6, <1>10, WentTo
  <2>2. Enters(p)
    BY <1>2, <1>6, <1>10, <2>1 DEF Enters
  <2> QED
    BY <1>6, <1>10, <2>1, <2>2 DEF Sheet, Change
<1>11. CASE inode' = inode /\ d_inode' = d_inode /\ Goto(p, w)
  <2>1. proc'[p] = w
    BY <1>1, <1>6, <1>11, WentTo
  <2>2. Enters(p)
    BY <1>2, <1>6, <1>11, <2>1 DEF Enters
  <2> QED
    BY <1>6, <1>11, <2>1, <2>2 DEF Sheet, Change
<1>12. inode[s].count >= 1
  <2>1. Typed /\ Counts /\ Own(f) = s
    BY <1>2 DEF IInv, Own, Counted
  <2>2. Holds(p, s)
    BY <2>1 DEF Holds
  <2> QED
    BY <1>7, <2>2, HoldersCount
<1>13. CASE f.at = "iput" /\ inode[s].count = 0
  BY <1>7, <1>12, <1>13
<1>14. CASE f.at = "iput" /\ inode[s].count # 0 /\ inode[s].num = 0
  BY <1>9, <1>12, <1>14 DEF iput, k
<1>15. CASE iput_repeat(p)
  BY <1>7, <1>9, <1>10, <1>11, <1>12, <1>15 DEF iput_repeat, k, t, w
<1> QED
  BY <1>13, <1>14, <1>15 DEF iput

\* sync_inodes() calls write_inode() for a dirty slot.
LEMMA SheetSyncInodes ==
  ASSUME IInv, NEW p \in Procs, sync_inodes(p)
  PROVE  KeepsCall(proc[p], proc'[p]) /\ Sheet(p)
<1> DEFINE f == proc[p]
           s == f.ip
           n == NextSlot(p)
           h == Calls(n, "write_inode", s, n.at)
<1>1. At(p, "sync_inodes") /\ inode' = inode /\ d_inode' = d_inode /\ (Goto(p, n) \/ Goto(p, h))
  BY DEF sync_inodes, inodeVars
<1>2. f \in Process /\ Shape(f) /\ f.at = "sync_inodes" /\ StackFits(f)
  BY <1>1, WentTo
<1>3. /\ f.stack # <<>> /\ Head(f.stack).at = "user" /\ Tail(f.stack) = <<>> /\ CallAt(f) = "user"
      /\ f.stack = <<Frame("user", 0)>>
  BY <1>2, HeadsAre DEF Top, StackFits
<1>4. n \in Process /\ n.at \in {"sync_inodes", "user"} /\ KeepsCall(f, n) /\ (n.stack = <<>> <=> n.at = "user")
      /\ n.op = f.op /\ n.name = f.name /\ n.nr = f.nr /\ n.de = f.de
  <2>1. CASE f.ip < NR_INODE
    <3>1. n = [f EXCEPT !.ip = f.ip + 1]
      BY <2>1 DEF NextSlot
    <3>2. f.ip + 1 \in SlotOr0
      BY <1>2, <2>1, InodesAssumption DEF Process, SlotOr0
    <3>3. n \in Process /\ n.at = f.at /\ n.stack = f.stack /\ n.op = f.op /\ n.name = f.name /\ n.nr = f.nr /\ n.de = f.de
      BY <1>2, <3>1, <3>2 DEF Process
    <3> QED
      BY <1>2, <1>3, <3>3, SameStack
  <2>2. CASE ~(f.ip < NR_INODE)
    <3>1. n = Returns(f)
      BY <2>2 DEF NextSlot
    <3>2. "user" \in Labels /\ 0 \in SlotOr0
      BY SlotsAre DEF Labels, Yields
    <3>3. Returned(Returns(f), f, "user", 0, <<>>)
      BY <1>2, <1>3, <3>2, ReturnFrom
    <3> QED
      BY <3>1, <3>3, <1>3 DEF Returned, KeepsCall
  <2> QED
    BY <2>1, <2>2
<1> HIDE DEF n
<1>5. CASE Goto(p, n)
  <2>1. proc'[p].at = n.at /\ (n.at # "user" => proc'[p] = n)
    BY <1>1, <1>5, WentTo
  <2>2. Enters(p)
    BY <1>4, <2>1 DEF Enters
  <2>3. KeepsCall(f, proc'[p])
    BY <1>4, <2>1 DEF KeepsCall
  <2> QED
    BY <1>1, <2>2, <2>3 DEF Sheet, Change
<1>6. CASE Goto(p, h)
  <2>1. "write_inode" \in Labels /\ n.at \in Labels /\ s \in SlotOr0 /\ n.ip \in SlotOr0
    BY <1>2, <1>4 DEF Labels, Waits, Process
  <2>2. Caller(h) = IF n.stack = <<>> THEN Frame(n.at, n.ip) ELSE Caller(n)
    BY <1>4, <2>1, CallerCalls
  <2>3. h.at = "write_inode" /\ h.ip = s /\ h.stack = <<Frame(n.at, n.ip)>> \o n.stack
        /\ h.op = n.op /\ h.name = n.name /\ h.nr = n.nr /\ h.de = n.de
    BY <1>4, <2>1, CallIs
  <2>4. h.stack # <<>> /\ Head(h.stack) = Frame(n.at, n.ip)
    <3> DEFINE x == Frame(n.at, n.ip)
    <3>1. x \in Frames /\ n.stack \in Seq(Frames)
      BY <1>4, <2>1 DEF Frame, Frames, Process
    <3> HIDE DEF x
    <3>2. <<x>> \o n.stack # <<>> /\ Head(<<x>> \o n.stack) = x
      BY <3>1
    <3> QED
      BY <2>3, <3>2 DEF x
  <2> HIDE DEF h
  <2>5. CallAt(h) = "user"
    BY <1>3, <1>4, <2>2, FrameIs DEF CallAt, KeepsCall
  <2>6. proc'[p] = h
    BY <1>1, <1>6, <2>3, WentTo
  <2>7. Enters(p)
    BY <1>1, <1>2, <1>4, <2>3, <2>4, <2>6, FrameIs DEF Enters
  <2>8. KeepsCall(f, h)
    BY <1>3, <1>4, <2>3, <2>5 DEF KeepsCall
  <2> QED
    BY <1>1, <2>6, <2>7, <2>8 DEF Sheet, Change
<1> QED
  BY <1>1, <1>5, <1>6

\* truncate() frees a block, or returns,
LEMMA SheetTruncate ==
  ASSUME IInv, NEW p \in Procs, ProcInv(p), truncate(p)
  PROVE  KeepsCall(proc[p], proc'[p]) /\ Sheet(p) /\ proc'[p].at \in {"free_block", "free_inode", "open_done"}
<1> DEFINE f == proc[p]
           s == f.ip
           h == [f EXCEPT !.at = "free_block", !.blk = inode[s].zone]
           k == Returns(f)
<1>1. At(p, "truncate") /\ d_inode' = d_inode /\ (Goto(p, h) \/ Goto(p, k))
  BY DEF truncate
<1>2. f \in Process /\ Shape(f) /\ f.at = "truncate" /\ StackFits(f)
  BY <1>1, WentTo
<1>3. f.stack # <<>> /\ Head(f.stack).at \in {"open_done", "free_inode"} /\ Head(f.stack).ip = s
  BY <1>2, HeadsAre DEF Top, ProcInv
<1>4. s \in Slots /\ inode \in [Slots -> Inode] /\ inode[s] \in Inode
  BY <1>2 DEF Shape, HasSlot, Counted, IInv, Typed
<1>5. CASE inode[s].zone # 0
  <2>1. inode' = inode /\ Goto(p, h)
    BY <1>5 DEF truncate
  <2>2. h.at = "free_block" /\ h.ip = s /\ h.stack = f.stack /\ h.op = f.op /\ h.name = f.name /\ h.nr = f.nr /\ h.de = f.de
        /\ h.blk = inode[s].zone
    BY <1>2 DEF Process
  <2> HIDE DEF h
  <2>3. proc'[p] = h
    BY <1>1, <2>1, <2>2, WentTo
  <2>4. KeepsCall(f, h)
    BY <1>2, <1>3, <2>2, SameStack
  <2>5. Enters(p)
    BY <1>2, <1>5, <2>1, <2>2, <2>3 DEF Enters
  <2> QED
    BY <1>1, <2>1, <2>2, <2>3, <2>4, <2>5 DEF Sheet, Change
<1>6. CASE inode[s].zone = 0
  <2>1. inode' = [inode EXCEPT ![s].dirt = TRUE] /\ Goto(p, k)
    BY <1>6 DEF truncate
  <2>2. KeepsCall(f, k) /\ k.at = Head(f.stack).at /\ k.ip = s
    BY <1>2, <1>3, ReturnKeepsCall
  <2> HIDE DEF k
  <2>3. proc'[p] = k
    BY <1>1, <1>3, <2>1, <2>2, WentTo
  <2>4. inode'[s] = [inode[s] EXCEPT !.dirt = TRUE] /\ \A t \in Slots \ {s} : inode'[t] = inode[t]
    BY <1>4, <2>1
  <2>5. Below(f) = s
    BY <1>3 DEF Below, Counted
  <2>6. Edits(p, s)
    BY <1>2, <1>4, <2>4, <2>5 DEF Edits, EditLabels, Holds, Inode
  <2>7. Enters(p)
    BY <1>2, <1>3, <1>4, <1>6, <2>2, <2>3, <2>4, <2>6 DEF Enters, HeadAt, Inode
  <2> QED
    BY <1>1, <1>3, <2>2, <2>3, <2>4, <2>6, <2>7 DEF Sheet, Change
<1> QED
  BY <1>5, <1>6

\* and leaves the inode without it.
LEMMA SheetFreeBlock ==
  ASSUME IInv, NEW p \in Procs, ProcInv(p), free_block(p)
  PROVE  KeepsCall(proc[p], proc'[p]) /\ Sheet(p)
<1> DEFINE f == proc[p]
           s == f.ip
           k == [Returns(f) EXCEPT !.blk = 0]
<1>1. At(p, "free_block") /\ d_inode' = d_inode
  BY DEF free_block
<1>2. CASE proc' = proc /\ inode' = inode
  BY <1>1, <1>2 DEF Sheet, Change, KeepsCall
<1>3. CASE inode' = [inode EXCEPT ![s].zone = 0, ![s].dirt = TRUE] /\ Goto(p, k)
  <2>1. f \in Process /\ Shape(f) /\ f.at = "free_block" /\ StackFits(f)
    BY <1>1, <1>3, WentTo
  <2>2. f.stack # <<>> /\ Head(f.stack).at \in {"open_done", "free_inode"} /\ Head(f.stack).ip = s
    BY <2>1, HeadsAre DEF Top, ProcInv
  <2>3. s \in Slots /\ inode \in [Slots -> Inode] /\ inode[s] \in Inode
    BY <2>1 DEF Shape, HasSlot, Counted, IInv, Typed
  <2>4. /\ k.at = Head(f.stack).at /\ k.ip = s /\ k.stack = Tail(f.stack)
        /\ k.op = f.op /\ k.name = f.name /\ k.nr = f.nr /\ k.de = f.de
    BY <2>1, <2>2 DEF Returns, Process
  <2>5. KeepsCall(f, k)
    BY <2>1, <2>2, <2>4, CallerReturns DEF KeepsCall
  <2> HIDE DEF k
  <2>6. proc'[p] = k
    BY <1>1, <1>3, <2>2, <2>4, WentTo
  <2>7. inode'[s] = [inode[s] EXCEPT !.zone = 0, !.dirt = TRUE] /\ \A t \in Slots \ {s} : inode'[t] = inode[t]
    BY <1>3, <2>3
  <2>8. Below(f) = s
    BY <2>2 DEF Below, Counted
  <2>9. Edits(p, s)
    BY <2>1, <2>3, <2>7, <2>8 DEF Edits, EditLabels, Holds, Inode
  <2>10. Enters(p)
    BY <2>1, <2>2, <2>3, <2>4, <2>6, <2>7, <2>9 DEF Enters, HeadAt, Inode
  <2> QED
    BY <1>1, <2>5, <2>6, <2>7, <2>9, <2>10 DEF Sheet, Change
<1> QED
  BY <1>2, <1>3 DEF free_block, Panic

\* free_inode() clears the slot.
LEMMA SheetFreeInode ==
  ASSUME IInv, NEW p \in Procs, free_inode(p)
  PROVE  KeepsCall(proc[p], proc'[p]) /\ Sheet(p)
<1> DEFINE f == proc[p]
           s == f.ip
           k == Returns(f)
<1>1. At(p, "free_inode") /\ d_inode' = d_inode
  BY DEF free_inode
<1>2. CASE proc' = proc /\ inode' = inode
  BY <1>1, <1>2 DEF Sheet, Change, KeepsCall
<1>3. CASE inode' = [inode EXCEPT ![s] = ZeroInode] /\ Goto(p, k)
  <2>1. f \in Process /\ Shape(f) /\ f.at = "free_inode" /\ StackFits(f)
    BY <1>1, <1>3, WentTo
  <2>2. f.stack # <<>> /\ Head(f.stack).at = "user"
    BY <2>1, HeadsAre DEF Top
  <2>3. s \in Slots /\ inode \in [Slots -> Inode]
    BY <2>1 DEF Shape, HasSlot, Counted, IInv, Typed
  <2>4. KeepsCall(f, k) /\ k.at = "user"
    BY <2>1, <2>2, ReturnKeepsCall
  <2> HIDE DEF k
  <2>5. proc'[p].at = "user"
    BY <1>1, <1>3, <2>4, WentTo
  <2>6. inode'[s] = ZeroInode /\ \A t \in Slots \ {s} : inode'[t] = inode[t]
    BY <1>3, <2>3
  <2>7. Discards(p, s)
    BY <2>1, <2>6 DEF Discards
  <2> QED
    BY <1>1, <2>5, <2>6, <2>7 DEF Sheet, Change, Enters, KeepsCall
<1> QED
  BY <1>2, <1>3 DEF free_inode, Panic

\* new_inode() gives its empty inode a number that is free in the map.
LEMMA SheetNewInode ==
  ASSUME IInv, NEW p \in Procs, new_inode(p)
  PROVE  KeepsCall(proc[p], proc'[p]) /\ Sheet(p)
<1> DEFINE f == proc[p]
           s == f.ip
           h == TailCalls(f, "iput", s, 0)
           k == ReturnsInode(f, s)
           free == Numbers \ imap
<1>1. At(p, "new_inode") /\ d_inode' = d_inode /\ (Goto(p, h) \/ Goto(p, k))
  BY DEF new_inode
<1>2. f \in Process /\ Shape(f) /\ f.at = "new_inode" /\ StackFits(f)
  BY <1>1, WentTo
<1>3. f.stack # <<>> /\ Tail(f.stack) = <<>> /\ Head(f.stack).at = "open_new"
  BY <1>2, HeadsAre DEF Top
<1>4. s \in Slots /\ inode \in [Slots -> Inode] /\ s \in SlotOr0 /\ 0 \in SlotOr0 /\ "iput" \in Labels
  BY <1>2, SlotsAre DEF Shape, HasSlot, Counted, IInv, Typed, Labels, Waits
<1>5. KeepsCall(f, h) /\ h.at = "iput"
  BY <1>2, <1>3, <1>4, TailKeepsCall
<1>6. KeepsCall(f, k) /\ k.at = "open_new"
  BY <1>2, <1>3, ReturnKeepsCall
<1> HIDE DEF h, k
<1>7. CASE free = {}
  <2>1. inode' = inode /\ Goto(p, h)
    BY <1>7 DEF new_inode, h
  <2>2. proc'[p] = h
    BY <1>1, <1>5, <2>1, WentTo
  <2> QED
    BY <1>1, <1>5, <2>1, <2>2 DEF Sheet, Change, Enters
<1>8. CASE free # {}
  <2>1. /\ inode' = [inode EXCEPT ![s].count = 1, ![s].nlinks = 1, ![s].dirt = TRUE, ![s].num = Min(free)]
        /\ Goto(p, k)
    BY <1>8 DEF new_inode, k
  <2>2. proc'[p] = k
    BY <1>1, <1>6, <2>1, WentTo
  <2>3. Min(free) \in free
    <3>1. free \in SUBSET Nat /\ IsFiniteSet(free)
      <4>1. IsFiniteSet(Numbers) /\ Numbers \subseteq Nat
        BY FS_Interval, InodesAssumption DEF Numbers
      <4> QED
        BY <4>1, FS_Subset
    <3> QED
      BY <1>8, <3>1, MinIn
  <2> DEFINE n == Min(free)
  <2> HIDE DEF n
  <2>4. /\ inode'[s] = [inode[s] EXCEPT !.count = 1, !.nlinks = 1, !.dirt = TRUE, !.num = n]
        /\ \A t \in Slots \ {s} : inode'[t] = inode[t]
    BY <1>4, <2>1 DEF n
  <2>5. Allocates(p, s)
    BY <1>2, <2>3, <2>4 DEF Allocates, n
  <2> QED
    BY <1>1, <1>6, <2>2, <2>4, <2>5 DEF Sheet, Change, Enters
<1> QED
  BY <1>7, <1>8

\* create_block() gets a zone for an inode that has none,
LEMMA SheetCreateBlock ==
  ASSUME IInv, NEW p \in Procs, create_block(p)
  PROVE  KeepsCall(proc[p], proc'[p]) /\ Sheet(p)
<1> DEFINE f == proc[p]
           s == f.ip
           free == Zones \ zmap
           h == [Returns(f) EXCEPT !.blk = inode[f.ip].zone]
           k == [f EXCEPT !.at = "getblk", !.blk = Min(free)]
<1>1. At(p, "create_block") /\ d_inode' = d_inode /\ inode' = inode /\ (Goto(p, h) \/ Goto(p, k))
  BY DEF create_block
<1>2. f \in Process /\ Shape(f) /\ f.at = "create_block" /\ StackFits(f)
  BY <1>1, WentTo
<1>3. f.stack # <<>> /\ Tail(f.stack) = <<>> /\ Head(f.stack).at = "write_block"
  BY <1>2, HeadsAre DEF Top
<1>4. /\ h.at = "write_block" /\ h.stack = Tail(f.stack)
      /\ h.op = f.op /\ h.name = f.name /\ h.nr = f.nr /\ h.de = f.de
  BY <1>2, <1>3 DEF Returns, Process
<1>5. k.at = "getblk" /\ k.stack = f.stack /\ k.op = f.op /\ k.name = f.name /\ k.nr = f.nr /\ k.de = f.de
  BY <1>2 DEF Process
<1>6. KeepsCall(f, h)
  BY <1>2, <1>3, <1>4, CallerReturns DEF KeepsCall
<1>7. KeepsCall(f, k)
  BY <1>2, <1>3, <1>5, SameStack
<1> HIDE DEF h, k
<1>8. proc'[p] \in {h, k}
  BY <1>1, <1>4, <1>5, WentTo
<1> QED
  BY <1>1, <1>4, <1>5, <1>6, <1>7, <1>8 DEF Sheet, Change, Enters

\* and notes it in the inode.
LEMMA SheetCreateBlockEnd ==
  ASSUME IInv, NEW p \in Procs, FileInv(p), create_block_end(p)
  PROVE  KeepsCall(proc[p], proc'[p]) /\ Sheet(p)
<1> DEFINE f == proc[p]
           s == f.ip
           h == Returns(f)
<1>1. At(p, "getblk") /\ d_inode' = d_inode /\ inode' = [inode EXCEPT ![s].zone = f.blk, ![s].dirt = TRUE] /\ Goto(p, h)
  BY DEF create_block_end
<1>2. f \in Process /\ Shape(f) /\ f.at = "getblk" /\ StackFits(f)
  BY <1>1, WentTo
<1>3. f.stack # <<>> /\ Tail(f.stack) = <<>> /\ Head(f.stack).at = "write_block"
  BY <1>2, HeadsAre DEF Top
<1>4. KeepsCall(f, h) /\ h.at = "write_block"
  BY <1>2, <1>3, ReturnKeepsCall
<1> HIDE DEF h
<1>5. proc'[p] = h
  BY <1>1, <1>4, WentTo
<1>6. s \in Slots /\ inode \in [Slots -> Inode] /\ inode[s] \in Inode
  BY <1>2 DEF Shape, HasSlot, Counted, IInv, Typed
<1>7. inode'[s] = [inode[s] EXCEPT !.zone = f.blk, !.dirt = TRUE] /\ \A t \in Slots \ {s} : inode'[t] = inode[t]
  BY <1>1, <1>6
<1>8. Edits(p, s)
  <2>1. Holds(p, s)
    BY <1>2 DEF FileInv, Holds
  <2> QED
    BY <1>2, <1>6, <1>7, <2>1 DEF Edits, EditLabels, Inode
<1> QED
  BY <1>1, <1>4, <1>5, <1>7, <1>8 DEF Sheet, Change, Enters

(* Each step on the sheet: fs/namei.c, fs/open.c, fs/file_dev.c *)

\* Labels that Enters says something of
Shown == {"gei_wait", "read_inode", "read_bread", "write_inode", "write_bread", "truncate", "free_block", "free_inode"}

\* A step that changes no inode, and goes where nothing has to be shown
LEMMA PlainSheet ==
  ASSUME IInv, NEW p \in Procs, NEW label, At(p, label), NEW h, Goto(p, h), h.at \notin Shown,
         inode' = inode, d_inode' = d_inode
  PROVE  Sheet(p)
<1>1. proc'[p].at = h.at
  BY WentTo
<1> QED
  BY <1>1 DEF Sheet, Change, Enters, Shown

\* A call, from a system call
LEMMA CallLabel ==
  ASSUME NEW h, NEW label, NEW s, NEW ret, h \in Process
  PROVE  Calls(h, label, s, ret).at = label
BY DEF Calls, Process

\* iget() begins with get_empty_inode().
LEMMA IgetLabel ==
  ASSUME NEW h \in Process, NEW n, NEW ret
  PROVE  Iget(h, n, ret).at = "get_empty_inode"
BY DEF Iget, Process

\* What is known of a process before its step
LEMMA HereIs ==
  ASSUME IInv, NEW p \in Procs
  PROVE  /\ proc[p] \in Process /\ Shape(proc[p]) /\ StackFits(proc[p]) /\ AtUser.at = "user"
         /\ inode \in [Slots -> Inode]
         /\ proc[p].at \in HasSlot => proc[p].ip \in Slots
BY Here DEF Shape, AtUser, IInv, Typed

\* The steps of sys_open(), sys_creat() and sys_mknod() that change no inode,
LEMMA SheetOpen ==
  ASSUME IInv, NEW p \in Procs, open_found(p) \/ open_inode(p) \/ open_got(p) \/ open_new(p) \/ open_new_done(p)
  PROVE  Sheet(p)
<1>0. proc[p] \in Process /\ AtUser.at = "user" /\ StackFits(proc[p])
  BY HereIs
<1>a. \A s : Calls(proc[p], "iput_dir", s, "open_inode").at = "iput_dir"
  BY <1>0, CallLabel
<1>1. CASE open_found(p)
  <2> DEFINE h1 == [proc[p] EXCEPT !.at = "get_empty_inode", !.stack = <<Frame("new_inode", 0), Frame("open_new", 0)>>]
             h0 == [proc[p] EXCEPT !.nr = dir[proc[p].de].ino]
             h2 == Calls(h0, "iput_dir", 0, "open_inode")
  <2>1. h1.at = "get_empty_inode"
    BY <1>0 DEF Process
  <2>2. h2.at = "iput_dir"
    BY <1>0 DEF Process, Calls
  <2>3. At(p, "open_found") /\ inode' = inode /\ d_inode' = d_inode /\ (Goto(p, h1) \/ Goto(p, h2) \/ Goto(p, AtUser))
    BY <1>1 DEF open_found, inodeVars, Return
  <2> HIDE DEF h1, h2
  <2> QED
    BY <1>0, <2>1, <2>2, <2>3, PlainSheet DEF Shown
<1>2. CASE open_inode(p)
  <2>1. At(p, "open_inode") /\ inode' = inode /\ d_inode' = d_inode /\ Goto(p, Iget(proc[p], proc[p].nr, "open_got"))
    BY <1>2 DEF open_inode, inodeVars
  <2> QED
    BY <1>0, <2>1, IgetLabel, PlainSheet DEF Shown
<1>3. CASE open_got(p)
  <2> DEFINE t == Calls(proc[p], "truncate", proc[p].ip, "open_done")
  <2>1. CASE At(p, "open_got") /\ Continue(p, "truncate", proc[p].ip, "open_done")
    <3>1. inode' = inode /\ d_inode' = d_inode /\ Goto(p, t)
      BY <2>1 DEF Continue, inodeVars
    <3>2. t.at = "truncate" /\ t.ip = proc[p].ip /\ HeadAt(t, "open_done") /\ Head(t.stack).ip = t.ip
      <4>1. proc[p].at = "open_got" /\ proc[p].stack = <<>>
        BY <1>0, <2>1, HeadsAre DEF At, Top
      <4>2. t.stack = <<Frame("open_done", proc[p].ip)>> \o <<>> /\ t.at = "truncate" /\ t.ip = proc[p].ip
        BY <1>0, <4>1 DEF Calls, Process
      <4>3. t.stack = <<Frame("open_done", proc[p].ip)>>
        BY <4>2, Pushing
      <4> HIDE DEF t
      <4> QED
        BY <4>2, <4>3, Stacking, FrameIs DEF HeadAt
    <3> HIDE DEF t
    <3>3. proc'[p] = t /\ proc[p].at = "open_got"
      BY <2>1, <3>1, <3>2, WentTo
    <3> QED
      BY <3>1, <3>2, <3>3 DEF Sheet, Change, Enters
  <2>2. CASE (At(p, "open_got") \/ At(p, "open_done")) /\ Opened(p, proc[p].ip, proc[p].nr)
    <3>1. inode' = inode /\ d_inode' = d_inode /\ Goto(p, AtUser)
      BY <2>2 DEF Opened, inodeVars
    <3> QED
      BY <1>0, <2>2, <3>1, PlainSheet DEF Shown
  <2> QED
    BY <1>3, <2>1, <2>2 DEF open_got
<1>4. CASE open_new(p)
  <2> DEFINE h == Calls(proc[p], "add_entry", proc[p].ip, "open_added")
  <2>1. At(p, "open_new") /\ inode' = inode /\ d_inode' = d_inode /\ (Goto(p, h) \/ Goto(p, AtUser))
    BY <1>4 DEF open_new, inodeVars, Return, Continue
  <2>2. h.at = "add_entry"
    BY <1>0, CallLabel
  <2> HIDE DEF h
  <2> QED
    BY <1>0, <2>1, <2>2, PlainSheet DEF Shown
<1>5. CASE open_new_done(p)
  <2> DEFINE h == Calls(proc[p], "iput", proc[p].ip, "user")
  <2>1. At(p, "open_new_done") /\ inode' = inode /\ d_inode' = d_inode /\ (Goto(p, h) \/ Goto(p, AtUser))
    BY <1>5 DEF open_new_done, inodeVars, Opened, Continue
  <2>2. h.at = "iput"
    BY <1>0, CallLabel
  <2> HIDE DEF h
  <2> QED
    BY <1>0, <2>1, <2>2, PlainSheet DEF Shown
<1> QED
  BY <1>1, <1>2, <1>3, <1>4, <1>5

\* those of the directory, of sys_unlink() and of sys_link(),
LEMMA SheetLink ==
  ASSUME IInv, NEW p \in Procs,
         \/ find_entry(p) \/ add_entry(p) \/ iput_dir(p) \/ unlink_found(p)
         \/ link_found(p) \/ link_inode(p) \/ link_target(p) \/ link_added(p) \/ link_drop(p)
  PROVE  Sheet(p)
<1>0. proc[p] \in Process /\ AtUser.at = "user" /\ StackFits(proc[p])
  BY HereIs
<1> DEFINE a == Head(proc[p].stack).at
<1>1. CASE find_entry(p) \/ add_entry(p) \/ iput_dir(p)
  <2>1. PICK label \in {"find_entry", "add_entry", "iput_dir"} : \E h :
           At(p, label) /\ Goto(p, h) /\ inode' = inode /\ d_inode' = d_inode /\ h.at = a
    <3>1. Returns(proc[p]).at = a /\ \A x : [Returns(proc[p]) EXCEPT !.de = x].at = a
      BY <1>0 DEF Returns, Process
    <3> QED
      BY <1>1, <3>1 DEF find_entry, add_entry, iput_dir, inodeVars
  <2>2. a \in Top
    <3>1. proc[p].at \in {"find_entry", "add_entry", "iput_dir"}
      BY <2>1 DEF At
    <3> QED
      BY <1>0, <3>1, HeadsAre DEF Top
  <2> QED
    BY <2>1, <2>2, PlainSheet DEF Shown, Top
<1>2. ASSUME NEW label, At(p, label), UNCHANGED inodeVars,
             Goto(p, AtUser) \/ (\E b \in {"find_entry", "add_entry", "iput_dir", "iput"} : \E s, ret : Goto(p, Calls(proc[p], b, s, ret)))
      PROVE  Sheet(p)
  <2>1. inode' = inode /\ d_inode' = d_inode
    BY <1>2 DEF inodeVars
  <2>2. \A b, s, ret : Calls(proc[p], b, s, ret).at = b
    BY <1>0, CallLabel
  <2> QED
    BY <1>0, <1>2, <2>1, <2>2, PlainSheet DEF Shown
<1>3. ASSUME NEW label, At(p, label), UNCHANGED inodeVars, NEW n, NEW ret, Goto(p, Iget(proc[p], n, ret))
      PROVE  Sheet(p)
  <2>1. inode' = inode /\ d_inode' = d_inode
    BY <1>3 DEF inodeVars
  <2> QED
    BY <1>0, <1>3, <2>1, IgetLabel, PlainSheet DEF Shown
<1>4. CASE unlink_found(p)
  BY <1>2, <1>3, <1>4 DEF unlink_found, Return
<1>5. CASE link_found(p)
  <2> DEFINE h == Calls([proc[p] EXCEPT !.nr = dir[proc[p].de].ino], "iput_dir", 0, "link_inode")
  <2>1. h.at = "iput_dir"
    BY <1>0 DEF Process, Calls
  <2>2. At(p, "link_found") /\ inode' = inode /\ d_inode' = d_inode /\ (Goto(p, h) \/ Goto(p, AtUser))
    BY <1>5 DEF link_found, inodeVars, Return
  <2> HIDE DEF h
  <2> QED
    BY <1>0, <2>1, <2>2, PlainSheet DEF Shown
<1>6. CASE link_inode(p)
  BY <1>3, <1>6 DEF link_inode
<1>7. CASE link_target(p)
  BY <1>2, <1>7 DEF link_target, Continue
<1>8. CASE link_added(p)
  BY <1>2, <1>8 DEF link_added, Continue
<1>9. CASE link_drop(p)
  BY <1>2, <1>9 DEF link_drop, Continue
<1> QED
  BY <1>1, <1>4, <1>5, <1>6, <1>7, <1>8, <1>9

\* A system call changes the inode that it holds.
LEMMA EditSheet ==
  ASSUME IInv, NEW p \in Procs, NEW label, At(p, label), NEW h, Goto(p, h), h.at \notin Shown, d_inode' = d_inode,
         NEW s \in Slots, \A t \in Slots \ {s} : inode'[t] = inode[t], Edits(p, s)
  PROVE  Sheet(p)
<1>1. proc'[p].at = h.at
  BY WentTo
<1>2. proc[p].at # "write_bread"
  BY DEF Edits, EditLabels
<1> QED
  BY <1>1, <1>2 DEF Sheet, Change, Enters, Shown

\* those that change an inode that the process holds,
LEMMA SheetEdit ==
  ASSUME IInv, NEW p \in Procs, FileInv(p),
         open_added(p) \/ unlink_got(p) \/ link_old(p) \/ link_count(p) \/ write_copy(p)
  PROVE  Sheet(p)
<1> DEFINE f == proc[p]
           s == f.ip
           h == Calls(f, "iput", s, "user")
<1>0. f \in Process /\ AtUser.at = "user" /\ inode \in [Slots -> Inode] /\ (f.at \in HasSlot => s \in Slots)
  BY HereIs
<1>1. h.at = "iput"
  BY <1>0, CallLabel
<1>2. f.at \in Counted => Holds(p, s)
  BY DEF Holds, Own
<1>3. \A t \in Slots : inode[t] \in Inode
  BY <1>0
<1> HIDE DEF h
<1>4. CASE open_added(p)
  <2>1. At(p, "open_added") /\ f.at = "open_added" /\ s \in Slots /\ Holds(p, s) /\ d_inode' = d_inode
    BY <1>0, <1>2, <1>4 DEF open_added, At, HasSlot, Counted, inodeVars
  <2>2. CASE f.de = 0
    <3>1. inode' = [inode EXCEPT ![s].nlinks = 0] /\ Goto(p, h)
      BY <1>4, <2>2 DEF open_added, h
    <3>2. inode'[s] = [inode[s] EXCEPT !.nlinks = 0] /\ \A t \in Slots \ {s} : inode'[t] = inode[t]
      BY <1>0, <2>1, <3>1
    <3>3. Edits(p, s)
      BY <1>3, <2>1, <3>2 DEF Edits, EditLabels, Inode
    <3> QED
      BY <1>1, <2>1, <3>1, <3>2, <3>3, EditSheet DEF Shown
  <2>3. CASE f.de # 0
    <3> DEFINE k == Calls([f EXCEPT !.nr = inode[s].num], "iput_dir", 0, "open_new_done")
    <3>1. k.at = "iput_dir"
      BY <1>0 DEF Calls, Process
    <3>2. inode' = inode /\ Goto(p, k)
      BY <1>4, <2>3 DEF open_added, inodeVars
    <3> HIDE DEF k
    <3> QED
      BY <2>1, <3>1, <3>2, PlainSheet DEF Shown
  <2> QED
    BY <2>2, <2>3
<1>5. CASE unlink_got(p)
  <2>1. At(p, "unlink_got") /\ f.at = "unlink_got" /\ s \in Slots /\ Holds(p, s) /\ d_inode' = d_inode /\ Goto(p, h)
    BY <1>0, <1>2, <1>5 DEF unlink_got, At, HasSlot, Counted, h
  <2>2. inode' = [inode EXCEPT ![s].nlinks = IF @ = 0 THEN 0 ELSE @ - 1, ![s].dirt = TRUE]
    BY <1>5 DEF unlink_got
  <2>3. /\ inode'[s] = [inode[s] EXCEPT !.nlinks = IF inode[s].nlinks = 0 THEN 0 ELSE inode[s].nlinks - 1, !.dirt = TRUE]
        /\ \A t \in Slots \ {s} : inode'[t] = inode[t]
    BY <1>0, <2>1, <2>2 DEF Inode
  <2>4. Edits(p, s)
    BY <1>3, <2>1, <2>3 DEF Edits, EditLabels, Inode
  <2> QED
    BY <1>1, <2>1, <2>3, <2>4, EditSheet DEF Shown
<1>6. CASE link_old(p)
  <2>1. At(p, "link_old") /\ f.at = "link_old" /\ s \in Slots /\ Holds(p, s) /\ d_inode' = d_inode
    BY <1>0, <1>2, <1>6 DEF link_old, At, HasSlot, Counted
  <2>2. PICK c \in calls[p] : Goto(p, Calls([f EXCEPT !.name = c.to], "find_entry", f.ip, "link_target"))
    BY <1>6 DEF link_old
  <2>3. Calls([f EXCEPT !.name = c.to], "find_entry", f.ip, "link_target").at = "find_entry"
    BY <1>0 DEF Calls, Process
  <2>4. inode' = [inode EXCEPT ![s].dirt = TRUE]
    BY <1>6 DEF link_old
  <2>5. /\ inode'[s] = [inode[s] EXCEPT !.dirt = TRUE] /\ \A t \in Slots \ {s} : inode'[t] = inode[t]
    BY <1>0, <2>1, <2>4
  <2>6. Edits(p, s)
    BY <1>3, <2>1, <2>5 DEF Edits, EditLabels, Inode
  <2> QED
    BY <2>1, <2>2, <2>3, <2>5, <2>6, EditSheet DEF Shown
<1>7. CASE link_count(p)
  <2>1. At(p, "link_count") /\ f.at = "link_count" /\ s \in Slots /\ Holds(p, s) /\ d_inode' = d_inode /\ Goto(p, h)
    BY <1>0, <1>2, <1>7 DEF link_count, At, HasSlot, Counted, h
  <2>2. inode' = [inode EXCEPT ![s].nlinks = @ + 1, ![s].dirt = TRUE]
    BY <1>7 DEF link_count
  <2>3. /\ inode'[s] = [inode[s] EXCEPT !.nlinks = inode[s].nlinks + 1, !.dirt = TRUE]
        /\ \A t \in Slots \ {s} : inode'[t] = inode[t]
    BY <1>0, <2>1, <2>2 DEF Inode
  <2>4. Edits(p, s)
    BY <1>3, <2>1, <2>3 DEF Edits, EditLabels, Inode
  <2> QED
    BY <1>1, <2>1, <2>3, <2>4, EditSheet DEF Shown
<1>8. CASE write_copy(p)
  <2> DEFINE k == [f EXCEPT !.at = "copy"]
  <2>1. At(p, "bread") /\ f.at = "bread" /\ Holds(p, s) /\ d_inode' = d_inode /\ Goto(p, k) /\ s \in Slots
    <3>1. At(p, "bread") /\ f.at = "bread" /\ d_inode' = d_inode /\ Goto(p, k)
      BY <1>8 DEF write_copy, At
    <3>2. file[p].slot = s /\ s # 0
      BY <3>1 DEF FileInv
    <3>3. s \in SlotOr0
      BY <1>0 DEF Process
    <3> QED
      BY <3>1, <3>2, <3>3, SlotsAre DEF Holds
  <2>2. k.at = "copy"
    BY <1>0 DEF Process
  <2>3. PICK grows \in BOOLEAN : inode' = [inode EXCEPT ![s].dirt = @ \/ grows]
    BY <1>8 DEF write_copy
  <2>4. /\ inode'[s] = [inode[s] EXCEPT !.dirt = inode[s].dirt \/ grows] /\ \A t \in Slots \ {s} : inode'[t] = inode[t]
    BY <1>0, <2>1, <2>3 DEF Inode
  <2>5. Edits(p, s)
    BY <1>3, <2>1, <2>4 DEF Edits, EditLabels, Inode
  <2> HIDE DEF k
  <2> QED
    BY <2>1, <2>2, <2>4, <2>5, EditSheet DEF Shown
<1> QED
  BY <1>4, <1>5, <1>6, <1>7, <1>8

\* and those of file_write() and of entering the kernel.
LEMMA SheetWrite ==
  ASSUME IInv, NEW p \in Procs, write_block(p) \/ write_end(p) \/ \E c \in calls[p] : Enter(p, c)
  PROVE  Sheet(p)
<1>0. proc[p] \in Process /\ AtUser.at = "user"
  BY HereIs
<1>1. CASE write_block(p)
  <2>1. [proc[p] EXCEPT !.at = "bread"].at = "bread"
    BY <1>0 DEF Process
  <2>2. At(p, "write_block") /\ inode' = inode /\ d_inode' = d_inode /\ (Goto(p, AtUser) \/ Goto(p, [proc[p] EXCEPT !.at = "bread"]))
    BY <1>1 DEF write_block, Return, inodeVars
  <2> QED
    BY <1>0, <2>1, <2>2, PlainSheet DEF Shown
<1>2. CASE write_end(p)
  <2>2. At(p, "copy") /\ inode' = inode /\ d_inode' = d_inode /\ Goto(p, AtUser)
    BY <1>2 DEF write_end, Return, inodeVars
  <2> QED
    BY <1>0, <2>2, PlainSheet DEF Shown
<1>3. ASSUME NEW c \in calls[p], Enter(p, c) PROVE Sheet(p)
  <2> DEFINE f == [proc[p] EXCEPT !.op = c.op, !.name = c.name]
             s == file[p].slot
  <2>1. \A b, x, ret : Calls(f, b, x, ret).at = b
    BY <1>0 DEF Calls, Process
  <2>2. Calls([f EXCEPT !.ip = s], "create_block", s, "write_block").at = "create_block"
    BY <1>0 DEF Calls, Process
  <2>3. At(p, "user") /\ inode' = inode /\ d_inode' = d_inode
    BY <1>3 DEF Enter, inodeVars
  <2>4. \/ Goto(p, Calls([f EXCEPT !.ip = s], "create_block", s, "write_block"))
        \/ \E b \in {"find_entry", "sync_inodes", "iput"} : \E x, ret : Goto(p, Calls(f, b, x, ret))
    BY <1>3 DEF Enter
  <2> HIDE DEF f
  <2> QED
    BY <2>1, <2>2, <2>3, <2>4, PlainSheet DEF Shown
<1> QED
  BY <1>1, <1>2, <1>3

\* Labels in the functions of fs/inode.c, fs/bitmap.c and fs/truncate.c
InodeLabels == {"get_empty_inode", "gei_wait", "iget_search", "iget_wait", "read_inode", "read_bread",
                "write_inode", "write_bread", "iput", "iput_again", "sync_inodes", "truncate", "free_block",
                "free_inode", "new_inode", "create_block", "getblk"}

\* The label of each function's steps
LEMMA InodeLabel ==
  ASSUME NEW p \in Procs
  PROVE  /\ get_empty_inode(p) => proc[p].at = "get_empty_inode"
         /\ get_empty_inode_loop(p) => proc[p].at = "gei_wait"
         /\ iget_search(p) => proc[p].at = "iget_search"
         /\ iget_found(p) => proc[p].at = "iget_wait"
         /\ read_inode(p) => proc[p].at = "read_inode"
         /\ read_inode_end(p) => proc[p].at = "read_bread"
         /\ write_inode(p) => proc[p].at = "write_inode"
         /\ write_inode_end(p) => proc[p].at = "write_bread"
         /\ iput(p) => proc[p].at \in {"iput", "iput_again"}
         /\ sync_inodes(p) => proc[p].at = "sync_inodes"
         /\ truncate(p) => proc[p].at = "truncate"
         /\ free_block(p) => proc[p].at = "free_block"
         /\ free_inode(p) => proc[p].at = "free_inode"
         /\ new_inode(p) => proc[p].at = "new_inode"
         /\ create_block(p) => proc[p].at = "create_block"
         /\ create_block_end(p) => proc[p].at = "getblk"
BY DEF At, get_empty_inode, get_empty_inode_loop, iget_search, iget_found, read_inode, read_inode_end, write_inode, write_inode_end, iput, sync_inodes, truncate, free_block, free_inode, new_inode, create_block, create_block_end

\* and of the steps of the system calls
LEMMA TopLabel ==
  ASSUME NEW p \in Procs
  PROVE  /\ find_entry(p) => proc[p].at = "find_entry"
         /\ add_entry(p) => proc[p].at = "add_entry"
         /\ iput_dir(p) => proc[p].at = "iput_dir"
         /\ open_found(p) => proc[p].at = "open_found"
         /\ open_inode(p) => proc[p].at = "open_inode"
         /\ open_got(p) => proc[p].at \in {"open_got", "open_done"}
         /\ open_new(p) => proc[p].at = "open_new"
         /\ open_added(p) => proc[p].at = "open_added"
         /\ open_new_done(p) => proc[p].at = "open_new_done"
         /\ unlink_found(p) => proc[p].at = "unlink_found"
         /\ unlink_got(p) => proc[p].at = "unlink_got"
         /\ link_found(p) => proc[p].at = "link_found"
         /\ link_inode(p) => proc[p].at = "link_inode"
         /\ link_old(p) => proc[p].at = "link_old"
         /\ link_target(p) => proc[p].at = "link_target"
         /\ link_added(p) => proc[p].at = "link_added"
         /\ link_count(p) => proc[p].at = "link_count"
         /\ link_drop(p) => proc[p].at = "link_drop"
         /\ write_block(p) => proc[p].at = "write_block"
         /\ write_copy(p) => proc[p].at = "bread"
         /\ write_end(p) => proc[p].at = "copy"
         /\ (\E c \in calls[p] : Enter(p, c)) => proc[p].at = "user"
BY DEF At, Enter, find_entry, add_entry, iput_dir, open_found, open_inode, open_got, open_new, open_added, open_new_done, unlink_found, unlink_got, link_found, link_inode, link_old, link_target, link_added, link_count, link_drop, write_block, write_copy, write_end

\* At a label, the step is the one of that label.
LEMMA ActionAt ==
  ASSUME NEW p \in Procs, Step(p)
  PROVE  /\ proc[p].at \in InodeLabels <=> InodeStep(p)
         /\ proc[p].at \in InodeLabels => UNCHANGED fileVars
         /\ proc[p].at = "get_empty_inode" => get_empty_inode(p)
         /\ proc[p].at = "gei_wait" => get_empty_inode_loop(p)
         /\ proc[p].at = "iget_search" => iget_search(p)
         /\ proc[p].at = "iget_wait" => iget_found(p)
         /\ proc[p].at = "read_inode" => read_inode(p)
         /\ proc[p].at = "read_bread" => read_inode_end(p)
         /\ proc[p].at = "write_inode" => write_inode(p)
         /\ proc[p].at = "write_bread" => write_inode_end(p)
         /\ proc[p].at \in {"iput", "iput_again"} => iput(p)
         /\ proc[p].at = "sync_inodes" => sync_inodes(p)
         /\ proc[p].at = "truncate" => truncate(p)
         /\ proc[p].at = "free_block" => free_block(p)
         /\ proc[p].at = "free_inode" => free_inode(p)
         /\ proc[p].at = "new_inode" => new_inode(p)
         /\ proc[p].at = "create_block" => create_block(p)
         /\ proc[p].at = "getblk" => create_block_end(p)
         /\ proc[p].at = "find_entry" => find_entry(p)
         /\ proc[p].at = "add_entry" => add_entry(p)
         /\ proc[p].at = "iput_dir" => iput_dir(p)
         /\ proc[p].at = "open_found" => open_found(p)
         /\ proc[p].at = "open_inode" => open_inode(p)
         /\ proc[p].at \in {"open_got", "open_done"} => open_got(p)
         /\ proc[p].at = "open_new" => open_new(p)
         /\ proc[p].at = "open_added" => open_added(p)
         /\ proc[p].at = "open_new_done" => open_new_done(p)
         /\ proc[p].at = "unlink_found" => unlink_found(p)
         /\ proc[p].at = "unlink_got" => unlink_got(p)
         /\ proc[p].at = "link_found" => link_found(p)
         /\ proc[p].at = "link_inode" => link_inode(p)
         /\ proc[p].at = "link_old" => link_old(p)
         /\ proc[p].at = "link_target" => link_target(p)
         /\ proc[p].at = "link_added" => link_added(p)
         /\ proc[p].at = "link_count" => link_count(p)
         /\ proc[p].at = "link_drop" => link_drop(p)
         /\ proc[p].at = "write_block" => write_block(p)
         /\ proc[p].at = "bread" => write_copy(p)
         /\ proc[p].at = "copy" => write_end(p)
         /\ proc[p].at = "user" => \E c \in calls[p] : Enter(p, c)
<1>1. CASE InodeStep(p) /\ UNCHANGED fileVars
  BY <1>1, InodeLabel DEF InodeStep, InodeLabels
<1>2. CASE find_entry(p) \/ add_entry(p) \/ iput_dir(p) \/ open_found(p) \/ open_inode(p) \/ open_got(p) \/ open_new(p)
           \/ open_added(p) \/ open_new_done(p) \/ unlink_found(p) \/ unlink_got(p)
  BY <1>2, TopLabel, InodeLabel DEF InodeLabels, InodeStep
<1>3. CASE link_found(p) \/ link_inode(p) \/ link_old(p) \/ link_target(p) \/ link_added(p) \/ link_count(p) \/ link_drop(p)
           \/ write_block(p) \/ write_copy(p) \/ write_end(p) \/ \E c \in calls[p] : Enter(p, c)
  BY <1>3, TopLabel, InodeLabel DEF InodeLabels, InodeStep
<1> QED
  BY <1>1, <1>2, <1>3 DEF Step, InKernel

\* What every step keeps
LEMMA InodeSheet ==
  ASSUME IInv, NEW p \in Procs, ProcInv(p), \A s \in Slots : SlotInv(s), FileInv(p), InodeStep(p)
  PROVE  KeepsCall(proc[p], proc'[p]) /\ Sheet(p)
<1>1. CASE get_empty_inode_loop(p)
  <2>1. proc[p].ip \in Slots
    BY <1>1, InodeLabel, HereIs DEF HasSlot
  <2> QED
    BY <1>1, <2>1, SheetGetEmptyInodeLoop
<1> QED
  BY <1>1, SheetGetEmptyInode, SheetIgetSearch, SheetIgetFound, SheetReadInode, SheetReadInodeEnd,
     SheetWriteInode, SheetWriteInodeEnd, SheetIput, SheetSyncInodes, SheetTruncate, SheetFreeBlock, SheetFreeInode,
     SheetNewInode, SheetCreateBlock, SheetCreateBlockEnd DEF InodeStep

\* Every step is on the sheet.
LEMMA StepSheet ==
  ASSUME IInv, NEW p \in Procs, ProcInv(p), \A s \in Slots : SlotInv(s), FileInv(p), Step(p)
  PROVE  Sheet(p)
<1>1. CASE InodeStep(p)
  BY <1>1, InodeSheet
<1>2. CASE find_entry(p) \/ add_entry(p) \/ iput_dir(p) \/ open_found(p) \/ open_inode(p) \/ open_got(p) \/ open_new(p)
           \/ open_added(p) \/ open_new_done(p) \/ unlink_found(p) \/ unlink_got(p)
  BY <1>2, SheetOpen, SheetLink, SheetEdit
<1>3. CASE link_found(p) \/ link_inode(p) \/ link_old(p) \/ link_target(p) \/ link_added(p) \/ link_count(p) \/ link_drop(p)
           \/ write_block(p) \/ write_copy(p) \/ write_end(p) \/ \E c \in calls[p] : Enter(p, c)
  BY <1>3, SheetLink, SheetEdit, SheetWrite
<1> QED
  BY <1>1, <1>2, <1>3 DEF Step, InKernel

(* The invariant of the tables *)

\* What the tables agree on at every step
TablesInv ==
  /\ SoundDisk /\ RaceFree(calls)
  /\ \A s \in Slots : SlotInv(s)
  /\ \A p \in Procs : ProcInv(p) /\ Asked(p) /\ OpInv(p) /\ NamesInv(p) /\ NewInv(p) /\ FileInv(p)
  /\ LocksInv /\ SyncInv /\ DirInv /\ OwnInv /\ LinkInv /\ DiskInv /\ ZoneInv /\ PanicInv
  /\ MarkedInUse /\ UniqueInode

\* A step of p, before and after
LEMMA Moment ==
  ASSUME IInv, IInv', TablesInv, NEW p \in Procs, Step(p)
  PROVE  /\ Sheet(p) /\ RunsAlone(p) /\ OthersFiles(p)
         /\ Typed /\ Typed' /\ panic = ""
         /\ proc \in [Procs -> Process] /\ proc' \in [Procs -> Process]
         /\ inode \in [Slots -> Inode] /\ inode' \in [Slots -> Inode]
         /\ \A q \in Procs : proc[q] \in Process /\ Shape(proc[q]) /\ StackFits(proc[q])
         /\ proc'[p] \in Process /\ Shape(proc'[p]) /\ StackFits(proc'[p])
         /\ \A q \in Procs \ {p} : proc'[q] = proc[q] /\ file'[q] = file[q]
         /\ calls' = calls
<1>1. Typed /\ Typed'
  BY DEF IInv
<1>2. RunsAlone(p) /\ OthersFiles(p)
  BY <1>1, KernelAlone
<1>3. Sheet(p)
  BY StepSheet DEF TablesInv
<1>4. \A q \in Procs : Shape(proc[q]) /\ StackFits(proc[q])
  BY DEF IInv, Shape
<1>5. Shape(proc'[p]) /\ StackFits(proc'[p])
  <2>1. (\A q \in Procs : Shape(proc[q]))'
    BY DEF IInv
  <2> QED
    BY <2>1, ShapePrimed DEF Shape
<1> QED
  BY <1>1, <1>2, <1>3, <1>4, <1>5 DEF Typed, RunsAlone, OthersFiles

\* The others sleep, and none has just been given a slot.
LEMMA OthersSleep ==
  ASSUME IInv, NEW p \in Procs, RunsAlone(p), NEW q \in Procs \ {p}, ProcInv(q)
  PROVE  proc[q].at \in Asleep /\ proc[q].at \notin {"gei_wait", "read_inode"}
<1>1. cpu # q
  BY InodesAssumption DEF RunsAlone
<1>2. proc[q].at \in Asleep
  BY <1>1 DEF IInv, Runs, RunsAlone
<1>3. proc[q].at \notin {"gei_wait", "read_inode"}
  BY <1>1 DEF ProcInv, Reading, RunsAlone
<1> QED
  BY <1>2, <1>3

\* An inode that is held has a number, but for the empty one.
LEMMA HeldHasNumber ==
  ASSUME IInv, NEW p \in Procs, NEW s \in Slots, Holds(p, s)
  PROVE  inode[s].num # 0 \/ s = Empty(proc[p])
<1>1. s # 0
  BY SlotsAre
<1>2. Holding(proc[p]) /\ Opens(p)
  BY DEF IInv, Held
<1>3. CASE s = file[p].slot
  BY <1>1, <1>2, <1>3 DEF Opens
<1>4. CASE s = Below(proc[p])
  BY <1>1, <1>2, <1>4 DEF Holding
<1>5. CASE s = Own(proc[p])
  <2>1. Empty(proc[p]) # 0 => Empty(proc[p]) = Own(proc[p])
    BY DEF Empty, Own, Counted, Searches
  <2> QED
    BY <1>1, <1>2, <1>5, <2>1 DEF Holding
<1> QED
  BY <1>3, <1>4, <1>5 DEF Holds

\* An inode that is changed is held and has a number.
LEMMA EditedHasNumber ==
  ASSUME IInv, NEW p \in Procs, NEW s \in Slots, Edits(p, s)
  PROVE  inode[s].num # 0 /\ inode[s].count \in Nat /\ inode[s].count >= 1
<1>1. Holds(p, s) /\ proc[p].at \in EditLabels
  BY DEF Edits
<1>2. Empty(proc[p]) = 0
  BY <1>1 DEF Empty, EditLabels, Searches
<1>3. inode[s].num # 0
  BY <1>1, <1>2, HeldHasNumber, SlotsAre
<1> QED
  BY <1>1, <1>3, HoldersCount

\* The disk is written by write_inode() only.
LEMMA DiskWritten ==
  ASSUME IInv, IInv', TablesInv, NEW p \in Procs, Step(p)
  PROVE  \/ d_inode' = d_inode
         \/ LET s == proc[p].ip IN
            /\ proc[p].at = "write_bread" /\ Writes(p, s) /\ s \in Slots /\ inode[s].num \in Numbers
            /\ d_inode' = [d_inode EXCEPT ![inode[s].num] = Fields(inode[s])]
            /\ inode' = [inode EXCEPT ![s].lock = FALSE, ![s].dirt = FALSE]
<1>1. CASE proc[p].at # "write_bread"
  BY <1>1, Moment DEF Sheet
<1>2. CASE proc[p].at = "write_bread"
  <2> DEFINE s == proc[p].ip
  <2>1. write_inode_end(p)
    BY <1>2, ActionAt
  <2>2. s \in Slots /\ inode \in [Slots -> Inode]
    BY <1>2, HereIs DEF HasSlot
  <2>3. inode[s].num # 0
    BY <1>2 DEF TablesInv, ProcInv, Locking
  <2>4. inode[s].num \in Numbers /\ DiskIndex(inode[s].num) = inode[s].num
    <3>1. inode[s].num \in 0..NInodes
      BY <2>2 DEF Inode
    <3> QED
      BY <2>3, <3>1, InodesAssumption DEF Numbers, DiskIndex
  <2>5. /\ d_inode' = [d_inode EXCEPT ![inode[s].num] = Fields(inode[s])]
        /\ inode' = [inode EXCEPT ![s].lock = FALSE, ![s].dirt = FALSE]
    BY <2>1, <2>4 DEF write_inode_end, Fields
  <2>6. Writes(p, s)
    <3>1. inode'[s] = [inode[s] EXCEPT !.lock = FALSE, !.dirt = FALSE]
      BY <2>2, <2>5 DEF Inode
    <3> QED
      BY <1>2, <3>1 DEF Writes
  <2> QED
    BY <1>2, <2>2, <2>4, <2>5, <2>6
<1> QED
  BY <1>1, <1>2

(* The slots and their locks *)

\* Who reads an inode holds it, and it has a number.
LEMMA ReaderHolds ==
  ASSUME IInv, NEW q \in Procs, Reading(proc[q])
  PROVE  /\ proc[q].ip \in Slots /\ inode[proc[q].ip].num # 0 /\ Holds(q, proc[q].ip)
         /\ inode[proc[q].ip].num = proc[q].nr
<1>1. proc[q].ip \in Slots
  BY HereIs DEF Reading, HasSlot, Counted
<1>2. Own(proc[q]) = proc[q].ip /\ Empty(proc[q]) = 0
  BY DEF Own, Reading, Counted, Empty, Searches
<1>3. Holding(proc[q])
  BY DEF IInv, Held
<1> QED
  BY <1>1, <1>2, <1>3, SlotsAre DEF Holding, Holds, Reading, Kept

\* Where p reads from after its step
LEMMA ReadsNext ==
  ASSUME IInv, IInv', TablesInv, NEW p \in Procs, Step(p)
  PROVE  /\ proc[p].at = "read_inode" => proc'[p].at = "read_bread" /\ proc'[p].ip = proc[p].ip
         /\ proc[p].at = "read_bread" => ~Reading(proc'[p]) /\ Loads(p, proc[p].ip)
         /\ Reading(proc'[p]) /\ ~Reading(proc[p]) => GivesNumber(p, proc'[p].ip) /\ proc'[p].ip \in Slots
<1>0. proc[p] \in Process /\ StackFits(proc[p])
  BY HereIs
<1>1. CASE proc[p].at = "read_inode"
  <2> DEFINE h == [proc[p] EXCEPT !.at = "read_bread"]
  <2>1. read_inode(p)
    BY <1>1, ActionAt
  <2>2. At(p, "read_inode") /\ Goto(p, h)
    BY <2>1 DEF read_inode
  <2>3. h.at = "read_bread" /\ h.ip = proc[p].ip
    BY <1>0 DEF Process
  <2> HIDE DEF h
  <2>4. proc'[p] = h
    BY <2>2, <2>3, WentTo
  <2> QED
    BY <1>1, <2>3, <2>4 DEF Reading
<1>2. CASE proc[p].at = "read_bread"
  <2> DEFINE h == ReturnsInode(proc[p], proc[p].ip)
  <2>1. read_inode_end(p)
    BY <1>2, ActionAt
  <2>2. At(p, "read_bread") /\ Goto(p, h)
    BY <2>1 DEF read_inode_end
  <2>3. proc[p].stack # <<>> /\ Head(proc[p].stack).at \in Got
    BY <1>0, <1>2, HeadsAre DEF Top
  <2>4. h.at \in Got
    BY <1>0, <2>3, ReturnKeepsCall
  <2> HIDE DEF h
  <2>5. proc'[p].at \in Got
    BY <2>2, <2>4, WentTo
  <2>6. ~Reading(proc'[p])
    BY <2>5 DEF Reading, Got
  <2>7. proc[p].ip \in Slots /\ inode \in [Slots -> Inode]
    BY <1>2, HereIs DEF HasSlot, Counted
  <2>8. inode'[proc[p].ip] = [inode[proc[p].ip] EXCEPT !.lock = FALSE, !.nlinks = d_inode[inode[proc[p].ip].num].nlinks,
                                  !.zone = d_inode[inode[proc[p].ip].num].zone]
    BY <2>1, <2>7 DEF read_inode_end
  <2>9. Loads(p, proc[p].ip)
    BY <1>2, <2>8 DEF Loads
  <2> QED
    BY <1>2, <2>6, <2>9
<1>3. CASE Reading(proc'[p]) /\ ~Reading(proc[p])
  <2>1. Enters(p)
    BY <1>3, Moment DEF Sheet
  <2>2. proc'[p].at # "read_bread"
    BY <1>3, <2>1 DEF Enters, LocksToRead, Reading
  <2>3. GivesNumber(p, proc'[p].ip)
    BY <1>3, <2>1, <2>2 DEF Enters, Reading
  <2>4. proc'[p].ip \in Slots
    <3>1. Shape(proc'[p]) /\ proc'[p].at = "read_inode"
      BY <1>3, <2>2, Moment DEF Reading
    <3> QED
      BY <3>1 DEF Shape, HasSlot, Counted
  <2> QED
    BY <1>3, <2>3, <2>4 DEF Reading
<1> QED
  BY <1>1, <1>2, <1>3 DEF Reading

\* What is read in, stays so; what is being read in comes in by read_inode_end only.
LEMMA LoadedMoves ==
  ASSUME IInv, IInv', TablesInv, NEW p \in Procs, Step(p), NEW s \in Slots
  PROVE  /\ inode'[s].num = inode[s].num =>
              (Loaded(s)' <=> Loaded(s) \/ (proc[p].at = "read_bread" /\ s = proc[p].ip))
         /\ inode[s].num = 0 /\ inode'[s].num # 0 =>
              \/ Loaded(s)' /\ Allocates(p, s)
              \/ ~Loaded(s)' /\ GivesNumber(p, s)
<1>0. \A q \in Procs \ {p} : proc'[q] = proc[q] /\ ~(proc[q].at = "read_inode")
  BY Moment, OthersSleep DEF TablesInv
<1>a. Loaded(s)' <=> inode'[s].num # 0 /\ \A q \in Procs : ~(Reading(proc'[q]) /\ proc'[q].ip = s)
  BY DEF Loaded, Reading
<1>1. CASE inode'[s].num = inode[s].num /\ proc[p].at = "read_bread" /\ s = proc[p].ip
  <2>1. inode[s].num # 0
    BY <1>1, ReaderHolds DEF Reading
  <2>2. ~Reading(proc'[p])
    BY <1>1, ReadsNext
  <2>3. ASSUME NEW q \in Procs \ {p} PROVE ~(Reading(proc[q]) /\ proc[q].ip = s)
    BY <1>0, <1>1, <2>3 DEF TablesInv, LocksInv, Reading, Locking
  <2> QED
    BY <1>0, <1>1, <1>a, <2>1, <2>2, <2>3
<1>2. CASE inode'[s].num = inode[s].num /\ ~(proc[p].at = "read_bread" /\ s = proc[p].ip)
  <2>1. inode[s].num # 0 => ~(Reading(proc'[p]) /\ ~Reading(proc[p]) /\ proc'[p].ip = s)
    <3> SUFFICES ASSUME inode[s].num # 0, Reading(proc'[p]), ~Reading(proc[p]), proc'[p].ip = s PROVE FALSE
      OBVIOUS
    <3>1. GivesNumber(p, s)
      BY ReadsNext
    <3>2. inode'[s].num # inode[s].num
      <4>1. inode[s] \in Inode /\ inode[s].num # proc[p].nr
        BY <3>1, Moment DEF GivesNumber
      <4> QED
        BY <3>1, <4>1 DEF GivesNumber, Inode
    <3> QED
      BY <1>2, <3>2
  <2>2. inode[s].num # 0 => (Reading(proc'[p]) /\ proc'[p].ip = s <=> Reading(proc[p]) /\ proc[p].ip = s)
    <3>1. CASE proc[p].at = "read_inode"
      BY <3>1, ReadsNext DEF Reading
    <3>2. CASE proc[p].at = "read_bread"
      BY <3>2, <1>2, ReadsNext
    <3>3. CASE ~Reading(proc[p])
      BY <3>3, <2>1
    <3> QED
      BY <3>1, <3>2, <3>3 DEF Reading
  <2> QED
    BY <1>0, <1>2, <1>a, <2>2 DEF Loaded
<1>3. CASE inode[s].num = 0 /\ inode'[s].num # 0
  <2>0. inode[s] \in Inode
    BY Moment
  <2>1. Allocates(p, s) \/ GivesNumber(p, s)
    <3>1. Change(p, s)
      BY Moment DEF Sheet
    <3>2. ~Edits(p, s)
      BY <1>3 DEF Edits
    <3>3. ~Clears(p, s) /\ ~Discards(p, s)
      BY <1>3 DEF Clears, Discards, ZeroInode
    <3>4. ~Takes(p, s) /\ ~LetsGo(p, s)
      BY <1>3, <2>0 DEF Takes, LetsGo, Inode
    <3>5. ~LocksToRead(p, s) /\ ~Loads(p, s)
      BY <1>3, <2>0 DEF LocksToRead, Loads, Inode
    <3>6. ~LocksToWrite(p, s) /\ ~Writes(p, s)
      BY <1>3, <2>0 DEF LocksToWrite, Writes, Inode
    <3> QED
      BY <1>3, <3>1, <3>2, <3>3, <3>4, <3>5, <3>6 DEF Change
  <2>2. CASE GivesNumber(p, s)
    BY <1>3, <1>a, <2>2 DEF GivesNumber, Reading
  <2>3. CASE Allocates(p, s)
    <3>1. ~Reading(proc[p]) /\ ~GivesNumber(p, proc'[p].ip)
      BY <2>3 DEF Allocates, GivesNumber, Reading
    <3>2. ~Reading(proc'[p])
      BY <3>1, ReadsNext
    <3>3. ASSUME NEW q \in Procs \ {p} PROVE ~(Reading(proc[q]) /\ proc[q].ip = s)
      BY <1>3, <3>3, ReaderHolds
    <3> QED
      BY <1>0, <1>3, <1>a, <2>3, <3>2, <3>3
  <2> QED
    BY <2>1, <2>2, <2>3
<1> QED
  BY <1>1, <1>2, <1>3

\* The disk keeps the inode of a slot that is not written.
LEMMA DiskKeeps ==
  ASSUME IInv, IInv', TablesInv, NEW p \in Procs, Step(p), NEW s \in Slots, inode[s].num # 0, ~Writes(p, s)
  PROVE  d_inode'[inode[s].num] = d_inode[inode[s].num] /\ inode[s].num \in Numbers
<1>1. inode[s].num \in Numbers
  <2>1. inode[s].num \in 0..NInodes
    BY Moment DEF Inode
  <2> QED
    BY <2>1, InodesAssumption DEF Numbers
<1>2. CASE d_inode' = d_inode
  BY <1>1, <1>2
<1>3. CASE d_inode' # d_inode
  <2> DEFINE t == proc[p].ip
  <2>1. Writes(p, t) /\ t \in Slots /\ d_inode' = [d_inode EXCEPT ![inode[t].num] = Fields(inode[t])]
    BY <1>3, DiskWritten
  <2>2. inode[t].num # inode[s].num
    BY <2>1 DEF TablesInv, UniqueInode
  <2>3. d_inode \in [Numbers -> [nlinks : Nat, zone : 0..NZones]]
    BY DEF IInv, Typed
  <2> QED
    BY <1>1, <2>1, <2>2, <2>3
<1> QED
  BY <1>2, <1>3

\* The slots stay in order, as long as link() counts no more links than there are entries.
LEMMA SlotsStay ==
  ASSUME IInv, IInv', TablesInv, NEW p \in Procs, Step(p),
         proc[p].at = "link_count" => inode[proc[p].ip].nlinks < DirSize, NEW s \in Slots
  PROVE  SlotInv(s)'
<1> DEFINE i == inode[s]
           j == inode'[s]
<1>1. /\ i \in Inode /\ j \in Inode /\ SlotInv(s) /\ ProcInv(p)
      /\ DirSize \in Nat /\ DirSize # 0
  BY Moment, FilesAssumption DEF TablesInv, SoundDisk
<1>2. ASSUME /\ j.num = 0 => j.nlinks = 0 /\ j.zone = 0 /\ ~j.dirt /\ ~j.lock
             /\ j.count = 0 => ~j.dirt /\ ~j.lock /\ (j.num # 0 => j.nlinks # 0)
             /\ Loaded(s)' /\ ~j.dirt /\ j.nlinks # 0 => d_inode'[j.num] = Fields(j)
             /\ j.nlinks <= DirSize
      PROVE  SlotInv(s)'
  BY <1>2 DEF SlotInv, Fields
<1>3. ASSUME j.num = i.num, j.nlinks = i.nlinks, j.zone = i.zone, ~j.dirt, j.nlinks # 0, Loaded(s)', ~i.dirt, ~Writes(p, s)
      PROVE  d_inode'[j.num] = Fields(j)
  <2>1. i.num # 0
    BY <1>3 DEF Loaded
  <2>2. ~(proc[p].at = "read_bread" /\ s = proc[p].ip)
    <3> SUFFICES ASSUME proc[p].at = "read_bread", s = proc[p].ip PROVE FALSE
      OBVIOUS
    <3>1. i.nlinks = 0
      BY <1>1 DEF ProcInv, Reading
    <3> QED
      BY <1>3, <3>1
  <2>3. Loaded(s)
    BY <1>3, <2>2, LoadedMoves
  <2>4. d_inode[i.num] = Fields(i)
    BY <1>1, <1>3, <2>3 DEF SlotInv
  <2>5. d_inode'[i.num] = d_inode[i.num]
    BY <1>3, <2>1, DiskKeeps
  <2> QED
    BY <1>3, <2>4, <2>5 DEF Fields
<1>4. i.num \in Numbers => i.num # 0
  BY DEF Numbers
<1>5. Change(p, s)
  BY Moment DEF Sheet
<1>6. CASE j = i
  <2>1. ~Writes(p, s)
    <3>1. Writes(p, s) => i.lock /\ j.lock = FALSE
      BY <1>1 DEF Writes, ProcInv, Locking, Inode
    <3> QED
      BY <1>6, <3>1
  <2> QED
    BY <1>1, <1>2, <1>3, <1>6, <2>1 DEF SlotInv
<1>7. CASE Clears(p, s)
  BY <1>1, <1>2, <1>7 DEF Clears, ZeroInode, Loaded
<1>8. CASE GivesNumber(p, s)
  <2>1. i.num = 0 /\ i.count = 1 /\ proc[p].nr # 0
    <3>1. proc[p].at = "iget_search" /\ s = proc[p].empty
      BY <1>8 DEF GivesNumber
    <3>2. Holding(proc[p]) /\ Shape(proc[p])
      BY DEF IInv, Held
    <3> QED
      BY <3>1, <3>2, SlotsAre DEF Holding, Empty, Searches, Shape
  <2>2. j.num # 0 /\ j.count = 1 /\ j.nlinks = i.nlinks
    BY <1>1, <1>8, <2>1 DEF GivesNumber, Inode
  <2>3. ~Loaded(s)'
    BY <1>8, <2>1, <2>2, LoadedMoves DEF Allocates, GivesNumber
  <2> QED
    BY <1>1, <1>2, <2>2, <2>3 DEF SlotInv
<1>9. CASE Takes(p, s)
  <2>1. /\ j.num = i.num /\ j.nlinks = i.nlinks /\ j.zone = i.zone /\ j.dirt = i.dirt /\ j.lock = i.lock
        /\ j.count = i.count + 1 /\ i.count \in Nat
    BY <1>1, <1>9 DEF Takes, Inode
  <2>2. ~Writes(p, s)
    BY <1>9 DEF Takes, Writes
  <2> QED
    BY <1>1, <1>2, <1>3, <2>1, <2>2 DEF SlotInv
<1>10. CASE LocksToRead(p, s)
  <2>1. /\ j.num = i.num /\ j.nlinks = i.nlinks /\ j.zone = i.zone /\ j.dirt = i.dirt /\ j.count = i.count
    BY <1>1, <1>10 DEF LocksToRead, Inode
  <2>2. i.num # 0 /\ i.count = 1
    BY <1>1, <1>10, ReaderHolds DEF LocksToRead, Reading, ProcInv
  <2>3. ~Loaded(s)'
    BY <1>10 DEF LocksToRead, Loaded, Reading
  <2> QED
    BY <1>1, <1>2, <2>1, <2>2, <2>3 DEF SlotInv
<1>11. CASE Loads(p, s)
  <2>1. i.num # 0 /\ i.count = 1 /\ ~i.dirt
    BY <1>1, <1>11, ReaderHolds DEF Loads, Reading, ProcInv
  <2>2. j.num = i.num /\ j.count = i.count /\ j.dirt = i.dirt /\ j.nlinks = d_inode[i.num].nlinks /\ j.zone = d_inode[i.num].zone
    BY <1>1, <1>11 DEF Loads, Inode
  <2>3. d_inode' = d_inode
    BY <1>11, Moment DEF Loads, Sheet
  <2>4. i.num \in Numbers
    <3>1. ~Writes(p, s)
      BY <1>11 DEF Loads, Writes
    <3> QED
      BY <2>1, <3>1, DiskKeeps
  <2>5. d_inode[i.num] \in [nlinks : Nat, zone : 0..NZones] /\ d_inode[i.num].nlinks <= DirSize
    BY <2>4 DEF IInv, Typed, TablesInv, DiskInv
  <2>6. d_inode'[j.num] = Fields(j)
    BY <2>2, <2>3, <2>5 DEF Fields
  <2> QED
    BY <1>2, <2>1, <2>2, <2>5, <2>6
<1>12. CASE LocksToWrite(p, s)
  <2>1. /\ j.num = i.num /\ j.nlinks = i.nlinks /\ j.zone = i.zone /\ j.dirt = i.dirt /\ j.count = i.count
        /\ i.dirt /\ i.num # 0
    BY <1>1, <1>12 DEF LocksToWrite, Inode
  <2> QED
    BY <1>1, <1>2, <2>1 DEF SlotInv
<1>13. CASE Writes(p, s)
  <2>1. /\ j.num = i.num /\ j.nlinks = i.nlinks /\ j.zone = i.zone /\ ~j.dirt /\ ~j.lock /\ j.count = i.count
    BY <1>1, <1>13 DEF Writes, Inode
  <2>2. proc[p].at = "write_bread" /\ s = proc[p].ip /\ i.num # 0
    BY <1>1, <1>13 DEF Writes, ProcInv, Locking
  <2>3. d_inode'[i.num] = Fields(i)
    <3>1. i.num \in Numbers
      BY <1>1, <2>2, InodesAssumption DEF Inode, Numbers
    <3>2. \/ d_inode' = d_inode /\ write_inode_end(p)
          \/ d_inode' = [d_inode EXCEPT ![i.num] = Fields(i)]
      BY <2>2, DiskWritten, ActionAt
    <3>3. CASE write_inode_end(p)
      <4>1. d_inode' = [d_inode EXCEPT ![i.num] = Fields(i)]
        BY <2>2, <3>3 DEF write_inode_end, DiskIndex, Fields
      <4> QED
        BY <3>1, <4>1 DEF IInv, Typed
    <3> QED
      BY <3>1, <3>2, <3>3 DEF IInv, Typed
  <2> QED
    BY <1>1, <1>2, <2>1, <2>2, <2>3 DEF SlotInv, Fields
<1>14. CASE LetsGo(p, s)
  <2>1. /\ j.num = i.num /\ j.nlinks = i.nlinks /\ j.zone = i.zone /\ j.dirt = i.dirt /\ j.lock = i.lock /\ ~i.lock
        /\ j.count = i.count - 1 /\ i.count \in Nat /\ j.count \in Nat
        /\ i.count > 1 \/ i.num = 0 \/ (i.nlinks # 0 /\ ~i.dirt)
    BY <1>1, <1>14 DEF LetsGo, Inode
  <2>2. ~Writes(p, s)
    BY <1>14 DEF LetsGo, Writes
  <2> QED
    BY <1>1, <1>2, <1>3, <2>1, <2>2 DEF SlotInv
<1>15. CASE Discards(p, s)
  BY <1>1, <1>2, <1>15 DEF Discards, ZeroInode, Loaded
<1>16. CASE Allocates(p, s)
  <2>1. j.num \in Numbers /\ j.count = 1 /\ j.nlinks = 1 /\ j.dirt
    BY <1>1, <1>16 DEF Allocates, Inode
  <2> QED
    BY <1>1, <1>2, <2>1 DEF Numbers
<1>17. CASE Edits(p, s)
  <2>1. i.num # 0 /\ i.count \in Nat /\ i.count >= 1
    BY <1>17, EditedHasNumber
  <2>2. /\ j.num = i.num /\ j.count = i.count /\ (i.dirt => j.dirt)
        /\ proc[p].at \in EditLabels /\ s = proc[p].ip
        /\ proc[p].at # "bread" => j.dirt \/ j.nlinks = 0
        /\ proc[p].at = "bread" => j.nlinks = i.nlinks /\ j.zone = i.zone
    BY <1>17 DEF Edits
  <2>3. Loaded(s)' /\ ~j.dirt /\ j.nlinks # 0 => d_inode'[j.num] = Fields(j)
    <3>1. ~Writes(p, s)
      BY <2>2 DEF Writes, EditLabels
    <3> QED
      BY <1>3, <2>2, <3>1
  <2>4. j.nlinks <= DirSize
    <3>1. i.nlinks \in Nat /\ i.nlinks <= DirSize
      BY <1>1 DEF SlotInv, Inode
    <3>2. j.nlinks = i.nlinks \/ j.nlinks = 0 \/ j.nlinks = i.nlinks - 1 \/ (proc[p].at = "link_count" /\ j.nlinks = i.nlinks + 1)
      BY <1>17 DEF Edits
    <3> QED
      BY <1>1, <2>2, <3>1, <3>2
  <2> QED
    BY <1>2, <2>1, <2>2, <2>3, <2>4
<1> QED
  BY <1>5, <1>6, <1>7, <1>8, <1>9, <1>10, <1>11, <1>12, <1>13, <1>14, <1>15, <1>16, <1>17 DEF Change

(* The newest copy of an inode *)

\* The newest copy is in the slot, once it is read in.
LEMMA NowIs ==
  ASSUME UniqueInode, NEW s \in Slots, Loaded(s)
  PROVE  Now(inode[s].num) = Fields(inode[s])
<1> DEFINE n == inode[s].num
           t == CHOOSE x \in Slots : Loaded(x) /\ inode[x].num = n
<1>1. t \in Slots /\ Loaded(t) /\ inode[t].num = n
  OBVIOUS
<1>2. t = s
  BY <1>1 DEF UniqueInode, Loaded
<1> HIDE DEF t
<1>3. Now(n) = Fields(inode[t])
  BY DEF Now, t
<1> QED
  BY <1>2, <1>3

\* Otherwise it is on the disk.
LEMMA NowOnDisk ==
  ASSUME NEW n, \A s \in Slots : ~(Loaded(s) /\ inode[s].num = n)
  PROVE  Now(n) = d_inode[n]
BY DEF Now

\* Entries are few.
LEMMA LinksAre ==
  ASSUME NEW n
  PROVE  /\ LinksOf(n) \subseteq Entries /\ IsFiniteSet(LinksOf(n)) /\ IsFiniteSet(Entries)
         /\ Cardinality(LinksOf(n)) \in Nat /\ Cardinality(LinksOf(n)) <= DirSize
         /\ \A e \in LinksOf(n) : Cardinality(LinksOf(n)) >= 1
<1>1. Entries = 1..DirSize /\ DirSize \in Nat
  BY FilesAssumption DEF Entries
<1>2. IsFiniteSet(Entries) /\ Cardinality(Entries) = DirSize
  BY <1>1, FS_Interval
<1>3. LinksOf(n) \subseteq Entries
  BY DEF LinksOf
<1>4. IsFiniteSet(LinksOf(n)) /\ Cardinality(LinksOf(n)) <= Cardinality(Entries)
  BY <1>2, <1>3, FS_Subset
<1>5. Cardinality(LinksOf(n)) \in Nat
  BY <1>4, FS_CardinalityType
<1>6. ASSUME NEW e \in LinksOf(n) PROVE Cardinality(LinksOf(n)) >= 1
  <2>1. LinksOf(n) # {}
    BY <1>6
  <2>2. Cardinality(LinksOf(n)) # 0
    BY <1>4, <2>1, FS_EmptySet
  <2> QED
    BY <1>5, <2>2
<1> QED
  BY <1>2, <1>3, <1>4, <1>5, <1>6

\* A pending entry has a name of the process that links.
LEMMA PendingIs ==
  ASSUME TablesInv, NEW e, NEW p \in Procs, CallAt(proc[p]) = "link_count", proc[p].de = e
  PROVE  /\ e \in Entries /\ dir[e].name \in Mine(calls, p) /\ dir[e].name \notin Lasting(calls)
         /\ dir[e].ino = inode[Caller(proc[p]).ip].num
BY DEF TablesInv, NamesInv, Named, Mine

\* A file with a lasting name is linked.
LEMMA PublicLinked ==
  ASSUME TablesInv, NEW n \in Public(calls)
  PROVE  /\ n \in imap
         /\ \E e \in LinksOf(n) : dir[e].name \in Lasting(calls) /\ dir[e].ino = n
<1>1. PICK e \in Entries : InitialDir[e].name \in Lasting(calls) /\ InitialDir[e].ino = n /\ n # 0
  BY DEF Public
<1>2. dir[e] = InitialDir[e] /\ n \in imap
  BY <1>1 DEF TablesInv, DirInv
<1>3. ~Pending(e)
  BY <1>1, <1>2, PendingIs DEF Pending
<1> QED
  BY <1>1, <1>2, <1>3 DEF LinksOf

\* What is held by the only process that holds it, is read in.
LEMMA AloneLoaded ==
  ASSUME IInv, NEW q \in Procs, ~Reading(proc[q]), NEW s \in Slots, Holds(q, s), inode[s].count = 1, inode[s].num # 0
  PROVE  Loaded(s)
<1>1. ASSUME NEW r \in Procs, Reading(proc[r]), proc[r].ip = s PROVE FALSE
  <2>1. Holds(r, s)
    BY <1>1, ReaderHolds
  <2>2. r # q
    BY <1>1
  <2> QED
    BY <2>1, <2>2, HoldersCount
<1> QED
  BY <1>1 DEF Loaded

\* Who has created an inode holds it.
LEMMA CreatorHolds ==
  ASSUME IInv, NEW r \in Procs, Created(proc[r]) # 0
  PROVE  /\ Created(proc[r]) \in Slots /\ Holds(r, Created(proc[r])) /\ inode[Created(proc[r])].num # 0
         /\ proc[r].at \in {"open_new", "add_entry", "open_added"}
<1> DEFINE f == proc[r]
           c == Caller(f)
<1>0. f \in Process /\ Shape(f) /\ StackFits(f) /\ Holding(f)
  BY HereIs DEF IInv, Held
<1>1. c.at \in {"open_new", "open_added"} /\ c.ip # 0 /\ Created(f) = c.ip
  BY DEF Created, CallAt
<1>2. CASE f.stack = <<>>
  <2>1. c = Frame(f.at, f.ip)
    BY <1>2 DEF Caller
  <2>2. f.at \in {"open_new", "open_added"} /\ f.ip = c.ip /\ f.ip \in SlotOr0
    BY <1>0, <1>1, <2>1, FrameIs DEF Process
  <2>3. Own(f) = f.ip /\ Empty(f) = 0
    BY <2>2 DEF Own, Counted, Empty, Searches
  <2> QED
    BY <1>0, <1>1, <2>2, <2>3, SlotsAre DEF Holding, Holds
<1>3. CASE f.stack # <<>>
  <2>1. f.at = "add_entry"
    <3>1. f.at \in Labels /\ f.at \notin Top \cup {"user"}
      BY <1>0, <1>3, HeadsAre DEF Process
    <3>2. /\ f.at \notin {"find_entry", "iput_dir", "iget_search", "iget_wait", "read_inode", "read_bread",
                "iput_again", "free_inode", "sync_inodes", "truncate", "free_block", "create_block", "getblk"}
      BY <1>0, <1>1, <1>3, HeadsAre DEF Searches, Got, CallAt
    <3>3. f.at \notin {"get_empty_inode", "gei_wait", "new_inode", "iput"}
      BY <1>0, <1>1, <1>3, HeadsAre DEF Got, CallAt
    <3>4. f.at \notin {"write_inode", "write_bread"}
      <4> SUFFICES ASSUME f.at \in {"write_inode", "write_bread"} PROVE FALSE
        OBVIOUS
      <4>1. WriteStack(f)
        BY <1>0 DEF StackFits
      <4>2. Head(f.stack).at = "gei_wait"
        BY <1>0, <1>1, <1>3, HeadsAre DEF CallAt
      <4>3. \E s \in Slots : f.stack = <<Frame("gei_wait", s), Frame("new_inode", 0), Frame("open_new", 0)>>
        <5>1. \A s, a : Frame(a, s).at = a
          BY FrameIs
        <5>2. ASSUME NEW s \in Slots, NEW a \in Got, f.stack = <<Frame("gei_wait", s), Frame("iget_search", 0), Frame(a, 0)>> PROVE FALSE
          <6>1. c = Frame(a, 0)
            BY <1>3, <5>2 DEF Caller
          <6> QED
            BY <1>1, <6>1, FrameIs
        <5>3. f.stack # <<Frame("user", 0)>>
          BY <4>2, FrameIs, Stacking
        <5>4. ASSUME NEW s \in Slots PROVE f.stack # <<Frame("sync_inodes", s), Frame("user", 0)>>
          BY <4>2, FrameIs, Stacking
        <5>5. ASSUME NEW s \in Slots, NEW t \in SlotOr0 PROVE f.stack # <<Frame("iput_again", s), Frame("user", t)>>
          BY <4>2, FrameIs, Stacking
        <5> QED
          BY <4>1, <5>2, <5>3, <5>4, <5>5 DEF WriteStack
      <4>4. PICK s \in Slots : f.stack = <<Frame("gei_wait", s), Frame("new_inode", 0), Frame("open_new", 0)>>
        BY <4>3
      <4>5. c = Frame("open_new", 0)
        BY <1>3, <4>4 DEF Caller
      <4> QED
        BY <1>1, <4>5, FrameIs
    <3> QED
      BY <3>1, <3>2, <3>3, <3>4 DEF Labels, Waits, Yields, Top
  <2>2. PICK a \in {"open_added", "link_added"}, s \in Slots : f.stack = <<Frame(a, s)>>
    BY <1>0, <2>1 DEF StackFits, AddStack
  <2>3. c = Frame(a, s) /\ Head(f.stack) = Frame(a, s)
    BY <1>3, <2>2, Stacking DEF Caller
  <2>4. a \in Counted /\ s = c.ip
    BY <2>3, FrameIs DEF Counted
  <2>5. Below(f) = s
    BY <1>3, <2>3, <2>4, FrameIs DEF Below
  <2> QED
    BY <1>0, <1>1, <2>1, <2>4, <2>5, SlotsAre DEF Holding, Holds
<1> QED
  BY <1>2, <1>3

(* Labels, and what a process that sleeps still knows *)

\* Where a caller's label stands on the stack
LEMMA HeadLabels ==
  ASSUME NEW f \in Process, StackFits(f)
  PROVE  /\ HeadAt(f, "gei_wait") \/ HeadAt(f, "iput_again") => f.at \in {"write_inode", "write_bread"}
         /\ HeadAt(f, "free_inode") \/ HeadAt(f, "open_done") => f.at \in {"truncate", "free_block"}
<1>1. f.at \in Labels
  BY DEF Process
<1> DEFINE a == Head(f.stack).at
<1>2. f.stack # <<>> => f.at \notin Top \cup {"user"}
  BY HeadsAre
<1>3. f.at \in {"find_entry", "add_entry", "iput_dir", "get_empty_inode", "iget_search", "iget_wait", "gei_wait", "read_inode", "read_bread",
        "new_inode", "iput", "iput_again", "free_inode", "sync_inodes", "create_block", "getblk"}
        => a \notin {"gei_wait", "iput_again", "free_inode", "open_done"}
  BY HeadsAre DEF Searches, Got
<1>4. f.at \in {"truncate", "free_block"} => a \notin {"gei_wait", "iput_again"}
  BY HeadsAre
<1>5. f.at \in {"write_inode", "write_bread"} => a \notin {"free_inode", "open_done"}
  BY HeadsAre
<1> QED
  BY <1>1, <1>2, <1>3, <1>4, <1>5 DEF HeadAt, Labels, Waits, Yields, Top

\* Who frees an inode is its only holder.
LEMMA FreesHolds ==
  ASSUME IInv, NEW q \in Procs, ProcInv(q), Frees(proc[q])
  PROVE  LET s == proc[q].ip IN
         /\ s \in Slots /\ Holds(q, s) /\ inode[s].count = 1 /\ inode[s].nlinks = 0 /\ inode[s].num # 0
         /\ ~Reading(proc[q]) /\ ~Locking(proc[q]) /\ proc[q].at \in {"free_inode", "truncate", "free_block"}
<1> DEFINE f == proc[q]
<1>1. f \in Process /\ StackFits(f) /\ Shape(f)
  BY HereIs
<1>2. f.at \in {"free_inode", "truncate", "free_block"}
  BY <1>1, HeadLabels DEF Frees
<1>3. f.ip \in Slots
  BY <1>2, HereIs DEF HasSlot, Counted
<1>4. CASE f.at = "free_inode"
  BY <1>3, <1>4 DEF ProcInv, Frees, Holds, Own, Counted, Reading, Locking
<1>5. CASE f.at \in {"truncate", "free_block"}
  <2>1. f.stack # <<>> /\ Head(f.stack).ip = f.ip /\ Head(f.stack).at \in Counted
    BY <1>1, <1>5, HeadsAre DEF ProcInv, Top, Counted
  <2> QED
    BY <1>3, <1>5, <2>1 DEF ProcInv, Holds, Below, Reading, Locking
<1> QED
  BY <1>2, <1>4, <1>5

\* No inode is freed that a process seeks: it has a name.
LEMMA SoughtIsKept ==
  ASSUME IInv, TablesInv, NEW p \in Procs, CallAt(proc[p]) \in Seeks, NEW q \in Procs, q # p, Frees(proc[q])
  PROVE  inode[proc[q].ip].num # proc[p].nr
<1> DEFINE s == proc[q].ip
           n == inode[s].num
<1> SUFFICES ASSUME n = proc[p].nr PROVE FALSE
  OBVIOUS
<1>1. /\ s \in Slots /\ Holds(q, s) /\ inode[s].count = 1 /\ inode[s].nlinks = 0 /\ n # 0 /\ ~Reading(proc[q])
      /\ proc[q].at \in {"free_inode", "truncate", "free_block"}
  BY FreesHolds DEF TablesInv
<1>2. Loaded(s)
  BY <1>1, AloneLoaded
<1>3. Now(n).nlinks = 0
  <2>1. Now(n) = Fields(inode[s])
    BY <1>1, <1>2, NowIs DEF TablesInv
  <2> QED
    BY <1>1, <2>1 DEF Fields
<1>4. n \in imap
  BY <1>1 DEF TablesInv, MarkedInUse
<1>5. ~BeingCreated(n)
  <2> SUFFICES ASSUME NEW r \in Procs, Created(proc[r]) # 0, inode[Created(proc[r])].num = n PROVE FALSE
    BY DEF BeingCreated
  <2>1. Created(proc[r]) \in Slots /\ Holds(r, Created(proc[r])) /\ proc[r].at \in {"open_new", "add_entry", "open_added"}
    BY CreatorHolds
  <2>2. Created(proc[r]) = s
    BY <1>1, <2>1 DEF TablesInv, UniqueInode
  <2>3. r # q
    BY <1>1, <2>1
  <2> QED
    BY <1>1, <2>1, <2>2, <2>3, HoldersCount
<1>6. LinksOf(n) = {}
  <2>1. Cardinality(LinksOf(n)) = 0
    BY <1>3, <1>4, <1>5 DEF TablesInv, LinkInv
  <2> QED
    BY <2>1, LinksAre
<1>7. n \notin Public(calls)
  BY <1>6, PublicLinked
<1>8. PICK e \in Entries : dir[e].ino = n /\ dir[e].name \in Mine(calls, p)
  BY <1>7 DEF TablesInv, NamesInv, SeekInv, NamesInode
<1>9. PICK r \in Procs : CallAt(proc[r]) = "link_count" /\ proc[r].de = e
  BY <1>6, <1>8 DEF LinksOf, Pending
<1>10. dir[e].name \in Mine(calls, r)
  BY <1>9, PendingIs
<1>11. r = p
  BY <1>8, <1>10 DEF TablesInv, RaceFree
<1> QED
  BY <1>9, <1>11 DEF Seeks, Got

\* A process stays where it is only when the kernel panics.
LEMMA Stuck ==
  ASSUME IInv, IInv', TablesInv, NEW p \in Procs, Step(p), proc'[p].at = proc[p].at, proc[p].at \in Shown
  PROVE  proc[p].at \in {"free_block", "free_inode"} /\ proc'[p] = proc[p] /\ inode' = inode /\ d_inode' = d_inode
<1> DEFINE f == proc[p]
<1>0. f \in Process /\ StackFits(f) /\ ProcInv(p) /\ FileInv(p) /\ \A s \in Slots : SlotInv(s)
  BY HereIs DEF TablesInv
<1>1. f.at # "gei_wait"
  <2> SUFFICES ASSUME f.at = "gei_wait" PROVE FALSE
    OBVIOUS
  <2>1. get_empty_inode_loop(p) /\ f.ip \in Slots
    BY ActionAt, HereIs DEF HasSlot
  <2>2. proc'[p].at \in {"iget_search", "new_inode"}
    BY <1>0, <2>1, SheetGetEmptyInodeLoop, HeadsAre
  <2> QED
    BY <2>2
<1>2. f.at \notin {"read_inode", "read_bread"}
  BY ReadsNext DEF Reading
<1>3. ASSUME f.at \in {"write_inode", "write_bread"} PROVE FALSE
  <2>1. f.stack # <<>> /\ Head(f.stack).at \in {"user", "sync_inodes", "iput_again", "gei_wait"}
    BY <1>0, <1>3, HeadsAre DEF Top
  <2>2. Returns(f).at \in {"user", "sync_inodes", "iput_again", "gei_wait"}
    BY <1>0, <2>1, ReturnKeepsCall
  <2>3. [f EXCEPT !.at = "write_bread"].at = "write_bread"
    BY <1>0 DEF Process
  <2>4. CASE f.at = "write_inode"
    <3>1. write_inode(p)
      BY <2>4, ActionAt
    <3>2. At(p, "write_inode") /\ (Goto(p, Returns(f)) \/ Goto(p, [f EXCEPT !.at = "write_bread"]))
      BY <3>1 DEF write_inode
    <3> QED
      BY <2>2, <2>3, <2>4, <3>2, WentTo
  <2>5. CASE f.at = "write_bread"
    <3>1. write_inode_end(p)
      BY <2>5, ActionAt
    <3>2. At(p, "write_bread") /\ Goto(p, Returns(f))
      BY <3>1 DEF write_inode_end
    <3> QED
      BY <2>2, <2>5, <3>2, WentTo
  <2> QED
    BY <1>3, <2>4, <2>5
<1>4. f.at # "truncate"
  BY <1>0, ActionAt, SheetTruncate
<1>5. CASE f.at = "free_block"
  <2> DEFINE k == [Returns(f) EXCEPT !.blk = 0]
  <2>1. free_block(p)
    BY <1>5, ActionAt
  <2>2. f.stack # <<>> /\ Head(f.stack).at \in {"open_done", "free_inode"}
    BY <1>0, <1>5, HeadsAre DEF Top
  <2>3. k.at \in {"open_done", "free_inode"}
    BY <1>0, <2>2 DEF Returns, Process
  <2> HIDE DEF k
  <2>4. ~Goto(p, k)
    BY <1>5, <2>1, <2>3, WentTo DEF free_block
  <2>5. proc' = proc /\ inode' = inode /\ d_inode' = d_inode
    BY <2>1, <2>4 DEF free_block, Panic, k
  <2> QED
    BY <1>5, <2>5
<1>6. CASE f.at = "free_inode"
  <2>1. free_inode(p)
    BY <1>6, ActionAt
  <2>2. Returns(f).at = "user"
    BY <1>0, <1>6, HeadsAre, ReturnKeepsCall DEF Top
  <2>4. ~Goto(p, Returns(f))
    BY <1>6, <2>1, <2>2, WentTo DEF free_inode
  <2>5. proc' = proc /\ inode' = inode /\ d_inode' = d_inode
    BY <2>1, <2>4 DEF free_inode, Panic
  <2> QED
    BY <1>6, <2>5
<1> QED
  BY <1>1, <1>2, <1>3, <1>4, <1>5, <1>6 DEF Shown

\* p comes to such a label with something to show for it, or is stuck.
LEMMA EntersOrStuck ==
  ASSUME IInv, IInv', TablesInv, NEW p \in Procs, Step(p)
  PROVE  Enters(p) \/ (proc'[p] = proc[p] /\ inode' = inode /\ d_inode' = d_inode)
<1>1. Enters(p) \/ proc'[p] = proc[p]
  BY Moment DEF Sheet
<1>2. CASE proc'[p] = proc[p] /\ proc[p].at \in Shown
  BY <1>2, Stuck
<1>3. CASE proc'[p] = proc[p] /\ proc[p].at \notin Shown
  BY <1>3 DEF Enters, Shown
<1> QED
  BY <1>1, <1>2, <1>3

\* A slot locked by another is changed by its holder only.
LEMMA LockedStays ==
  ASSUME IInv, IInv', TablesInv, NEW p \in Procs, Step(p), NEW q \in Procs \ {p}, Locking(proc[q])
  PROVE  LET s == proc[q].ip IN s \in Slots /\ (inode'[s] = inode[s] \/ Edits(p, s))
<1> DEFINE s == proc[q].ip
<1>1. s \in Slots
  BY HereIs DEF Locking, HasSlot, Counted
<1>2. inode[s].lock /\ inode[s].num # 0 /\ ProcInv(p) /\ SlotInv(s)
  BY <1>1 DEF TablesInv, ProcInv
<1>3. Change(p, s)
  BY <1>1, Moment DEF Sheet
<1>4. ~Takes(p, s) /\ ~LocksToRead(p, s) /\ ~LocksToWrite(p, s) /\ ~LetsGo(p, s)
  BY <1>2 DEF Takes, LocksToRead, LocksToWrite, LetsGo
<1>5. ~Clears(p, s)
  BY <1>2 DEF Clears, SlotInv
<1>6. ~Loads(p, s) /\ ~Writes(p, s)
  BY DEF TablesInv, LocksInv, Locking, Loads, Writes
<1>7. ~Discards(p, s)
  BY DEF TablesInv, LocksInv, Frees, Discards
<1>8. ~GivesNumber(p, s) /\ ~Allocates(p, s)
  <2> SUFFICES ASSUME GivesNumber(p, s) \/ Allocates(p, s) PROVE FALSE
    OBVIOUS
  <2>1. s = Empty(proc[p])
    BY DEF GivesNumber, Allocates, Empty, Searches
  <2>2. Holding(proc[p])
    BY DEF IInv, Held
  <2> QED
    BY <1>1, <1>2, <2>1, <2>2, SlotsAre DEF Holding
<1> QED
  BY <1>1, <1>3, <1>4, <1>5, <1>6, <1>7, <1>8 DEF Change

(* What others leave alone *)

\* A slot that only q holds is changed by nobody else, but for the lock and the dirt of
\* a write, and for iget().
LEMMA OwnedStays ==
  ASSUME IInv, IInv', TablesInv, NEW p \in Procs, Step(p), NEW q \in Procs \ {p}, NEW s \in Slots,
         Holds(q, s), inode[s].count = 1
  PROVE  inode'[s] = inode[s] \/ Takes(p, s) \/ LocksToWrite(p, s) \/ Writes(p, s)
<1>1. ~Holds(p, s)
  BY HoldersCount
<1>2. Change(p, s)
  BY Moment DEF Sheet
<1>3. ~Clears(p, s)
  BY DEF Clears
<1>4. ~GivesNumber(p, s) /\ ~Allocates(p, s) /\ ~LocksToRead(p, s) /\ ~Loads(p, s) /\ ~LetsGo(p, s) /\ ~Discards(p, s)
  BY <1>1 DEF GivesNumber, Allocates, LocksToRead, Loads, LetsGo, Discards, Holds, Own, Counted, Searches
<1>5. ~Edits(p, s)
  BY <1>1 DEF Edits
<1> QED
  BY <1>2, <1>3, <1>4, <1>5 DEF Change

\* The others
LEMMA OthersProcStays ==
  ASSUME IInv, IInv', TablesInv, NEW p \in Procs, Step(p), NEW q \in Procs \ {p}
  PROVE  ProcInv(q)'
<1> DEFINE f == proc[q]
           s == f.ip
<1>1. ProcInv(q) /\ proc'[q] = f /\ f.at \notin {"gei_wait", "read_inode"} /\ f.at \in Asleep
  BY Moment, OthersSleep DEF TablesInv
<1>2. Locking(f) => inode'[s].lock /\ inode'[s].num # 0
  <2> SUFFICES ASSUME Locking(f) PROVE inode'[s].lock /\ inode'[s].num # 0
    OBVIOUS
  <2>1. inode'[s] = inode[s] \/ Edits(p, s)
    BY LockedStays
  <2>2. inode'[s].lock = inode[s].lock /\ inode'[s].num = inode[s].num
    BY <2>1 DEF Edits
  <2> QED
    BY <1>1, <2>2 DEF ProcInv
<1>3. Reading(f) => inode'[s] = inode[s]
  <2> SUFFICES ASSUME Reading(f) PROVE inode'[s] = inode[s]
    OBVIOUS
  <2>1. s \in Slots /\ Holds(q, s)
    BY ReaderHolds
  <2>2. inode[s].count = 1 /\ Locking(f)
    BY <1>1 DEF ProcInv, Reading, Locking
  <2>3. inode'[s] = inode[s] \/ Edits(p, s)
    BY <2>2, LockedStays
  <2>4. ~Edits(p, s)
    BY <2>1, <2>2, HoldersCount DEF Edits
  <2> QED
    BY <2>3, <2>4
<1>4. Frees(f) => inode'[s].nlinks = 0 /\ inode'[s].count = 1 /\ inode'[s].num # 0
  <2> SUFFICES ASSUME Frees(f) PROVE inode'[s].nlinks = 0 /\ inode'[s].count = 1 /\ inode'[s].num # 0
    OBVIOUS
  <2>1. s \in Slots /\ Holds(q, s) /\ inode[s].count = 1 /\ inode[s].nlinks = 0 /\ inode[s].num # 0 /\ inode[s] \in Inode
    BY <1>1, FreesHolds, Moment
  <2>2. inode'[s] = inode[s] \/ Takes(p, s) \/ LocksToWrite(p, s) \/ Writes(p, s)
    BY <2>1, OwnedStays
  <2>3. ~Takes(p, s)
    <3> SUFFICES ASSUME Takes(p, s) PROVE FALSE
      OBVIOUS
    <3>1. proc[p].at = "iget_wait" /\ inode[s].num = proc[p].nr
      BY DEF Takes
    <3>2. CallAt(proc[p]) \in Seeks
      <4>1. Head(proc[p].stack).at \in Got /\ CallAt(proc[p]) = Head(proc[p].stack).at
        BY <3>1, HereIs, HeadsAre DEF Searches, Top
      <4> QED
        BY <4>1 DEF Seeks
    <3> QED
      BY <3>1, <3>2, SoughtIsKept
  <2>4. inode'[s].nlinks = inode[s].nlinks /\ inode'[s].count = inode[s].count /\ inode'[s].num = inode[s].num
    BY <2>1, <2>2, <2>3 DEF LocksToWrite, Writes, Inode
  <2> QED
    BY <2>1, <2>4
<1>5. f.at # "free_inode"
  BY <1>1 DEF Asleep, Waits, Yields
<1> QED
  BY <1>1, <1>2, <1>3, <1>4, <1>5 DEF ProcInv, Reading, Locking, Frees, HeadAt

\* p itself
LEMMA OwnProcStays ==
  ASSUME IInv, IInv', TablesInv, NEW p \in Procs, Step(p)
  PROVE  ProcInv(p)'
<1> DEFINE f == proc[p]
           g == proc'[p]
<1>0. /\ f \in Process /\ StackFits(f) /\ g \in Process /\ StackFits(g) /\ ProcInv(p) /\ Shape(f) /\ Shape(g)
      /\ inode \in [Slots -> Inode] /\ inode' \in [Slots -> Inode]
  BY Moment DEF TablesInv
<1>1. \A s \in Slots : inode[s].num = 0 => inode[s].nlinks = 0 /\ inode[s].zone = 0 /\ ~inode[s].dirt /\ ~inode[s].lock
  BY DEF TablesInv, SlotInv
<1>2. CASE g = f /\ inode' = inode /\ d_inode' = d_inode
  <2>1. f.at \in Shown => f.at \in {"free_block", "free_inode"}
    BY <1>2, Stuck
  <2> QED
    BY <1>0, <1>2, <2>1 DEF ProcInv, Reading, Locking, Frees, HeadAt, Shown
<1>3. CASE Enters(p)
  <2>1. g.at = "gei_wait" => inode'[g.ip].count = 0 /\ (panic' = "" => cpu' = p)
    <3> SUFFICES ASSUME g.at = "gei_wait" PROVE inode'[g.ip].count = 0 /\ (panic' = "" => cpu' = p)
      OBVIOUS
    <3>1. inode' = inode /\ inode[g.ip].count = 0 /\ (inode[g.ip].lock \/ cpu' = p)
      BY <1>3 DEF Enters
    <3>2. g.ip \in Slots
      BY <1>0 DEF Shape, HasSlot
    <3>3. ~inode[g.ip].lock
      BY <3>1, <3>2 DEF TablesInv, SlotInv
    <3> QED
      BY <3>1, <3>3
  <2>2. ~HeadAt(g, "gei_wait")
    <3> SUFFICES ASSUME HeadAt(g, "gei_wait") PROVE FALSE
      OBVIOUS
    <3>1. g.at \in {"write_inode", "write_bread"}
      BY <1>0, HeadLabels
    <3> QED
      BY <1>0, <1>3, <3>1 DEF Enters, HeadAt, ProcInv
  <2>3. g.at = "read_inode" => /\ inode'[g.ip].count = 1 /\ inode'[g.ip].nlinks = 0 /\ inode'[g.ip].zone = 0 /\ ~inode'[g.ip].dirt
                               /\ (panic' = "" => cpu' = p)
    <3> SUFFICES ASSUME g.at = "read_inode"
                 PROVE /\ inode'[g.ip].count = 1 /\ inode'[g.ip].nlinks = 0 /\ inode'[g.ip].zone = 0 /\ ~inode'[g.ip].dirt
                       /\ (panic' = "" => cpu' = p)
      OBVIOUS
    <3> DEFINE s == g.ip
    <3>1. GivesNumber(p, s) /\ (inode'[s].lock \/ cpu' = p) /\ s \in Slots
      BY <1>0, <1>3 DEF Enters, Shape, HasSlot, Counted
    <3>2. f.at = "iget_search" /\ s = f.empty
      BY <3>1 DEF GivesNumber
    <3>3. Holding(f)
      BY DEF IInv, Held
    <3>4. inode[s].num = 0 /\ inode[s].count = 1
      BY <3>1, <3>2, <3>3, SlotsAre DEF Holding, Empty, Searches
    <3>5. inode'[s].count = inode[s].count /\ inode'[s].nlinks = inode[s].nlinks /\ inode'[s].zone = inode[s].zone
          /\ inode'[s].dirt = inode[s].dirt /\ inode'[s].lock = inode[s].lock
      BY <1>0, <3>1 DEF GivesNumber, Inode
    <3> QED
      BY <1>1, <3>1, <3>4, <3>5
  <2>4. g.at = "read_bread" => /\ inode'[g.ip].count = 1 /\ inode'[g.ip].nlinks = 0 /\ inode'[g.ip].zone = 0 /\ ~inode'[g.ip].dirt
                               /\ inode'[g.ip].lock /\ inode'[g.ip].num # 0
    <3> SUFFICES ASSUME g.at = "read_bread"
                 PROVE /\ inode'[g.ip].count = 1 /\ inode'[g.ip].nlinks = 0 /\ inode'[g.ip].zone = 0 /\ ~inode'[g.ip].dirt
                       /\ inode'[g.ip].lock /\ inode'[g.ip].num # 0
      OBVIOUS
    <3> DEFINE s == g.ip
    <3>1. LocksToRead(p, s) /\ s \in Slots
      BY <1>0, <1>3 DEF Enters, Shape, HasSlot, Counted
    <3>2. f.at = "read_inode" /\ s = f.ip
      BY <3>1 DEF LocksToRead
    <3>3. inode[s].num # 0 /\ inode[s].count = 1 /\ inode[s].nlinks = 0 /\ inode[s].zone = 0 /\ ~inode[s].dirt
      BY <1>0, <3>2, ReaderHolds DEF ProcInv, Reading
    <3> QED
      BY <1>0, <3>1, <3>3 DEF LocksToRead, Inode
  <2>5. g.at = "write_bread" => inode'[g.ip].lock /\ inode'[g.ip].num # 0
    <3> SUFFICES ASSUME g.at = "write_bread" PROVE inode'[g.ip].lock /\ inode'[g.ip].num # 0
      OBVIOUS
    <3>1. LocksToWrite(p, g.ip) /\ g.ip \in Slots
      BY <1>0, <1>3 DEF Enters, Shape, HasSlot, Counted
    <3> QED
      BY <1>0, <3>1 DEF LocksToWrite, Inode
  <2>6. g.at = "free_inode" => inode'[g.ip].nlinks = 0 /\ inode'[g.ip].count = 1 /\ inode'[g.ip].num # 0 /\ inode'[g.ip].zone = 0
    <3> SUFFICES ASSUME g.at = "free_inode"
                 PROVE inode'[g.ip].nlinks = 0 /\ inode'[g.ip].count = 1 /\ inode'[g.ip].num # 0 /\ inode'[g.ip].zone = 0
      OBVIOUS
    <3>1. f.at \in {"truncate", "free_block"} /\ HeadAt(f, "free_inode") /\ g.ip = Head(f.stack).ip
          /\ Edits(p, f.ip) /\ inode'[f.ip].zone = 0
      BY <1>3 DEF Enters
    <3>2. g.ip = f.ip /\ inode[f.ip].nlinks = 0 /\ inode[f.ip].count = 1 /\ inode[f.ip].num # 0
      BY <1>0, <3>1 DEF ProcInv, Frees
    <3> QED
      BY <3>1, <3>2 DEF Edits
  <2>7. HeadAt(g, "free_inode") => inode'[g.ip].nlinks = 0 /\ inode'[g.ip].count = 1 /\ inode'[g.ip].num # 0
    <3> SUFFICES ASSUME HeadAt(g, "free_inode") PROVE inode'[g.ip].nlinks = 0 /\ inode'[g.ip].count = 1 /\ inode'[g.ip].num # 0
      OBVIOUS
    <3>1. g.at \in {"truncate", "free_block"}
      BY <1>0, HeadLabels
    <3>2. CASE g.at = "free_block"
      <4>1. inode' = inode /\ f.at = "truncate" /\ g.ip = f.ip /\ g.stack = f.stack
        BY <1>3, <3>2 DEF Enters
      <4> QED
        BY <1>0, <4>1 DEF ProcInv, Frees, HeadAt
    <3>3. CASE g.at = "truncate"
      <4>1. /\ inode' = inode /\ Head(g.stack).ip = g.ip /\ g.ip = f.ip
            /\ f.at \in {"iput", "iput_again"} /\ inode[g.ip].nlinks = 0 /\ inode[g.ip].count <= 1
        BY <1>3, <3>3 DEF Enters, HeadAt
      <4>2. g.ip \in Slots /\ Holds(p, g.ip)
        BY <1>0, <3>3, <4>1 DEF Shape, HasSlot, Holds, Own, Counted
      <4>3. inode[g.ip].count = 1
        BY <4>1, <4>2, HoldersCount
      <4>4. Below(g) = g.ip
        BY <4>1 DEF HeadAt, Below, Counted
      <4>5. inode'[g.ip].num # 0
        <5>1. (Below(proc[p]) # 0 => inode[Below(proc[p])].num # 0)'
          BY DEF IInv, Held, Holding
        <5>2. Below(g) # 0 => inode'[Below(g)].num # 0
          BY <5>1 DEF Below
        <5> QED
          BY <4>2, <4>4, <5>2, SlotsAre
      <4> QED
        BY <4>1, <4>3, <4>5
    <3> QED
      BY <3>1, <3>2, <3>3
  <2>8. g.at \in {"truncate", "free_block"} \/ HeadAt(g, "iput_again") => Head(g.stack).ip = g.ip
    <3>1. g.at = "truncate" => Head(g.stack).ip = g.ip
      BY <1>3 DEF Enters
    <3>2. g.at = "free_block" => Head(g.stack).ip = g.ip
      BY <1>0, <1>3 DEF Enters, ProcInv
    <3>3. HeadAt(g, "iput_again") => g.at \in {"write_inode", "write_bread"}
      BY <1>0, HeadLabels
    <3>4. HeadAt(g, "iput_again") /\ g.at = "write_inode" => Head(g.stack).ip = g.ip
      BY <1>3 DEF Enters, HeadAt
    <3>5. HeadAt(g, "iput_again") /\ g.at = "write_bread" => Head(g.stack).ip = g.ip
      BY <1>0, <1>3 DEF Enters, HeadAt, ProcInv, LocksToWrite
    <3> QED
      BY <3>1, <3>2, <3>3, <3>4, <3>5
  <2> QED
    BY <2>1, <2>2, <2>3, <2>4, <2>5, <2>6, <2>7, <2>8 DEF ProcInv, Reading, Locking, Frees, HeadAt
<1> QED
  BY <1>2, <1>3, EntersOrStuck

\* An inode is locked by one process, and not while it is freed.
LEMMA LocksStay ==
  ASSUME IInv, IInv', TablesInv, NEW p \in Procs, Step(p)
  PROVE  LocksInv'
<1> DEFINE f == proc[p]
           g == proc'[p]
<1>0. /\ f \in Process /\ StackFits(f) /\ g \in Process /\ StackFits(g) /\ ProcInv(p)
      /\ \A q \in Procs \ {p} : proc'[q] = proc[q]
  BY Moment DEF TablesInv
<1>1. ASSUME NEW q \in Procs \ {p}, Locking(proc[q]) PROVE inode[proc[q].ip].lock
  BY <1>1 DEF TablesInv, ProcInv
<1>2. CASE proc' = proc
  BY <1>2 DEF TablesInv, LocksInv, Locking, Frees, HeadAt
<1>3. CASE Enters(p)
  <2>1. ASSUME NEW q \in Procs \ {p}, Locking(g), Locking(proc[q]) PROVE g.ip # proc[q].ip
    BY <1>1, <1>3, <2>1 DEF Enters, Locking, LocksToRead, LocksToWrite
  <2>2. ASSUME NEW q \in Procs \ {p}, Frees(g), Locking(proc[q]) PROVE g.ip # proc[q].ip
    <3>1. CASE g.at = "truncate"
      <4>1. ~inode[g.ip].lock
        BY <1>3, <2>2, <3>1 DEF Enters, Frees, HeadAt
      <4> QED
        BY <1>1, <2>2, <4>1
    <3>2. CASE g.at # "truncate"
      <4>1. Frees(f) /\ g.ip = f.ip
        <5>1. g.at \in {"free_inode", "free_block"}
          BY <1>0, <2>2, <3>2, HeadLabels DEF Frees
        <5>2. CASE g.at = "free_inode"
          BY <1>0, <1>3, <5>2 DEF Enters, Frees, HeadAt, ProcInv
        <5>3. CASE g.at = "free_block"
          BY <1>3, <2>2, <5>3 DEF Enters, Frees, HeadAt
        <5> QED
          BY <5>1, <5>2, <5>3
      <4> QED
        BY <2>2, <4>1 DEF TablesInv, LocksInv
    <3> QED
      BY <3>1, <3>2
  <2>3. ASSUME NEW q \in Procs \ {p}, Locking(g), Frees(proc[q]) PROVE g.ip # proc[q].ip
    <3> SUFFICES ASSUME g.ip = proc[q].ip PROVE FALSE
      OBVIOUS
    <3> DEFINE s == g.ip
    <3>1. s \in Slots /\ Holds(q, s) /\ inode[s].count = 1 /\ proc[q].at \in {"free_inode", "truncate", "free_block"}
      BY <2>3, FreesHolds DEF TablesInv
    <3>2. ~Holds(p, s)
      BY <3>1, HoldersCount
    <3>3. g.at = "write_bread" /\ f.at = "write_inode" /\ s = f.ip
      <4>1. g.at # "read_bread"
        BY <1>3, <3>2 DEF Enters, LocksToRead, Holds, Own, Counted
      <4> QED
        BY <1>3, <2>3, <4>1 DEF Enters, Locking, LocksToWrite
    <3>4. ~HeadAt(f, "iput_again")
      BY <1>0, <3>2, <3>3 DEF HeadAt, ProcInv, Holds, Below, Counted
    <3>5. f.op = "sync"
      BY <3>3, <3>4 DEF TablesInv, OpInv
    <3>6. Does(calls, p, "sync")
      BY <3>3, <3>5 DEF TablesInv, Asked, Does
    <3>7. inode[s].zone = 0
      BY <3>1, <3>6 DEF TablesInv, SyncInv
    <3>8. proc[q].at = "free_block"
      <4>1. proc[q].at \in Asleep
        BY Moment, OthersSleep DEF TablesInv
      <4> QED
        BY <3>1, <4>1 DEF Asleep, Yields, Waits
    <3> QED
      BY <3>7, <3>8 DEF TablesInv, FileInv
  <2>4. Frees(g) => ~Locking(g)
    <3>1. Frees(g) => g.at \in {"free_inode", "truncate", "free_block"}
      BY <1>0, HeadLabels DEF Frees
    <3> QED
      BY <3>1 DEF Locking
  <2>5. \A q, r \in Procs \ {p} :
          /\ Locking(proc[q]) /\ Locking(proc[r]) /\ proc[q].ip = proc[r].ip => q = r
          /\ Frees(proc[q]) /\ Locking(proc[r]) => proc[q].ip # proc[r].ip
    BY DEF TablesInv, LocksInv
  <2>6. \A q, r \in Procs :
          /\ Locking(proc'[q]) /\ Locking(proc'[r]) /\ proc'[q].ip = proc'[r].ip => q = r
          /\ Frees(proc'[q]) /\ Locking(proc'[r]) => proc'[q].ip # proc'[r].ip
    BY <1>0, <2>1, <2>2, <2>3, <2>4, <2>5
  <2> QED
    BY <2>6 DEF LocksInv, Locking, Frees, HeadAt
<1>4. g = f => proc' = proc
  <2>1. proc \in [Procs -> Process] /\ proc' \in [Procs -> Process]
    BY Moment
  <2> QED
    BY <1>0, <2>1
<1> QED
  BY <1>2, <1>3, <1>4, EntersOrStuck

\* Nothing has a block while somebody may call sync().
LEMMA SyncStays ==
  ASSUME IInv, IInv', TablesInv, NEW p \in Procs, Step(p)
  PROVE  SyncInv'
<1>0. calls' = calls
  BY Moment
<1> SUFFICES ASSUME \E q \in Procs : Does(calls, q, "sync")
             PROVE  /\ \A s \in Slots : inode'[s].zone = 0
                    /\ \A n \in Numbers : d_inode'[n].zone = 0
  BY <1>0 DEF SyncInv, Does
<1>1. (\A s \in Slots : inode[s].zone = 0) /\ (\A n \in Numbers : d_inode[n].zone = 0)
  BY DEF TablesInv, SyncInv
<1>2. ~Does(calls, p, "write")
  BY DEF TablesInv, RaceFree
<1>3. proc[p].at # "getblk"
  <2> SUFFICES ASSUME proc[p].at = "getblk" PROVE FALSE
    OBVIOUS
  <2>1. CallAt(proc[p]) = "write_block"
    BY HereIs, HeadsAre DEF Top
  <2>2. proc[p].op = "write"
    BY <2>1 DEF TablesInv, OpInv
  <2> QED
    BY <1>2, <2>2 DEF TablesInv, Asked, Does
<1>4. ASSUME NEW s \in Slots PROVE inode'[s].zone = 0
  <2>0. inode[s] \in Inode /\ inode[s].zone = 0 /\ Change(p, s)
    BY <1>1, Moment DEF Sheet
  <2>1. CASE Edits(p, s)
    BY <2>0, <1>3, <2>1 DEF Edits
  <2>2. CASE Clears(p, s) \/ Discards(p, s)
    BY <2>2 DEF Clears, Discards, ZeroInode
  <2>3. CASE Loads(p, s)
    <3>1. inode[s].num \in Numbers
      <4>1. inode[s].num # 0 /\ ~Writes(p, s)
        BY <2>3, ReaderHolds DEF Loads, Reading, Writes
      <4> QED
        BY <4>1, DiskKeeps
    <3> QED
      BY <1>1, <2>0, <2>3, <3>1 DEF Loads, Inode
  <2>4. CASE GivesNumber(p, s) \/ Takes(p, s) \/ LocksToRead(p, s)
    BY <2>0, <2>4 DEF GivesNumber, Takes, LocksToRead, Inode
  <2>5. CASE LocksToWrite(p, s) \/ Writes(p, s) \/ LetsGo(p, s)
    BY <2>0, <2>5 DEF LocksToWrite, Writes, LetsGo, Inode
  <2>6. CASE Allocates(p, s)
    BY <2>0, <2>6 DEF Allocates, Inode
  <2> QED
    BY <2>0, <2>1, <2>2, <2>3, <2>4, <2>5, <2>6 DEF Change
<1>5. ASSUME NEW n \in Numbers PROVE d_inode'[n].zone = 0
  <2>1. d_inode \in [Numbers -> [nlinks : Nat, zone : 0..NZones]]
    BY DEF IInv, Typed
  <2>2. CASE d_inode' = d_inode
    BY <1>1, <2>2
  <2>3. CASE d_inode' # d_inode
    <3>1. PICK s \in Slots : d_inode' = [d_inode EXCEPT ![inode[s].num] = Fields(inode[s])]
      BY <2>3, DiskWritten
    <3>2. Fields(inode[s]).zone = 0
      BY <1>1 DEF Fields
    <3> QED
      BY <1>1, <2>1, <3>1, <3>2
  <2> QED
    BY <2>2, <2>3
<1> QED
  BY <1>4, <1>5

\* The disk counts no more links than there are entries.
LEMMA DiskStays ==
  ASSUME IInv, IInv', TablesInv, NEW p \in Procs, Step(p)
  PROVE  DiskInv'
<1>1. d_inode \in [Numbers -> [nlinks : Nat, zone : 0..NZones]]
  BY DEF IInv, Typed
<1>2. \A n \in Numbers : d_inode[n].nlinks <= DirSize
  BY DEF TablesInv, DiskInv
<1>3. \A s \in Slots : inode[s].nlinks <= DirSize
  BY DEF TablesInv, SlotInv
<1>4. \A n \in Numbers : d_inode'[n].nlinks <= DirSize
  <2>2. CASE d_inode' = d_inode
    BY <1>2, <2>2
  <2>3. CASE d_inode' # d_inode
    <3>1. PICK s \in Slots : d_inode' = [d_inode EXCEPT ![inode[s].num] = Fields(inode[s])]
      BY <2>3, DiskWritten
    <3>2. Fields(inode[s]).nlinks <= DirSize
      BY <1>3 DEF Fields
    <3> QED
      BY <1>1, <1>2, <3>1, <3>2
  <2> QED
    BY <2>2, <2>3
<1> QED
  BY <1>4 DEF DiskInv

(* How the newest copies and the entries change *)

\* An empty inode has no number.
LEMMA EmptyIs ==
  ASSUME IInv, NEW p \in Procs, NEW s \in Slots, GivesNumber(p, s) \/ Allocates(p, s)
  PROVE  inode[s].num = 0 /\ inode[s].count = 1 /\ Holds(p, s)
<1>1. s = Empty(proc[p]) /\ s = Own(proc[p])
  BY DEF GivesNumber, Allocates, Empty, Searches, Own, Counted
<1>2. Holding(proc[p])
  BY DEF IInv, Held
<1> QED
  BY <1>1, <1>2, SlotsAre DEF Holding, Holds

\* When a slot changes its number
LEMMA NumberMoves ==
  ASSUME IInv, NEW p \in Procs, NEW s \in Slots, Change(p, s), inode'[s].num # inode[s].num
  PROVE  Clears(p, s) \/ Discards(p, s) \/ (inode[s].num = 0 /\ (GivesNumber(p, s) \/ Allocates(p, s)))
<1>0. inode[s] \in Inode
  BY DEF IInv, Typed
<1>1. ~Edits(p, s)
  BY DEF Edits
<1>2. ~Takes(p, s) /\ ~LetsGo(p, s)
  BY <1>0 DEF Takes, LetsGo, Inode
<1>3. ~LocksToRead(p, s) /\ ~Loads(p, s)
  BY <1>0 DEF LocksToRead, Loads, Inode
<1>4. ~LocksToWrite(p, s) /\ ~Writes(p, s)
  BY <1>0 DEF LocksToWrite, Writes, Inode
<1> QED
  BY <1>1, <1>2, <1>3, <1>4, EmptyIs DEF Change

\* When it changes its links or its block
LEMMA FieldsMove ==
  ASSUME IInv, NEW p \in Procs, NEW s \in Slots, Change(p, s), Fields(inode'[s]) # Fields(inode[s])
  PROVE  Clears(p, s) \/ Discards(p, s) \/ Loads(p, s) \/ Allocates(p, s) \/ Edits(p, s)
<1>0. inode[s] \in Inode
  BY DEF IInv, Typed
<1>2. ~Takes(p, s) /\ ~LetsGo(p, s)
  BY <1>0 DEF Takes, LetsGo, Inode, Fields
<1>3. ~LocksToRead(p, s) /\ ~GivesNumber(p, s)
  BY <1>0 DEF LocksToRead, GivesNumber, Inode, Fields
<1>4. ~LocksToWrite(p, s) /\ ~Writes(p, s)
  BY <1>0 DEF LocksToWrite, Writes, Inode, Fields
<1> QED
  BY <1>2, <1>3, <1>4 DEF Change

\* No two slots get one number: a number that is free in the map is in no slot.
LEMMA UniqueStays ==
  ASSUME IInv, IInv', TablesInv, NEW p \in Procs, Step(p)
  PROVE  UniqueInode'
<1>1. Next
  BY DEF Step, Next
<1> QED
  BY <1>1, StaysUnique DEF TablesInv

\* How the newest copy of an inode changes
NowEdited(p, n) ==
  \E s \in Slots : /\ Loaded(s) /\ Loaded(s)' /\ Edits(p, s) /\ inode[s].num = n /\ inode'[s].num = n
                   /\ Now(n) = Fields(inode[s]) /\ Now(n)' = Fields(inode'[s])
NowDiscarded(p, n) == \E s \in Slots : Discards(p, s) /\ inode[s].num = n
NowAllocated(p, n) ==
  \E s \in Slots : Allocates(p, s) /\ Loaded(s)' /\ inode'[s].num = n /\ Now(n)' = Fields(inode'[s])

\* The primed form, with primes where the provers need them
LEMMA NowIsNext ==
  ASSUME UniqueInode', NEW s \in Slots, Loaded(s)', NEW n, inode'[s].num = n
  PROVE  Now(n)' = Fields(inode'[s])
<1> DEFINE L(x) == inode'[x].num # 0 /\ \A p \in Procs : ~(Reading(proc'[p]) /\ proc'[p].ip = x)
           t == CHOOSE x \in Slots : L(x) /\ inode'[x].num = n
<1>1. \A x : Loaded(x)' <=> L(x)
  BY DEF Loaded, Reading
<1>2. L(s) /\ inode'[s].num = n
  BY <1>1
<1>3. t \in Slots /\ L(t) /\ inode'[t].num = n
  BY <1>2
<1>4. t = s
  BY <1>2, <1>3 DEF UniqueInode
<1>5. Now(n)' = IF \E x \in Slots : L(x) /\ inode'[x].num = n THEN Fields(inode'[t]) ELSE d_inode'[n]
  BY DEF Now, Loaded, Reading, Fields
<1> QED
  BY <1>2, <1>4, <1>5

\* The same of the disk, in the next state
LEMMA NowOnDiskNext ==
  ASSUME NEW n, \A s \in Slots : ~(Loaded(s)' /\ inode'[s].num = n)
  PROVE  Now(n)' = d_inode'[n]
<1> DEFINE L(x) == inode'[x].num # 0 /\ \A p \in Procs : ~(Reading(proc'[p]) /\ proc'[p].ip = x)
           t == CHOOSE x \in Slots : L(x) /\ inode'[x].num = n
<1>1. \A x : Loaded(x)' <=> L(x)
  BY DEF Loaded, Reading
<1>5. Now(n)' = IF \E x \in Slots : L(x) /\ inode'[x].num = n THEN Fields(inode'[t]) ELSE d_inode'[n]
  BY DEF Now, Loaded, Reading, Fields
<1> QED
  BY <1>1, <1>5

\* The newest copy changes only where its inode is edited, freed or created: not
\* when it is read in, written back, or its slot is given away.
LEMMA NowMoves ==
  ASSUME IInv, IInv', TablesInv, NEW p \in Procs, Step(p), NEW n \in Numbers
  PROVE  Now(n)' = Now(n) \/ NowEdited(p, n) \/ NowDiscarded(p, n) \/ NowAllocated(p, n)
<1>0. UniqueInode' /\ UniqueInode /\ n # 0
  BY UniqueStays DEF TablesInv, Numbers
<1>c. \A s \in Slots : Change(p, s) /\ SlotInv(s) /\ inode[s] \in Inode
  BY Moment DEF Sheet, TablesInv
<1>1. ASSUME NEW s \in Slots, Loaded(s), inode[s].num = n
      PROVE  Now(n)' = Now(n) \/ NowEdited(p, n) \/ NowDiscarded(p, n)
  <2>1. Now(n) = Fields(inode[s])
    BY <1>0, <1>1, NowIs
  <2>2. CASE inode'[s].num = n
    <3>1. Loaded(s)'
      BY <1>1, <2>2, LoadedMoves
    <3>2. Now(n)' = Fields(inode'[s])
      BY <1>0, <2>2, <3>1, NowIsNext
    <3>3. CASE Fields(inode'[s]) = Fields(inode[s])
      BY <2>1, <3>2, <3>3
    <3>4. CASE Fields(inode'[s]) # Fields(inode[s])
      <4>1. Clears(p, s) \/ Discards(p, s) \/ Loads(p, s) \/ Allocates(p, s) \/ Edits(p, s)
        BY <1>c, <3>4, FieldsMove
      <4>2. ~Clears(p, s)
        BY <1>0, <2>2 DEF Clears, ZeroInode
      <4>3. ~Loads(p, s)
        BY <1>1 DEF Loads, Loaded, Reading
      <4>4. ~Allocates(p, s)
        BY <1>0, <1>1, EmptyIs
      <4> QED
        BY <1>1, <2>1, <2>2, <3>1, <3>2, <4>1, <4>2, <4>3, <4>4 DEF NowEdited, NowDiscarded
    <3> QED
      BY <3>3, <3>4
  <2>3. CASE inode'[s].num # n
    <3>1. Clears(p, s) \/ Discards(p, s)
      BY <1>0, <1>1, <1>c, <2>3, NumberMoves
    <3>2. CASE Clears(p, s)
      <4>1. proc[p].at = "gei_wait" /\ inode[s].count = 0
        BY <3>2 DEF Clears
      <4>2. d_inode[n] = Fields(inode[s])
        BY <1>0, <1>1, <1>c, <4>1 DEF SlotInv
      <4>3. d_inode' = d_inode
        BY <4>1, Moment DEF Sheet
      <4>4. ASSUME NEW t \in Slots, inode'[t].num = n PROVE FALSE
        <5>1. t # s
          BY <2>3, <4>4
        <5>2. inode[t].num # n
          BY <1>0, <1>1, <5>1 DEF UniqueInode
        <5>3. ~GivesNumber(p, t) /\ ~Allocates(p, t) /\ ~Discards(p, t)
          BY <4>1 DEF GivesNumber, Allocates, Discards
        <5>4. Clears(p, t)
          BY <1>c, <4>4, <5>2, <5>3, NumberMoves
        <5> QED
          BY <1>0, <4>4, <5>4 DEF Clears, ZeroInode
      <4>5. Now(n)' = d_inode'[n]
        BY <4>4, NowOnDiskNext
      <4> QED
        BY <2>1, <4>2, <4>3, <4>5
    <3> QED
      BY <1>1, <3>1, <3>2 DEF NowDiscarded
  <2> QED
    BY <2>2, <2>3
<1>2. ASSUME \A s \in Slots : ~(Loaded(s) /\ inode[s].num = n)
      PROVE  Now(n)' = Now(n) \/ NowAllocated(p, n)
  <2>1. Now(n) = d_inode[n]
    BY <1>2, NowOnDisk
  <2>2. d_inode \in [Numbers -> [nlinks : Nat, zone : 0..NZones]]
    BY DEF IInv, Typed
  <2>3. ASSUME NEW s \in Slots, Loaded(s)', inode'[s].num = n
        PROVE  Now(n)' = Now(n) \/ NowAllocated(p, n)
    <3>1. Now(n)' = Fields(inode'[s])
      BY <1>0, <2>3, NowIsNext
    <3>2. CASE inode[s].num = n
      <4>1. proc[p].at = "read_bread" /\ s = proc[p].ip
        BY <1>2, <2>3, <3>2, LoadedMoves
      <4>2. Loads(p, s)
        BY <4>1, ReadsNext
      <4>3. inode'[s].nlinks = d_inode[n].nlinks /\ inode'[s].zone = d_inode[n].zone
        BY <1>c, <3>2, <4>2 DEF Loads, Inode
      <4>4. Fields(inode'[s]) = d_inode[n]
        BY <2>2, <4>3 DEF Fields
      <4> QED
        BY <2>1, <3>1, <4>4
    <3>3. CASE inode[s].num # n
      <4>1. inode[s].num = 0 /\ (GivesNumber(p, s) \/ Allocates(p, s))
        <5>1. ~Clears(p, s) /\ ~Discards(p, s)
          BY <1>0, <2>3 DEF Clears, Discards, ZeroInode
        <5> QED
          BY <1>c, <2>3, <3>3, <5>1, NumberMoves
      <4>2. Allocates(p, s)
        BY <1>0, <2>3, <4>1, LoadedMoves
      <4> QED
        BY <2>3, <3>1, <4>2 DEF NowAllocated
    <3> QED
      BY <3>2, <3>3
  <2>4. ASSUME \A s \in Slots : ~(Loaded(s)' /\ inode'[s].num = n)
        PROVE  Now(n)' = Now(n)
    <3>1. Now(n)' = d_inode'[n]
      BY <2>4, NowOnDiskNext
    <3>2. CASE d_inode' = d_inode
      BY <2>1, <3>1, <3>2
    <3>3. CASE d_inode' # d_inode
      <4> DEFINE s == proc[p].ip
      <4>1. s \in Slots /\ Writes(p, s) /\ d_inode' = [d_inode EXCEPT ![inode[s].num] = Fields(inode[s])] /\ proc[p].at = "write_bread"
            /\ inode[s].num # 0
        <5>1. s \in Slots /\ Writes(p, s) /\ d_inode' = [d_inode EXCEPT ![inode[s].num] = Fields(inode[s])] /\ proc[p].at = "write_bread"
              /\ inode[s].num \in Numbers
          BY <3>3, DiskWritten
        <5> QED
          BY <5>1 DEF Numbers
      <4>2. Loaded(s)
        <5> SUFFICES ASSUME NEW q \in Procs, Reading(proc[q]), proc[q].ip = s PROVE FALSE
          BY <4>1 DEF Loaded
        <5>1. q # p
          BY <4>1 DEF Reading
        <5>2. proc[q].at = "read_bread"
          BY <5>1, Moment, OthersSleep DEF TablesInv, Reading
        <5> QED
          BY <4>1, <5>1, <5>2 DEF TablesInv, LocksInv, Locking
      <4>3. inode[s].num # n
        BY <1>2, <4>1, <4>2
      <4>4. d_inode'[n] = d_inode[n]
        BY <2>2, <4>1, <4>3
      <4> QED
        BY <2>1, <3>1, <4>4
    <3> QED
      BY <3>2, <3>3
  <2> QED
    BY <2>3, <2>4
<1> QED
  BY <1>1, <1>2

\* The number that a call seeks is one.
LEMMA SoughtHasNumber ==
  ASSUME IInv, NEW p \in Procs, CallAt(proc[p]) \in Got, proc[p].stack # <<>>
  PROVE  proc[p].nr # 0
<1> DEFINE f == proc[p]
<1>0. f \in Process /\ Shape(f) /\ StackFits(f) /\ Holding(f) /\ f.at \in Labels
  BY HereIs DEF IInv, Held, Process
<1>1. f.at \notin Top \cup {"user", "find_entry", "add_entry", "iput_dir", "new_inode", "iput_again", "free_inode", "sync_inodes",
                            "truncate", "free_block", "create_block", "getblk"}
  BY <1>0, HeadsAre DEF Got
<1>2. CASE f.at \in {"get_empty_inode", "gei_wait"}
  <2> SUFFICES ASSUME f.nr = 0 PROVE FALSE
    OBVIOUS
  <2>1. f.stack = <<Frame("new_inode", 0), Frame("open_new", 0)>>
    BY <1>0, <1>2 DEF StackFits, EmptyStack
  <2>2. Caller(f) = Frame("open_new", 0)
    BY <2>1 DEF Caller
  <2> QED
    BY <2>2, FrameIs DEF CallAt, Got
<1>3. CASE f.at \in Searches
  BY <1>0, <1>3 DEF Shape
<1>4. CASE f.at \in {"read_inode", "read_bread"}
  BY <1>4, ReaderHolds DEF Reading
<1>5. CASE f.at = "iput"
  <2>1. Head(f.stack).at \in Got \cup {"open_new", "user"} /\ Tail(f.stack) = <<>> /\ CallAt(f) = Head(f.stack).at
    BY <1>0, <1>5, HeadsAre DEF Top
  <2>2. Head(f.stack).at \in Got
    BY <2>1
  <2>3. PutStack(f) \/ UserStack(f)
    BY <1>0, <1>5 DEF StackFits
  <2>4. PICK a \in Got, s \in Slots : f.stack = <<Frame(a, s)>>
    <3>1. \A x, s : Head(<<Frame(x, s)>>).at = x
      BY Stacking, FrameIs
    <3>2. ~UserStack(f) /\ f.stack # <<Frame("open_new", 0)>>
      BY <2>2, <3>1 DEF UserStack, Got
    <3> QED
      BY <2>3, <3>2 DEF PutStack
  <2>5. Below(f) = s /\ Head(f.stack).at \in Kept /\ s # 0
    <3>1. Head(f.stack) = Frame(a, s)
      BY <2>4, Stacking
    <3> QED
      BY <2>2, <3>1, FrameIs, SlotsAre DEF Below, Got, Kept, Counted
  <2> QED
    BY <1>0, <2>5 DEF Holding
<1>6. CASE f.at \in {"write_inode", "write_bread"}
  <2>1. WriteStack(f)
    BY <1>0, <1>6 DEF StackFits
  <2>2. Head(f.stack).at = "gei_wait"
    BY <1>0, <1>6, HeadsAre DEF Got
  <2> SUFFICES ASSUME f.nr = 0 PROVE FALSE
    OBVIOUS
  <2>3. PICK s \in Slots : f.stack = <<Frame("gei_wait", s), Frame("new_inode", 0), Frame("open_new", 0)>>
    <3>1. f.stack # <<Frame("user", 0)>>
      BY <2>2, FrameIs, Stacking
    <3>2. ASSUME NEW s \in Slots PROVE f.stack # <<Frame("sync_inodes", s), Frame("user", 0)>>
      BY <2>2, FrameIs, Stacking
    <3>3. ASSUME NEW s \in Slots, NEW t \in SlotOr0 PROVE f.stack # <<Frame("iput_again", s), Frame("user", t)>>
      BY <2>2, FrameIs, Stacking
    <3> QED
      BY <2>1, <3>1, <3>2, <3>3 DEF WriteStack
  <2>4. Caller(f) = Frame("open_new", 0)
    BY <2>3 DEF Caller
  <2> QED
    BY <2>4, FrameIs DEF CallAt, Got
<1> QED
  BY <1>0, <1>1, <1>2, <1>3, <1>4, <1>5, <1>6 DEF Labels, Yields, Waits, Top, Searches

\* The name that a process works on is one that it uses.
LEMMA NameIs ==
  ASSUME IInv, TablesInv, NEW p \in Procs, proc[p].at # "user"
  PROVE  /\ proc[p].name \in Names
         /\ CallAt(proc[p]) \in {"unlink_found", "unlink_got"} => proc[p].name \in Mine(calls, p)
<1> DEFINE f == proc[p]
<1>1. PICK c \in calls[p] : c.op = f.op /\ (f.name = c.name \/ (f.op = "link" /\ f.name = c.to /\ CallAt(f) \notin Olds))
  BY DEF TablesInv, Asked
<1>2. c \in SystemCall
  <2>1. calls \in Workloads
    BY DEF IInv, Typed
  <2> QED
    BY <1>1, <2>1, FilesAssumption
<1>3. f.name \in Names
  BY <1>1, <1>2 DEF SystemCall
<1>4. ASSUME CallAt(f) \in {"unlink_found", "unlink_got"} PROVE f.name \in Mine(calls, p)
  <2>1. f.op = "unlink"
    BY <1>4 DEF TablesInv, OpInv
  <2>2. c.op = "unlink" /\ c.name = f.name
    BY <1>1, <2>1
  <2>3. f.name \notin Lasting(calls) /\ Uses(calls[p], f.name)
    BY <1>1, <2>2 DEF Lasting, Uses, NameOps
  <2> QED
    BY <1>3, <2>3 DEF Mine
<1> QED
  BY <1>3, <1>4

\* A free entry gets a name, an entry gets an inode, or loses it.
NamesEntry(p, e) == proc[p].at = "add_entry" /\ dir[e].ino = 0 /\ dir'[e] = [name |-> proc[p].name, ino |-> 0]
LinksEntry(p, e) ==
  /\ proc[p].at \in {"open_added", "link_added"} /\ e = proc[p].de /\ dir[e].ino = 0
  /\ dir'[e] = [dir[e] EXCEPT !.ino = inode[proc[p].ip].num]
UnlinksEntry(p, e) == proc[p].at = "unlink_got" /\ e = proc[p].de /\ dir'[e] = [dir[e] EXCEPT !.ino = 0]

\* An entry changes in these three ways only.
LEMMA DirMoves ==
  ASSUME IInv, IInv', TablesInv, NEW p \in Procs, Step(p), NEW e \in Entries
  PROVE  /\ dir[e] \in [name : Names \cup {0}, ino : 0..NInodes]
         /\ dir'[e] = dir[e] \/ NamesEntry(p, e) \/ LinksEntry(p, e) \/ UnlinksEntry(p, e)
<1> DEFINE f == proc[p]
<1>0. dir \in [Entries -> [name : Names \cup {0}, ino : 0..NInodes]]
  BY DEF IInv, Typed
<1>1. CASE dir' = dir
  BY <1>0, <1>1
<1>2. CASE InodeStep(p)
  <2>1. dir' = dir
    BY <1>2, ActionAt DEF fileVars
  <2> QED
    BY <1>0, <2>1
<1>3. CASE add_entry(p)
  <2> DEFINE free == {x \in Entries : dir[x].ino = 0}
             y == IF free = {} THEN 0 ELSE Min(free)
  <2>1. dir' = [i \in Entries |-> IF i = y THEN [name |-> f.name, ino |-> 0] ELSE dir[i]] /\ At(p, "add_entry")
    BY <1>3 DEF add_entry
  <2>2. e = y => dir[e].ino = 0
    <3>1. free # {} => Min(free) \in free
      BY EntriesSet
    <3> QED
      BY <3>1, EntriesAre
  <2> HIDE DEF y
  <2> QED
    BY <1>0, <2>1, <2>2 DEF At, NamesEntry
<1>4. CASE open_added(p) \/ link_added(p)
  <2>1. f.at \in {"open_added", "link_added"}
    BY <1>4, TopLabel
  <2>2. f.de # 0 => dir[f.de].ino = 0
    BY <2>1 DEF TablesInv, NamesInv
  <2>3. dir' = dir \/ (f.de # 0 /\ dir' = [dir EXCEPT ![f.de].ino = inode[f.ip].num])
    BY <1>4 DEF open_added, link_added, fileVars, Continue
  <2> QED
    BY <1>0, <1>1, <2>1, <2>2, <2>3 DEF LinksEntry
<1>5. CASE unlink_got(p)
  <2>1. f.at = "unlink_got" /\ dir' = [dir EXCEPT ![f.de].ino = 0]
    BY <1>5, TopLabel DEF unlink_got
  <2> QED
    BY <1>0, <2>1 DEF UnlinksEntry
<1>6. CASE find_entry(p) \/ iput_dir(p) \/ open_found(p) \/ open_inode(p) \/ open_got(p) \/ open_new(p)
           \/ open_new_done(p) \/ unlink_found(p)
  <2>1. dir' = dir
    BY <1>6 DEF find_entry, iput_dir, open_found, open_inode, open_got, open_new, open_new_done, unlink_found, fileVars,
                Return, Continue, Opened
  <2> QED
    BY <1>1, <2>1
<1>7. CASE link_found(p) \/ link_inode(p) \/ link_old(p) \/ link_target(p) \/ link_count(p) \/ link_drop(p)
           \/ write_block(p) \/ write_copy(p) \/ write_end(p) \/ \E c \in calls[p] : Enter(p, c)
  <2>1. dir' = dir
    BY <1>7 DEF link_found, link_inode, link_old, link_target, link_count, link_drop, write_block, write_copy, write_end,
                Enter, fileVars, Return, Continue
  <2> QED
    BY <1>1, <2>1
<1> QED
  BY <1>2, <1>3, <1>4, <1>5, <1>6, <1>7 DEF Step, InKernel

\* p changes entries that are free, or have names of its own; they have such names afterwards.
LEMMA OwnEntries ==
  ASSUME IInv, IInv', TablesInv, NEW p \in Procs, Step(p), NEW e \in Entries, dir'[e] # dir[e]
  PROVE  /\ dir[e].ino = 0 \/ dir[e].name \in Mine(calls, p)
         /\ dir'[e].name \in Mine(calls, p) /\ dir'[e].name \in Names
         /\ dir'[e].ino # 0 => /\ LinksEntry(p, e) /\ dir'[e].ino = inode[proc[p].ip].num /\ dir'[e].name = dir[e].name
                               /\ dir'[e].ino # dir[e].ino
<1> DEFINE f == proc[p]
<1>0. dir[e] \in [name : Names \cup {0}, ino : 0..NInodes] /\ (NamesEntry(p, e) \/ LinksEntry(p, e) \/ UnlinksEntry(p, e))
  BY DirMoves
<1>1. f \in Process /\ StackFits(f) /\ NamesInv(p)
  BY HereIs DEF TablesInv
<1>2. CASE NamesEntry(p, e)
  <2>1. CallAt(f) \in {"open_added", "link_added"} /\ f.at # "user"
    BY <1>1, <1>2, HeadsAre DEF NamesEntry, Top
  <2>2. f.name \in Mine(calls, p) /\ f.name \in Names
    BY <1>1, <2>1, NameIs DEF NamesInv
  <2> QED
    BY <1>2, <2>2 DEF NamesEntry
<1>3. CASE LinksEntry(p, e)
  <2>1. CallAt(f) = f.at /\ f.at \in {"open_added", "link_added"}
    <3>1. f.stack = <<>> /\ f.at \in {"open_added", "link_added"}
      BY <1>1, <1>3, HeadsAre DEF LinksEntry, Top
    <3> QED
      BY <3>1, FrameIs DEF CallAt, Caller
  <2>2. f.name \in Mine(calls, p) /\ f.name \in Names /\ f.de # 0
    BY <1>1, <1>3, <2>1, NameIs, EntriesAre DEF NamesInv, LinksEntry
  <2>3. dir[e].name = f.name
    BY <1>1, <1>3, <2>1, <2>2 DEF NamesInv, LinksEntry, Named
  <2> QED
    BY <1>0, <1>3, <2>2, <2>3 DEF LinksEntry
<1>4. CASE UnlinksEntry(p, e)
  <2>1. CallAt(f) = "unlink_got"
    <3>1. f.stack = <<>> /\ f.at = "unlink_got"
      BY <1>1, <1>4, HeadsAre DEF UnlinksEntry, Top
    <3> QED
      BY <3>1, FrameIs DEF CallAt, Caller
  <2>2. f.name \in Mine(calls, p) /\ f.name \in Names /\ dir[e].name = f.name
    BY <1>1, <1>4, <2>1, NameIs DEF NamesInv, UnlinksEntry, Named
  <2> QED
    BY <1>0, <1>4, <2>2 DEF UnlinksEntry
<1> QED
  BY <1>0, <1>2, <1>3, <1>4

(* The other processes *)

\* The label of the system call behind each label
LEMMA CallLabels ==
  ASSUME NEW f \in Process, StackFits(f)
  PROVE  /\ f.at \in Top \cup {"user"} => f.stack = <<>> /\ CallAt(f) = f.at /\ Caller(f).ip = f.ip
         /\ f.at \in InodeLabels => f.stack # <<>> /\ CallAt(f) \in Got \cup {"open_new", "open_done", "user", "write_block"}
         /\ CallAt(f) = "write_block" => f.at \in {"create_block", "getblk", "write_block"}
         /\ f.at = "find_entry" => CallAt(f) \in {"open_found", "unlink_found", "link_found", "link_target"}
         /\ f.at = "add_entry" => CallAt(f) \in {"open_added", "link_added"}
         /\ f.at = "iput_dir" => CallAt(f) \in {"open_inode", "link_inode", "open_new_done", "link_count", "link_drop"}
         /\ f.at \in {"find_entry", "add_entry", "iput_dir"} =>
              f.stack # <<>> /\ Tail(f.stack) = <<>> /\ CallAt(f) = Head(f.stack).at /\ Caller(f).ip = Head(f.stack).ip
         /\ f.at \in Top \cup {"user", "find_entry", "add_entry", "iput_dir"} \cup InodeLabels
<1>1. f.at \in Top \cup {"user"} => f.stack = <<>> /\ CallAt(f) = f.at /\ Caller(f).ip = f.ip
  <2> SUFFICES ASSUME f.at \in Top \cup {"user"} PROVE f.stack = <<>> /\ CallAt(f) = f.at /\ Caller(f).ip = f.ip
    OBVIOUS
  <2>1. f.stack = <<>>
    BY HeadsAre
  <2> QED
    BY <2>1, FrameIs DEF CallAt, Caller
<1>2. f.at \in Top \cup {"user", "find_entry", "add_entry", "iput_dir"} \cup InodeLabels
  <2>1. f.at \in Labels
    BY DEF Process
  <2> QED
    BY <2>1 DEF Labels, Yields, Waits, Top, InodeLabels
<1>3. f.at \in {"write_inode", "write_bread"} /\ Head(f.stack).at = "gei_wait" => CallAt(f) \in Got \cup {"open_new"}
  <2> SUFFICES ASSUME f.at \in {"write_inode", "write_bread"}, Head(f.stack).at = "gei_wait" PROVE CallAt(f) \in Got \cup {"open_new"}
    OBVIOUS
  <2>1. WriteStack(f)
    BY DEF StackFits
  <2>2. ASSUME NEW s \in Slots, NEW a \in Got, f.stack = <<Frame("gei_wait", s), Frame("iget_search", 0), Frame(a, 0)>>
        PROVE  CallAt(f) = a
    <3>1. Caller(f) = Frame(a, 0)
      BY <2>2 DEF Caller
    <3> QED
      BY <3>1, FrameIs DEF CallAt
  <2>3. ASSUME NEW s \in Slots, f.stack = <<Frame("gei_wait", s), Frame("new_inode", 0), Frame("open_new", 0)>>
        PROVE  CallAt(f) = "open_new"
    <3>1. Caller(f) = Frame("open_new", 0)
      BY <2>3 DEF Caller
    <3> QED
      BY <3>1, FrameIs DEF CallAt
  <2>4. f.stack # <<Frame("user", 0)>>
    BY FrameIs, Stacking
  <2>5. ASSUME NEW s \in Slots PROVE f.stack # <<Frame("sync_inodes", s), Frame("user", 0)>>
    BY FrameIs, Stacking
  <2>6. ASSUME NEW s \in Slots, NEW t \in SlotOr0 PROVE f.stack # <<Frame("iput_again", s), Frame("user", t)>>
    BY FrameIs, Stacking
  <2> QED
    BY <2>1, <2>2, <2>3, <2>4, <2>5, <2>6 DEF WriteStack
<1>4. f.at \in {"write_inode", "write_bread"} => CallAt(f) \in Got \cup {"open_new", "user"}
  BY <1>3, HeadsAre
<1>5. f.at \in InodeLabels => f.stack # <<>> /\ f.at \notin Top \cup {"user"}
  BY HeadsAre DEF InodeLabels, Top
<1>6. f.at \in InodeLabels \ {"create_block", "getblk"} => CallAt(f) \in Got \cup {"open_new", "open_done", "user"}
  BY <1>4, <1>5, HeadsAre DEF InodeLabels, Searches
<1>7. f.at \in {"create_block", "getblk"} => CallAt(f) = "write_block"
  BY <1>5, HeadsAre DEF InodeLabels
<1>8. f.at \in {"find_entry", "add_entry", "iput_dir"} =>
              f.stack # <<>> /\ Tail(f.stack) = <<>> /\ CallAt(f) = Head(f.stack).at
  BY HeadsAre DEF Top
<1>9. f.at \in {"find_entry", "add_entry", "iput_dir"} => Caller(f).ip = Head(f.stack).ip
  <2> SUFFICES ASSUME f.at \in {"find_entry", "add_entry", "iput_dir"} PROVE Caller(f).ip = Head(f.stack).ip
    OBVIOUS
  <2> DEFINE g == [at |-> Head(f.stack).at, ip |-> Head(f.stack).ip, stack |-> Tail(f.stack)]
  <2>1. g.at = Head(f.stack).at /\ g.ip = Head(f.stack).ip /\ g.stack = Tail(f.stack)
    OBVIOUS
  <2>2. Caller(g) = Frame(g.at, g.ip)
    BY <1>8, <2>1 DEF Caller
  <2> HIDE DEF g
  <2>3. Caller(g).ip = Caller(f).ip
    BY <1>8, <2>1, CallerReturns
  <2> QED
    BY <2>1, <2>2, <2>3, FrameIs
<1>10. /\ f.at = "find_entry" => CallAt(f) \in {"open_found", "unlink_found", "link_found", "link_target"}
       /\ f.at = "add_entry" => CallAt(f) \in {"open_added", "link_added"}
       /\ f.at = "iput_dir" => CallAt(f) \in {"open_inode", "link_inode", "open_new_done", "link_count", "link_drop"}
  BY <1>8, HeadsAre
<1>11. CallAt(f) = "write_block" => f.at \in {"create_block", "getblk", "write_block"}
  BY <1>1, <1>2, <1>6, <1>10 DEF Got
<1> QED
  BY <1>1, <1>2, <1>5, <1>6, <1>7, <1>8, <1>9, <1>10, <1>11

\* sys_link() holds the inode that it links.
LEMMA LinkerHolds ==
  ASSUME IInv, NEW r \in Procs, CallAt(proc[r]) \in {"link_target", "link_added", "link_count"}
  PROVE  LET s == Caller(proc[r]).ip IN s \in Slots /\ Holds(r, s) /\ inode[s].num # 0
<1> DEFINE f == proc[r]
           c == Caller(f).ip
<1>0. f \in Process /\ Shape(f) /\ StackFits(f) /\ Holding(f)
  BY HereIs DEF IInv, Held
<1>1. f.at \in {"link_target", "link_added", "link_count", "find_entry", "add_entry", "iput_dir"}
  BY <1>0, CallLabels DEF Got
<1>2. CASE f.at \in {"link_target", "link_added", "link_count"}
  <2>1. c = f.ip /\ c \in Slots
    BY <1>0, <1>2, CallLabels, HereIs DEF Top, HasSlot, Counted
  <2>2. Own(f) = c /\ Empty(f) = 0
    BY <1>2, <2>1 DEF Own, Counted, Empty, Searches
  <2> QED
    BY <1>0, <2>1, <2>2, SlotsAre DEF Holding, Holds
<1>3. CASE f.at \in {"find_entry", "add_entry", "iput_dir"}
  <2>1. f.stack # <<>> /\ Head(f.stack).at \in {"link_target", "link_added", "link_count"} /\ c = Head(f.stack).ip
    BY <1>0, <1>3, CallLabels
  <2>2. \E a : \E s \in Slots : f.stack = <<Frame(a, s)>>
    <3>1. FindStack(f) \/ AddStack(f) \/ DirStack(f)
      BY <1>0, <1>3 DEF StackFits
    <3>2. \A a, s : Head(<<Frame(a, s)>>).at = a
      BY Stacking, FrameIs
    <3>3. CASE FindStack(f)
      BY <2>1, <3>2, <3>3 DEF FindStack
    <3>4. CASE AddStack(f)
      BY <3>4 DEF AddStack
    <3>5. CASE DirStack(f)
      BY <2>1, <3>2, <3>5 DEF DirStack
    <3> QED
      BY <3>1, <3>3, <3>4, <3>5
  <2>3. c \in Slots
    BY <2>1, <2>2, Stacking, FrameIs
  <2>4. Below(f) = c
    BY <2>1 DEF Below, Counted
  <2> QED
    BY <1>0, <2>3, <2>4, SlotsAre DEF Holding, Holds
<1> QED
  BY <1>1, <1>2, <1>3

\* What q holds keeps its number in a step of p.
LEMMA HeldKeepsNumber ==
  ASSUME IInv, IInv', TablesInv, NEW p \in Procs, Step(p), NEW q \in Procs \ {p}, NEW s \in Slots, Holds(q, s)
  PROVE  inode'[s].num = inode[s].num
<1> SUFFICES ASSUME inode'[s].num # inode[s].num PROVE FALSE
  OBVIOUS
<1>1. Change(p, s)
  BY Moment DEF Sheet
<1>2. inode[s].count >= 1 /\ inode[s].count \in Nat /\ (Holds(p, s) => inode[s].count >= 2)
  BY HoldersCount
<1>3. ~Clears(p, s)
  BY <1>2 DEF Clears
<1>4. ~Discards(p, s)
  <2> SUFFICES ASSUME Discards(p, s) PROVE FALSE
    OBVIOUS
  <2>1. Frees(proc[p]) /\ s = proc[p].ip
    BY DEF Discards, Frees
  <2>2. Holds(p, s) /\ inode[s].count = 1
    BY <2>1, FreesHolds DEF TablesInv
  <2> QED
    BY <1>2, <2>2
<1>5. ~GivesNumber(p, s) /\ ~Allocates(p, s)
  BY <1>2, EmptyIs
<1> QED
  BY <1>1, <1>3, <1>4, <1>5, NumberMoves

\* What two processes hold has a lasting name.
LEMMA SharedIsPublic ==
  ASSUME IInv, TablesInv, NEW p \in Procs, NEW q \in Procs, p # q, NEW s \in Slots, NEW t \in Slots,
         Holds(p, s), Holds(q, t), inode[s].num = inode[t].num, inode[s].num # 0
  PROVE  inode[s].num \in Public(calls)
<1>1. inode[s].num \in Numbers
  <2>1. inode[s].num \in 0..NInodes
    BY DEF IInv, Typed, Inode
  <2> QED
    BY <2>1, InodesAssumption DEF Numbers
<1>2. RefersTo(p, inode[s].num) /\ RefersTo(q, inode[s].num)
  BY DEF RefersTo, HoldsInode
<1> QED
  BY <1>1, <1>2 DEF TablesInv, OwnInv

\* A file being created is its creator's own.
LEMMA NewIsAlone ==
  ASSUME IInv, TablesInv, NEW q \in Procs, Created(proc[q]) # 0, NEW p \in Procs, p # q, NEW s \in Slots, Holds(p, s)
  PROVE  inode[s].num # inode[Created(proc[q])].num
<1> DEFINE t == Created(proc[q])
<1> SUFFICES ASSUME inode[s].num = inode[t].num PROVE FALSE
  OBVIOUS
<1>1. t \in Slots /\ Holds(q, t) /\ inode[t].num # 0
  BY CreatorHolds
<1>2. inode[t].num \in Public(calls)
  BY <1>1, SharedIsPublic
<1>3. \E e \in Entries : dir[e].ino = inode[t].num
  BY <1>2, PublicLinked DEF LinksOf
<1> QED
  BY <1>3 DEF TablesInv, NewInv

\* A file that is truncated is held by nobody else.
LEMMA TruncatesAlone ==
  ASSUME IInv, TablesInv, NEW p \in Procs, proc[p].at \in {"truncate", "free_block"}, NEW q \in Procs, q # p
  PROVE  ~Holds(q, proc[p].ip) /\ Holds(p, proc[p].ip) /\ proc[p].ip \in Slots
<1> DEFINE f == proc[p]
           s == f.ip
<1>0. f \in Process /\ StackFits(f) /\ Holding(f) /\ ProcInv(p) /\ s \in Slots
  BY HereIs DEF TablesInv, IInv, Held, HasSlot
<1>2. CASE HeadAt(f, "free_inode")
  <2>1. Holds(p, s) /\ inode[s].count = 1
    BY <1>0, <1>2, FreesHolds DEF Frees
  <2> QED
    BY <1>0, <2>1, HoldersCount
<1>3. CASE ~HeadAt(f, "free_inode")
  <2>1. f.stack # <<>> /\ Head(f.stack).at = "open_done" /\ CallAt(f) = "open_done" /\ Head(f.stack).ip = s
    <3>1. f.stack # <<>>
      BY <1>0, HeadsAre DEF Top
    <3>2. Head(f.stack).at = "open_done" /\ Tail(f.stack) = <<>>
      BY <1>0, <1>3, <3>1, HeadsAre DEF HeadAt
    <3>3. Head(f.stack).ip = s
      BY <1>0 DEF ProcInv
    <3> QED
      BY <1>0, <3>1, <3>2, <3>3, HeadsAre
  <2>2. Below(f) = s /\ inode[s].num = f.nr /\ inode[s].num # 0
    BY <1>0, <2>1, SlotsAre DEF Below, Counted, Holding, Kept
  <2>3. f.op = "creat"
    <3>1. TruncateStack(f)
      BY <1>0 DEF StackFits
    <3>2. \A x, t, u : Head(<<Frame("free_inode", x), Frame("user", t)>>).at = "free_inode"
      BY Stacking, FrameIs
    <3> QED
      BY <2>1, <3>1, <3>2 DEF TruncateStack
  <2>4. f.nr \notin Public(calls)
    BY <2>1, <2>3 DEF TablesInv, NamesInv
  <2>5. Holds(p, s)
    BY <2>2 DEF Holds
  <2> QED
    BY <1>0, <2>2, <2>4, <2>5, SharedIsPublic
<1> QED
  BY <1>2, <1>3

\* What q holds is changed by p only if both hold it, and it is named for all to use.
LEMMA OthersEdit ==
  ASSUME IInv, IInv', TablesInv, NEW p \in Procs, Step(p), NEW q \in Procs \ {p}, NEW s \in Slots, Holds(q, s),
         ~Reading(proc[q]) \/ proc[q].ip # s, Fields(inode'[s]) # Fields(inode[s])
  PROVE  Edits(p, s) /\ inode[s].num \in Public(calls) /\ inode[s].num # 0
<1>1. Change(p, s)
  BY Moment DEF Sheet
<1>2. inode[s].count >= 1 /\ inode[s].count \in Nat /\ (Holds(p, s) => inode[s].count >= 2)
  BY HoldersCount
<1>3. ~Clears(p, s)
  BY <1>2 DEF Clears
<1>4. ~Discards(p, s)
  <2> SUFFICES ASSUME Discards(p, s) PROVE FALSE
    OBVIOUS
  <2>1. Frees(proc[p]) /\ s = proc[p].ip
    BY DEF Discards, Frees
  <2> QED
    BY <1>2, <2>1, FreesHolds DEF TablesInv
<1>5. ~Loads(p, s)
  <2> SUFFICES ASSUME Loads(p, s) PROVE FALSE
    OBVIOUS
  <2>1. Reading(proc[p]) /\ s = proc[p].ip
    BY DEF Loads, Reading
  <2>2. Holds(p, s) /\ inode[s].count = 1
    BY <2>1, ReaderHolds DEF TablesInv, ProcInv
  <2> QED
    BY <1>2, <2>2
<1>6. ~Allocates(p, s)
  BY <1>2, EmptyIs
<1>7. Edits(p, s)
  BY <1>1, <1>3, <1>4, <1>5, <1>6, FieldsMove
<1>8. Holds(p, s) /\ inode[s].num # 0
  BY <1>7, EditedHasNumber DEF Edits
<1> QED
  BY <1>7, <1>8, SharedIsPublic

\* What is freed has no name.
LEMMA FreedHasNoName ==
  ASSUME IInv, TablesInv, NEW q \in Procs, Frees(proc[q])
  PROVE  LET n == inode[proc[q].ip].num IN
         n # 0 /\ n \in imap /\ n \notin Public(calls) /\ \A e \in Entries : dir[e].ino # n
<1> DEFINE s == proc[q].ip
           n == inode[s].num
<1>1. /\ s \in Slots /\ Holds(q, s) /\ inode[s].count = 1 /\ inode[s].nlinks = 0 /\ n # 0 /\ ~Reading(proc[q])
      /\ proc[q].at \in {"free_inode", "truncate", "free_block"}
  BY FreesHolds DEF TablesInv
<1>2. Now(n) = Fields(inode[s])
  BY <1>1, AloneLoaded, NowIs DEF TablesInv
<1>3. Now(n).nlinks = 0
  BY <1>1, <1>2 DEF Fields
<1>4. n \in imap
  BY <1>1 DEF TablesInv, MarkedInUse
<1>5. ASSUME NEW r \in Procs, NEW t \in Slots, Holds(r, t), inode[t].num = n PROVE r = q
  <2>1. t = s
    BY <1>1, <1>5 DEF TablesInv, UniqueInode
  <2> QED
    BY <1>1, <1>5, <2>1, HoldersCount
<1>6. ~BeingCreated(n)
  <2> SUFFICES ASSUME NEW r \in Procs, Created(proc[r]) # 0, inode[Created(proc[r])].num = n PROVE FALSE
    BY DEF BeingCreated
  <2>1. Created(proc[r]) \in Slots /\ Holds(r, Created(proc[r])) /\ proc[r].at \in {"open_new", "add_entry", "open_added"}
    BY CreatorHolds
  <2> QED
    BY <1>1, <1>5, <2>1
<1>7. LinksOf(n) = {}
  <2>1. Cardinality(LinksOf(n)) = 0
    BY <1>3, <1>4, <1>6 DEF TablesInv, LinkInv
  <2> QED
    BY <2>1, LinksAre
<1>8. n \notin Public(calls)
  BY <1>7, PublicLinked
<1>9. ASSUME NEW e \in Entries, dir[e].ino = n PROVE FALSE
  <2>1. PICK r \in Procs : CallAt(proc[r]) = "link_count" /\ proc[r].de = e
    BY <1>7, <1>9 DEF LinksOf, Pending
  <2>2. dir[e].ino = inode[Caller(proc[r]).ip].num
    BY <2>1, PendingIs
  <2>3. r = q
    BY <1>5, <1>9, <2>1, <2>2, LinkerHolds
  <2>4. CallAt(proc[q]) \in Got \cup {"open_new", "open_done", "user", "write_block"}
    BY <1>1, HereIs, CallLabels DEF InodeLabels
  <2> QED
    BY <2>1, <2>3, <2>4 DEF Got
<1> QED
  BY <1>1, <1>4, <1>8, <1>9

\* p leaves the entries alone that q has named.
LEMMA EntriesOfOthers ==
  ASSUME IInv, IInv', TablesInv, NEW p \in Procs, Step(p), NEW q \in Procs \ {p}, NEW e \in Entries,
         dir[e].ino # 0, dir[e].name \in Mine(calls, q)
  PROVE  dir'[e] = dir[e]
<1> SUFFICES ASSUME dir'[e] # dir[e] PROVE FALSE
  OBVIOUS
<1>1. dir[e].name \in Mine(calls, p)
  BY OwnEntries
<1> QED
  BY <1>1 DEF TablesInv, RaceFree

\* The others' calls
LEMMA OthersCalls ==
  ASSUME IInv, IInv', TablesInv, NEW p \in Procs, Step(p), NEW q \in Procs \ {p}
  PROVE  Asked(q)' /\ OpInv(q)'
<1>1. proc'[q] = proc[q] /\ calls' = calls /\ Asked(q) /\ OpInv(q)
  BY Moment DEF TablesInv
<1>2. Asked(q)'
  BY <1>1 DEF Asked, CallAt, Caller
<1>3. OpInv(q)'
  BY <1>1 DEF OpInv, CallAt, Caller, HeadAt
<1> QED
  BY <1>2, <1>3

\* What another has found by name stays,
LEMMA OthersNames ==
  ASSUME IInv, IInv', TablesInv, NEW p \in Procs, Step(p), NEW q \in Procs \ {p}
  PROVE  NamesInv(q)'
<1> DEFINE f == proc[q]
           a == CallAt(f)
           s == Caller(f).ip
<1>1. proc'[q] = f /\ calls' = calls /\ NamesInv(q) /\ f \in Process /\ StackFits(f)
  BY Moment DEF TablesInv
<1>2. f.at \in Asleep
  BY Moment, OthersSleep DEF TablesInv
<1>3. f.at \notin {"open_found", "unlink_found", "link_found", "link_target", "open_added", "link_added", "open_inode", "link_inode",
                   "open_got", "unlink_got", "link_old"}
  BY <1>2 DEF Asleep, Yields, Waits
<1>4. (\E e \in Entries : dir[e].ino = f.nr /\ dir[e].name \in Mine(calls, q)) /\ f.nr # 0 =>
        \E e \in Entries : dir'[e].ino = f.nr /\ dir'[e].name \in Mine(calls, q)
  <2> SUFFICES ASSUME NEW e \in Entries, dir[e].ino = f.nr, dir[e].name \in Mine(calls, q), f.nr # 0
               PROVE  dir'[e] = dir[e]
    BY Zenon
  <2> QED
    BY EntriesOfOthers
<1>5. a \in Seeks => f.nr # 0
  <2> SUFFICES ASSUME a \in Seeks PROVE f.nr # 0
    OBVIOUS
  <2>1. f.at \notin Top \cup {"user"}
    BY <1>1, <1>3, CallLabels DEF Seeks, Got
  <2>2. f.stack # <<>>
    BY <1>1, <2>1, HeadsAre
  <2>3. CASE a \in Got
    BY <2>2, <2>3, SoughtHasNumber
  <2>4. CASE a \in {"open_inode", "link_inode"}
    <3>1. f.at = "iput_dir"
      BY <1>1, <2>1, <2>4, CallLabels DEF Got
    <3>2. DirStack(f) /\ Head(f.stack).at = a
      BY <1>1, <3>1, CallLabels DEF StackFits
    <3>3. \A x, t : Head(<<Frame(x, t)>>).at = x
      BY Stacking, FrameIs
    <3> QED
      BY <2>4, <3>2, <3>3 DEF DirStack
  <2> QED
    BY <2>3, <2>4 DEF Seeks
<1>6. a \in Seeks => SeekInv(q)'
  BY <1>1, <1>4, <1>5 DEF NamesInv, SeekInv, NamesInode
<1>7. a = "unlink_got" => f.de \in Entries /\ dir'[f.de].name = f.name /\ dir'[f.de].ino = f.nr
  <2> SUFFICES ASSUME a = "unlink_got" PROVE f.de \in Entries /\ dir'[f.de].name = f.name /\ dir'[f.de].ino = f.nr
    OBVIOUS
  <2>1. Named(f) /\ dir[f.de].ino = f.nr /\ f.nr # 0
    BY <1>1, <1>5 DEF NamesInv, Seeks, Got
  <2>2. f.at # "user"
    BY <1>1, CallLabels
  <2>3. f.name \in Mine(calls, q)
    BY <2>2, NameIs
  <2>4. dir'[f.de] = dir[f.de]
    BY <2>1, <2>3, EntriesOfOthers DEF Named
  <2> QED
    BY <2>1, <2>4 DEF Named
<1>8. a \in {"link_target", "link_added", "link_count"} => inode'[s].num = inode[s].num /\ inode[s].num # 0
  BY LinkerHolds, HeldKeepsNumber
<1>9. a = "link_count" => f.de \in Entries /\ dir'[f.de].name = f.name /\ dir'[f.de].ino = inode'[s].num
  <2> SUFFICES ASSUME a = "link_count" PROVE f.de \in Entries /\ dir'[f.de].name = f.name /\ dir'[f.de].ino = inode'[s].num
    OBVIOUS
  <2>1. Named(f) /\ dir[f.de].ino = inode[s].num /\ f.name \in Mine(calls, q) /\ inode[s].num # 0 /\ inode'[s].num = inode[s].num
    BY <1>1, <1>8 DEF NamesInv
  <2>2. dir'[f.de] = dir[f.de]
    BY <2>1, EntriesOfOthers DEF Named
  <2> QED
    BY <2>1, <2>2 DEF Named
<1>10. (a \in {"open_new", "open_added", "link_added", "link_count"} => f.name \in Mine(calls, q))
       /\ (a \in Seeks \cup {"open_done"} /\ f.op = "creat" => f.nr \notin Public(calls))
       /\ (a \in {"link_target", "link_added", "link_count"} /\ inode'[s].num \in Public(calls) => LinksPublic(calls, q))
  BY <1>1, <1>8 DEF NamesInv
<1> QED
  BY <1>1, <1>3, <1>6, <1>7, <1>9, <1>10 DEF NamesInv, Named, CallAt, Caller

\* and the inode another creates,
LEMMA OthersNew ==
  ASSUME IInv, IInv', TablesInv, NEW p \in Procs, Step(p), NEW q \in Procs \ {p}
  PROVE  NewInv(q)'
<1> DEFINE f == proc[q]
           s == Created(f)
<1>1. proc'[q] = f /\ NewInv(q) /\ UniqueInode /\ inode \in [Slots -> Inode] /\ inode' \in [Slots -> Inode]
  BY Moment DEF TablesInv
<1> SUFFICES ASSUME s # 0
             PROVE  /\ \A e \in Entries : dir'[e].ino # inode'[s].num
                    /\ inode'[s].nlinks = 1 /\ inode'[s].zone = 0
  BY <1>1 DEF NewInv, Created, CallAt, Caller
<1>2. s \in Slots /\ Holds(q, s) /\ inode[s].num # 0 /\ inode'[s].num = inode[s].num
  BY CreatorHolds, HeldKeepsNumber
<1>3. (\A e \in Entries : dir[e].ino # inode[s].num) /\ inode[s].nlinks = 1 /\ inode[s].zone = 0
  BY <1>1 DEF NewInv
<1>4. ASSUME NEW e \in Entries, dir'[e].ino = inode'[s].num PROVE FALSE
  <2>1. dir'[e] # dir[e] /\ dir'[e].ino # 0
    BY <1>2, <1>3, <1>4
  <2>2. LinksEntry(p, e) /\ dir'[e].ino = inode[proc[p].ip].num
    BY <2>1, OwnEntries
  <2>3. Holds(p, proc[p].ip) /\ proc[p].ip \in Slots
    BY <2>2, HereIs DEF LinksEntry, Holds, Own, Counted, HasSlot
  <2> QED
    BY <1>2, <1>4, <2>2, <2>3, NewIsAlone
<1>5. Fields(inode'[s]) = Fields(inode[s])
  <2> SUFFICES ASSUME Fields(inode'[s]) # Fields(inode[s]) PROVE FALSE
    OBVIOUS
  <2>1. ~Reading(f)
    BY CreatorHolds DEF Reading
  <2>2. Edits(p, s)
    BY <1>2, <2>1, OthersEdit
  <2> QED
    BY <1>2, <2>2, NewIsAlone DEF Edits
<1> QED
  BY <1>3, <1>4, <1>5 DEF Fields

\* and the file another writes.
LEMMA OthersFile ==
  ASSUME IInv, IInv', TablesInv, NEW p \in Procs, Step(p), NEW q \in Procs \ {p}
  PROVE  FileInv(q)'
<1> DEFINE f == proc[q]
           s == f.ip
<1>1. proc'[q] = f /\ file'[q] = file[q] /\ FileInv(q) /\ FileInv(p) /\ f.at # "write_block" /\ f \in Process /\ StackFits(f)
  BY Moment, OthersSleep DEF TablesInv, Asleep, Yields, Waits
<1>2. f.at \in {"getblk", "bread", "copy", "free_block"} => s \in Slots /\ Holds(q, s) /\ ~Reading(f)
  <2>1. f.at \in {"getblk", "bread", "copy"} => s = file[q].slot /\ s # 0 /\ s \in SlotOr0
    BY <1>1 DEF FileInv, Process
  <2> QED
    BY <2>1, TruncatesAlone, SlotsAre DEF Holds, Reading
<1>3. f.at = "getblk" => inode'[s].zone = 0
  <2> SUFFICES ASSUME f.at = "getblk", inode'[s].zone # 0 PROVE FALSE
    OBVIOUS
  <2>1. inode[s].zone = 0
    BY <1>1 DEF FileInv
  <2>2. Edits(p, s) /\ inode[s].num \in Public(calls) /\ inode[s].num # 0
    BY <1>2, <2>1, OthersEdit DEF Fields
  <2>3. proc[p].at = "getblk"
    BY <2>1, <2>2 DEF Edits
  <2>4. \A r \in Procs : proc[r].at = "getblk" => Does(calls, r, "write")
    <3> TAKE r \in Procs
    <3> SUFFICES ASSUME proc[r].at = "getblk" PROVE Does(calls, r, "write")
      OBVIOUS
    <3>1. CallAt(proc[r]) = "write_block"
      BY HereIs, HeadsAre DEF Top
    <3>2. proc[r].op = "write"
      BY <3>1 DEF TablesInv, OpInv
    <3> QED
      BY <3>2 DEF TablesInv, Asked, Does
  <2>5. RefersTo(p, inode[s].num) /\ RefersTo(q, inode[s].num)
    BY <1>2, <2>2 DEF RefersTo, HoldsInode, Edits
  <2>6. Reaches(calls, p) /\ Reaches(calls, q)
    BY <2>2, <2>5 DEF TablesInv, OwnInv
  <2> QED
    BY <2>3, <2>4, <2>6 DEF TablesInv, RaceFree
<1>4. f.at \in {"bread", "copy", "free_block"} => f.blk # 0 /\ f.blk = inode'[s].zone
  <2> SUFFICES ASSUME f.at \in {"bread", "copy", "free_block"}, inode'[s].zone # inode[s].zone PROVE FALSE
    BY <1>1 DEF FileInv
  <2>1. inode[s].zone # 0
    BY <1>1 DEF FileInv
  <2>2. Edits(p, s)
    BY <1>2, OthersEdit DEF Fields
  <2>3. proc[p].at \in {"getblk", "free_block"} /\ s = proc[p].ip
    BY <2>2 DEF Edits
  <2>4. CASE proc[p].at = "getblk"
    BY <1>1, <2>1, <2>3, <2>4 DEF FileInv
  <2>5. CASE proc[p].at = "free_block"
    BY <1>2, <2>3, <2>5, TruncatesAlone
  <2> QED
    BY <2>3, <2>4, <2>5
<1> QED
  BY <1>1, <1>3, <1>4 DEF FileInv, CallAt, Caller

\* So a step of p keeps all that is known of the other processes.
LEMMA OthersStay ==
  ASSUME IInv, IInv', TablesInv, NEW p \in Procs, Step(p), NEW q \in Procs \ {p}
  PROVE  (ProcInv(q) /\ Asked(q) /\ OpInv(q) /\ NamesInv(q) /\ NewInv(q) /\ FileInv(q))'
BY OthersProcStays, OthersCalls, OthersNames, OthersNew, OthersFile

================================================================================
