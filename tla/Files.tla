-------------------------------- MODULE Files --------------------------------
(***************************************************************************)
(* System calls on names and open files, on top of the inode table:        *)
(* fs/namei.c, fs/open.c and file_write() of fs/file_dev.c.                *)
(*                                                                         *)
(* One directory, whose blocks are read through the buffer cache and whose *)
(* inode is always in use: find_entry(), add_entry() and the iput() of the *)
(* directory are points where a process may sleep.  An entry is free when  *)
(* its inode number is 0.  A process has at most one open file; what       *)
(* fork() and dup() share is left out, and so are permissions.             *)
(***************************************************************************)
EXTENDS Inodes

CONSTANTS Names,      \* names of files
          DirSize,    \* entries of the directory, its blocks taken together
          InitialDir, \* the directory at the start
          InitialDisk,\* the inodes on the disk at the start
          Workloads   \* each: process -> the calls it may make

Entries == 1..DirSize
SystemCall == [op : {"open", "creat", "mknod", "unlink", "link", "sync", "write", "close"},
               name : Names, to : Names]

ASSUME FilesAssumption ==
    /\ DirSize \in Nat
    /\ InitialDir \in [Entries -> [name : Names, ino : 0..NInodes]]
    /\ InitialDisk \in [Numbers -> [nlinks : Nat, zone : 0..NZones]]
    /\ Workloads \subseteq [Procs -> SUBSET SystemCall]

VARIABLES dir,        \* entry -> name and inode number
          file,       \* process -> slot of its open file, and its number
          calls       \* the workload, chosen at the start

fileVars == <<dir, file, calls>>
vars == <<inodeVars, procVars, fileVars>>

Closed == [slot |-> 0, num |-> 0]

Init ==
    /\ InodesInit
    /\ dir = InitialDir
    /\ d_inode = InitialDisk
    /\ imap = {InitialDir[e].ino : e \in Entries} \ {0}
    /\ zmap = {InitialDisk[n].zone : n \in imap} \ {0}
    /\ file = [p \in Procs |-> Closed]
    /\ calls \in Workloads

-----------------------------------------------------------------------------
(* The directory *)

(* find_entry(): the first entry of the name, 0 when there is none *)
find_entry(p) ==
    LET f == proc[p]
        found == {e \in Entries : dir[e].name = f.name /\ dir[e].ino # 0}
    IN /\ At(p, "find_entry")
       /\ UNCHANGED <<inodeVars, fileVars>>
       /\ Goto(p, [Returns(f) EXCEPT !.de = IF found = {} THEN 0 ELSE Min(found)])

(* add_entry(): the first free entry gets the name, and no inode yet *)
add_entry(p) ==
    LET f == proc[p]
        free == {e \in Entries : dir[e].ino = 0}
        e == IF free = {} THEN 0 ELSE Min(free)
    IN /\ At(p, "add_entry")
       /\ dir' = [i \in Entries |->
                    IF i = e THEN [name |-> f.name, ino |-> 0] ELSE dir[i]]
       /\ UNCHANGED <<inodeVars, file, calls>>
       /\ Goto(p, [Returns(f) EXCEPT !.de = e])

(* iput() of the directory, which others hold as well *)
iput_dir(p) ==
    /\ At(p, "iput_dir")
    /\ UNCHANGED <<inodeVars, fileVars>>
    /\ Goto(p, Returns(proc[p]))

(* iget(dev, n) *)
Iget(f, n, ret) ==
    [f EXCEPT !.at = "get_empty_inode", !.ip = 0, !.nr = n,
              !.stack = <<Frame("iget_search", 0), Frame(ret, f.ip)>> \o f.stack]

(* Calls f, which returns to the label ret *)
Continue(p, label, s, ret) ==
    UNCHANGED <<inodeVars, fileVars>> /\ Goto(p, Calls(proc[p], label, s, ret))
Return(p) == UNCHANGED <<inodeVars, fileVars>> /\ Goto(p, AtUser)

-----------------------------------------------------------------------------
(* sys_open(), sys_creat(), sys_mknod() *)

open_found(p) ==
    LET f == proc[p]
    IN /\ At(p, "open_found")
       /\ \/ /\ f.de = 0 /\ f.op \in {"creat", "mknod"}
             /\ UNCHANGED <<inodeVars, fileVars>>
             /\ Goto(p, [f EXCEPT !.at = "get_empty_inode",
                                  !.stack = <<Frame("new_inode", 0), Frame("open_new", 0)>>])
          \/ /\ f.de # 0 /\ f.op \in {"open", "creat"}
             /\ UNCHANGED <<inodeVars, fileVars>>
             /\ Goto(p, Calls([f EXCEPT !.nr = dir[f.de].ino], "iput_dir", 0, "open_inode"))
          \/ /\ IF f.de = 0 THEN f.op = "open" ELSE f.op = "mknod"
             /\ Return(p)

open_inode(p) ==
    /\ At(p, "open_inode")
    /\ UNCHANGED <<inodeVars, fileVars>>
    /\ Goto(p, Iget(proc[p], proc[p].nr, "open_got"))

(* The end of sys_open() *)
Opened(p, s, n) ==
    /\ file' = [file EXCEPT ![p] = [slot |-> s, num |-> n]]
    /\ UNCHANGED <<inodeVars, dir, calls>>
    /\ Goto(p, AtUser)

(* open_namei() behind iget(); sys_creat() truncates *)
open_got(p) ==
    LET f == proc[p]
    IN \/ At(p, "open_got") /\ f.op = "creat" /\ Continue(p, "truncate", f.ip, "open_done")
       \/ At(p, "open_got") /\ f.op = "open" /\ Opened(p, f.ip, f.nr)
       \/ At(p, "open_done") /\ Opened(p, f.ip, f.nr)

(* open_namei() and sys_mknod() behind new_inode() *)
open_new(p) ==
    /\ At(p, "open_new")
    /\ IF proc[p].ip = 0
         THEN Return(p)
         ELSE Continue(p, "add_entry", proc[p].ip, "open_added")

open_added(p) ==
    LET f == proc[p]
    IN /\ At(p, "open_added")
       /\ IF f.de = 0
            THEN /\ inode' = [inode EXCEPT ![f.ip].nlinks = 0]
                 /\ Goto(p, Calls(f, "iput", f.ip, "user"))
                 /\ UNCHANGED <<last_inode, d_inode, imap, zmap, fileVars>>
            ELSE /\ dir' = [dir EXCEPT ![f.de].ino = inode[f.ip].num]
                 /\ UNCHANGED <<inodeVars, file, calls>>
                 /\ Goto(p, Calls([f EXCEPT !.nr = inode[f.ip].num],
                                  "iput_dir", 0, "open_new_done"))

open_new_done(p) ==
    LET f == proc[p]
    IN /\ At(p, "open_new_done")
       /\ \/ f.op = "creat" /\ Opened(p, f.ip, f.nr)
          \/ f.op = "mknod" /\ Continue(p, "iput", f.ip, "user")

-----------------------------------------------------------------------------
(* sys_unlink() *)

unlink_found(p) ==
    LET f == proc[p]
    IN /\ At(p, "unlink_found")
       /\ IF f.de = 0
            THEN Return(p)
            ELSE /\ UNCHANGED <<inodeVars, fileVars>>
                 /\ Goto(p, Iget(f, dir[f.de].ino, "unlink_got"))

(* Mutant: the inode is not marked dirty. *)
unlink_got_clean(p) ==
    /\ At(p, "unlink_got")
    /\ dir' = [dir EXCEPT ![proc[p].de].ino = 0]
    /\ inode' = [inode EXCEPT ![proc[p].ip].nlinks = IF @ = 0 THEN 0 ELSE @ - 1]
    /\ Goto(p, Calls(proc[p], "iput", proc[p].ip, "user"))
    /\ UNCHANGED <<last_inode, d_inode, imap, zmap, file, calls>>

(* A file without links is given one before its entry is cleared. *)
unlink_got(p) ==
    LET f == proc[p]
    IN /\ At(p, "unlink_got")
       /\ dir' = [dir EXCEPT ![f.de].ino = 0]
       /\ inode' = [inode EXCEPT ![f.ip].nlinks = IF @ = 0 THEN 0 ELSE @ - 1,
                                 ![f.ip].dirt = TRUE]
       /\ Goto(p, Calls(f, "iput", f.ip, "user"))
       /\ UNCHANGED <<last_inode, d_inode, imap, zmap, file, calls>>

-----------------------------------------------------------------------------
(* sys_link() *)

(* namei() of the old name *)
link_found(p) ==
    LET f == proc[p]
    IN /\ At(p, "link_found")
       /\ IF f.de = 0
            THEN Return(p)
            ELSE /\ UNCHANGED <<inodeVars, fileVars>>
                 /\ Goto(p, Calls([f EXCEPT !.nr = dir[f.de].ino], "iput_dir", 0, "link_inode"))

link_inode(p) ==
    /\ At(p, "link_inode")
    /\ UNCHANGED <<inodeVars, fileVars>>
    /\ Goto(p, Iget(proc[p], proc[p].nr, "link_old"))

(* namei() sets i_dirt for the time of access; then the new name is sought *)
link_old(p) ==
    LET f == proc[p]
    IN /\ At(p, "link_old")
       /\ inode' = [inode EXCEPT ![f.ip].dirt = TRUE]
       /\ \E c \in calls[p] :
            /\ c.op = "link" /\ c.name = f.name
            /\ Goto(p, Calls([f EXCEPT !.name = c.to], "find_entry", f.ip, "link_target"))
       /\ UNCHANGED <<last_inode, d_inode, imap, zmap, fileVars>>

link_target(p) ==
    LET f == proc[p]
    IN /\ At(p, "link_target")
       /\ IF f.de # 0
            THEN Continue(p, "iput_dir", f.ip, "link_drop")
            ELSE Continue(p, "add_entry", f.ip, "link_added")

link_added(p) ==
    LET f == proc[p]
    IN /\ At(p, "link_added")
       /\ IF f.de = 0
            THEN Continue(p, "iput_dir", f.ip, "link_drop")
            ELSE /\ dir' = [dir EXCEPT ![f.de].ino = inode[f.ip].num]
                 /\ UNCHANGED <<inodeVars, file, calls>>
                 /\ Goto(p, Calls(f, "iput_dir", f.ip, "link_count"))

(* The link is counted after the directory has been let go. *)
link_count(p) ==
    LET f == proc[p]
    IN /\ At(p, "link_count")
       /\ inode' = [inode EXCEPT ![f.ip].nlinks = @ + 1, ![f.ip].dirt = TRUE]
       /\ Goto(p, Calls(f, "iput", f.ip, "user"))
       /\ UNCHANGED <<last_inode, d_inode, imap, zmap, fileVars>>

link_drop(p) == At(p, "link_drop") /\ Continue(p, "iput", proc[p].ip, "user")

-----------------------------------------------------------------------------
(* file_write(), one block: behind create_block(), behind bread(), and at  *)
(* the end of the copy, where a page of the user may have to be fetched.   *)
write_block(p) ==
    /\ At(p, "write_block")
    /\ IF proc[p].blk = 0
         THEN Return(p)
         ELSE /\ UNCHANGED <<inodeVars, fileVars>>
              /\ Goto(p, [proc[p] EXCEPT !.at = "bread"])

(* i_size may grow *)
write_copy(p) ==
    /\ At(p, "bread")
    /\ \E grows \in BOOLEAN :
         inode' = [inode EXCEPT ![proc[p].ip].dirt = @ \/ grows]
    /\ Goto(p, [proc[p] EXCEPT !.at = "copy"])
    /\ UNCHANGED <<last_inode, d_inode, imap, zmap, fileVars>>

write_end(p) == At(p, "copy") /\ Return(p)

-----------------------------------------------------------------------------
(* A process at user level makes a call. *)
Enter(p, c) ==
    LET f == [proc[p] EXCEPT !.op = c.op, !.name = c.name]
        s == file[p].slot
        Go(g) == UNCHANGED <<inodeVars, fileVars>> /\ Goto(p, g)
    IN /\ At(p, "user")
       /\ \/ /\ c.op \in {"open", "creat"} /\ s = 0
             /\ Go(Calls(f, "find_entry", 0, "open_found"))
          \/ c.op = "mknod" /\ Go(Calls(f, "find_entry", 0, "open_found"))
          \/ c.op = "unlink" /\ Go(Calls(f, "find_entry", 0, "unlink_found"))
          \/ c.op = "link" /\ Go(Calls(f, "find_entry", 0, "link_found"))
          \/ c.op = "sync" /\ Go(Calls(f, "sync_inodes", 1, "user"))
          \/ /\ c.op = "write" /\ s # 0
             /\ Go(Calls([f EXCEPT !.ip = s], "create_block", s, "write_block"))
          \/ /\ c.op = "close" /\ s # 0
             /\ file' = [file EXCEPT ![p] = Closed]
             /\ UNCHANGED <<inodeVars, dir, calls>>
             /\ Goto(p, Calls(f, "iput", s, "user"))

(* panic() does not return; its sys_sync() is left out. *)
Halted == panic # "" /\ UNCHANGED vars

InKernel(p) ==
    \/ InodeStep(p) /\ UNCHANGED fileVars
    \/ find_entry(p) \/ add_entry(p) \/ iput_dir(p)
    \/ open_found(p) \/ open_inode(p) \/ open_got(p)
    \/ open_new(p) \/ open_added(p) \/ open_new_done(p)
    \/ unlink_found(p) \/ unlink_got(p)
    \/ link_found(p) \/ link_inode(p) \/ link_old(p)
    \/ link_target(p) \/ link_added(p) \/ link_count(p) \/ link_drop(p)
    \/ write_block(p) \/ write_copy(p) \/ write_end(p)

Next ==
    \/ \E p \in Procs : InKernel(p) \/ \E c \in calls[p] : Enter(p, c)
    \/ Halted

Spec == Init /\ [][Next]_vars

-----------------------------------------------------------------------------
(* Workloads without races.  The calls do not guard a name that one process  *)
(* works on against another, so two processes may share a file only by names *)
(* that stay.                                                                *)

\* Names that are there from the start and that no call removes or truncates
Lasting(w) ==
    {m \in Names : /\ \E e \in Entries : InitialDir[e].name = m /\ InitialDir[e].ino # 0
                   /\ \A p \in Procs : \A c \in w[p] : c.op \in {"creat", "unlink"} => c.name # m}

\* The other names that a process uses
NameOps == {"open", "creat", "mknod", "unlink", "link"}
Uses(C, m) == \E c \in C : c.op \in NameOps /\ (c.name = m \/ (c.op = "link" /\ c.to = m))
Mine(w, p) == {m \in Names \ Lasting(w) : Uses(w[p], m)}

\* Files that have a lasting name
Public(w) == {InitialDir[e].ino : e \in {x \in Entries : InitialDir[x].name \in Lasting(w)}} \ {0}

Does(w, p, op) == \E c \in w[p] : c.op = op
LinksPublic(w, p) == \E c \in w[p] : c.op = "link" /\ c.name \in Lasting(w)
Reaches(w, p) == \E c \in w[p] : c.op \in {"open", "link"} /\ c.name \in Lasting(w)

\* A name that does not last is used by one process, and so are the other names that
\* its file has at the start.  Nobody truncates what may be a public file, one process
\* writes the public files, and none writes while another may call sync().
RaceFree(w) ==
    /\ \A p, q \in Procs : p # q => Mine(w, p) \cap Mine(w, q) = {}
    /\ \A e \in Entries :
         InitialDir[e].ino # 0 /\ InitialDir[e].name \notin Lasting(w) =>
           \E p \in Procs : \A d \in Entries :
             InitialDir[d].ino = InitialDir[e].ino => InitialDir[d].name \in Mine(w, p)
    /\ \A p \in Procs : Does(w, p, "creat") => ~LinksPublic(w, p)
    /\ \A p, q \in Procs :
         Does(w, p, "write") /\ Reaches(w, p) /\ Does(w, q, "write") /\ Reaches(w, q) => p = q
    /\ (\E p \in Procs : Does(w, p, "sync")) =>
         /\ \A p \in Procs : ~Does(w, p, "write")
         /\ \A n \in Numbers : InitialDisk[n].zone = 0

\* A file system that agrees with itself at the start
SoundDisk ==
    /\ DirSize # 0
    /\ \A n \in Numbers :
         InitialDisk[n].nlinks = Cardinality({e \in Entries : InitialDir[e].ino = n})
    /\ \A e, d \in Entries :
         /\ InitialDir[e].ino # 0 /\ InitialDir[d].ino # 0 /\ InitialDir[e].ino # InitialDir[d].ino
         /\ InitialDisk[InitialDir[e].ino].zone = InitialDisk[InitialDir[d].ino].zone
         => InitialDisk[InitialDir[e].ino].zone = 0

-----------------------------------------------------------------------------
(* Properties *)

Labels == Yields \cup Waits \cup
    {"get_empty_inode", "iget_search", "truncate", "free_inode", "new_inode",
     "create_block", "open_found", "open_inode", "open_got", "open_done",
     "open_new", "open_added", "open_new_done", "unlink_found", "unlink_got",
     "link_found", "link_inode", "link_old", "link_target", "link_added",
     "link_count", "link_drop", "write_block"}

(* The tables hold what their fields are for; the stack is as deep as the  *)
(* nesting of calls in the source.                                         *)
TypeOK ==
    /\ inode \in [Slots -> [num : 0..NInodes, count : 0..2*Cardinality(Procs) + 1,
                            nlinks : 0..DirSize, dirt : BOOLEAN, lock : BOOLEAN,
                            zone : 0..NZones]]
    /\ last_inode \in Slots
    /\ d_inode \in [Numbers -> [nlinks : 0..DirSize, zone : 0..NZones]]
    /\ imap \subseteq Numbers /\ zmap \subseteq Zones
    /\ cpu \in Procs \cup {Nobody}
    /\ dir \in [Entries -> [name : Names, ino : 0..NInodes]]
    /\ file \in [Procs -> [slot : 0..NR_INODE, num : 0..NInodes]]
    /\ \A p \in Procs :
         /\ proc[p].at \in Labels /\ proc[p].ip \in 0..NR_INODE
         /\ Len(proc[p].stack) <= 4

(* No two slots hold one inode, whatever happens between the moment when a *)
(* process finds a slot unused, or an inode absent, and the moment when it *)
(* takes it: two copies of an inode would overwrite each other's changes.  *)
UniqueInode ==
    \A s, t \in Slots :
        s # t /\ inode[s].num = inode[t].num => inode[s].num = 0

(* Every inode in memory is marked in use in the bitmap: new_inode() does  *)
(* not give its number again.                                              *)
MarkedInUse == \A s \in Slots : inode[s].num # 0 => inode[s].num \in imap

(* Labels at which ip is a reference the process has counted. *)
Counted == {"read_inode", "read_bread", "iput", "iput_again", "free_inode",
            "new_inode", "open_got", "open_done", "open_new", "open_added",
            "open_new_done", "unlink_got", "link_old", "link_target",
            "link_added", "link_count", "link_drop"}

References(s) ==
    Cardinality({p \in Procs : file[p].slot = s})
    + Cardinality({p \in Procs : proc[p].at \in Counted /\ proc[p].ip = s})
    + Cardinality({p \in Procs : proc[p].at \in {"iget_search", "iget_wait"}
                                   /\ proc[p].empty = s})
    + Cardinality({r \in Procs \X (1..4) :
                     LET stack == proc[r[1]].stack
                     IN  /\ r[2] <= Len(stack)
                         /\ stack[r[2]].at \in Counted /\ stack[r[2]].ip = s})

(* i_count is the number of open files and of calls under way that refer   *)
(* to the slot: on every path, also those that fail, each reference taken  *)
(* is given back once.                                                     *)
CountIsReferences == \A s \in Slots : inode[s].count = References(s)

(* A slot in use is not given to another inode: iget() brings the inode    *)
(* asked for and an open file stays the file that was opened, although     *)
(* get_empty_inode(), iget() and iput() sleep between looking at a slot    *)
(* and taking it or letting it go.                                         *)
HeldInodeKeepsNumber ==
    \A p \in Procs :
        /\ file[p].slot # 0 => inode[file[p].slot].num = file[p].num
        /\ proc[p].at \in {"open_got", "unlink_got", "link_old"}
             => inode[proc[p].ip].num = proc[p].nr

(* The newest copy of an inode: the slot that holds it, or else the disk. *)
Newest(n) ==
    IF \E s \in Slots : inode[s].num = n
      THEN inode[CHOOSE s \in Slots : inode[s].num = n]
      ELSE d_inode[n]

LinksTo(n) == Cardinality({e \in Entries : dir[e].ino = n})
ZoneOf(n) == IF n \in imap THEN Newest(n).zone ELSE 0

(* Between calls the file system agrees with itself: an inode is allocated *)
(* while it has a name or is open, counts its names, and each allocated    *)
(* block belongs to one inode.  So no change of an inode is lost when its  *)
(* slot is given away, and nothing is freed twice or never.                *)
Consistent ==
    panic = "" /\ (\A p \in Procs : proc[p].at = "user") =>
      /\ \A n \in Numbers :
           /\ n \in imap <=> LinksTo(n) > 0 \/ \E p \in Procs : file[p].num = n
           /\ n \in imap => Newest(n).nlinks = LinksTo(n)
      /\ \A n, k \in Numbers : n # k /\ ZoneOf(n) = ZoneOf(k) => ZoneOf(n) = 0
      /\ zmap = {ZoneOf(n) : n \in Numbers} \ {0}

(* The kernel panics for one reason only, when more inodes are in use than *)
(* inode_table has slots: the others say that its own tables are wrong, an *)
(* inode or a block freed twice, or one freed that somebody uses.  And     *)
(* every inode in memory is marked in use.                                 *)
TablesAreSane ==
    /\ TypeOK /\ MarkedInUse
    /\ panic \in {"", "No free inodes in mem"}
=============================================================================
