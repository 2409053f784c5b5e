------------------------------- MODULE MCFiles -------------------------------
(***************************************************************************)
(* Instances of Files: two processes, one file of theirs both (shared) and *)
(* a private name for each.                                                *)
(***************************************************************************)
EXTENDS Files, TLC

CONSTANTS p1, p2, shared, a, b

MCProcs == {p1, p2}
MCNames == {shared, a, b}
MCDir == [e \in 1..DirSize |-> IF e = 1 THEN [name |-> shared, ino |-> 1]
                                        ELSE [name |-> shared, ino |-> 0]]
MCDisk == [n \in 1..NInodes |-> IF n = 1 THEN [nlinks |-> 1, zone |-> 0]
                                         ELSE [nlinks |-> 0, zone |-> 0]]

Op(op, name) == [op |-> op, name |-> name, to |-> name]
Link(old, new) == [op |-> "link", name |-> old, to |-> new]
On(name, ops) == {Op(op, name) : op \in ops}

(* Names are created and removed by the process they are private to; the  *)
(* shared file is opened, written and linked to.  A file that has a block  *)
(* is removed or truncated while nobody calls sync() and while nobody else *)
(* writes it.  With NZones = 1 the device is full when one file has a      *)
(* block.                                                                  *)
Blocks == [p \in MCProcs |->
    IF p = p1 THEN On(a, {"creat", "mknod", "write", "unlink", "close"})
              ELSE On(b, {"mknod", "unlink"})]
Writes == [p \in MCProcs |->
    IF p = p1 THEN On(a, {"creat", "write", "unlink", "close", "open"})
              ELSE On(shared, {"open", "write", "close"})]
Syncs == [p \in MCProcs |->
    IF p = p1 THEN On(a, {"mknod", "unlink"}) \cup On(shared, {"open", "close"})
              ELSE {Op("sync", shared), Link(shared, b), Op("unlink", b)}]
(* More inodes in use than the table has slots. *)
Full == [p \in MCProcs |->
    IF p = p1 THEN {Op("creat", a), Op("mknod", b)}
              ELSE {Op("open", shared), Link(shared, shared)}]
MCWorkloads == {Blocks, Writes, Syncs, Full}

(* What the theorems of FilesTables suppose *)
ASSUME NoRaces == SoundDisk /\ \A w \in MCWorkloads : RaceFree(w)

(* Both processes open and remove one file. *)
MCRace == {[p \in MCProcs |-> On(shared, {"open", "close", "unlink"})]}
=============================================================================
